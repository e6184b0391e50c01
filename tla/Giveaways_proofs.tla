--------------------------- MODULE Giveaways_proofs ---------------------------
(***************************************************************************)
(* For any users, giveaways and clicks: nobody has too many giveaways      *)
(* open, the array of a row tells what its users were told, unless clicks  *)
(* got tangled, and no goods are doubled or lost on the way.               *)
(***************************************************************************)
EXTENDS Giveaways, AtomicBank_proofs

-----------------------------------------------------------------------------
(* The inductive invariant.                                                *)

\* A row has entrants only once it exists.
EmptyUntilOpen ==
  \A g \in Giveaways : giveaway[g].at \notin {"open", "completed"} =>
    \A u \in Users : entered[g][u] = 0

\* The host of a row is neither clicking on it nor in what a click has read.
ClicksSpareHost ==
  \A k \in clicks :
    /\ giveaway[k.on].at \in {"open", "completed"}
    /\ k.user # Host(k.on)
    /\ k.seen[Host(k.on)] = 0

\* Clicks in flight on a row that is not tangled leave each other alone, and
\* what they read is still so.
ClicksAreCurrent ==
  \A k \in clicks :
    /\ k.id <= clicked
    /\ k.on \notin tangled =>
         /\ k.action = "LEAVE" => k.seen = entered[k.on]
         /\ k.action = "ENTER" => entered[k.on][k.user] = 0
         /\ \A l \in clicks : l # k => ~Spoils(k, l)

EntryInv == EmptyUntilOpen /\ ClicksSpareHost /\ ClicksAreCurrent /\ EntriesAsTold

\* A host who is starting a giveaway has room for it, but for those commands
\* that overlapped with another.
Engaged(u) == Active(u) \cup Starting(u)
EngagedIsBounded ==
  \A u \in Users : freed[u] <= peak[u] /\ Cardinality(Engaged(u)) <= MaxActive + peak[u]

\* The ticker fetches open rows, and only it completes them.
TickerRows ==
  /\ \A g \in found : giveaway[g].at = "open"
  /\ \A g \in drawing : giveaway[g].at = "completed"

GiveawayInv == GiveawayTypeOK /\ Solvent /\ EntryInv /\ EngagedIsBounded /\ TickerRows

-----------------------------------------------------------------------------
LEMMA GiveawayInvInit == GiveawayInit => GiveawayInv
<1> SUFFICES ASSUME GiveawayInit
             PROVE  GiveawayInv
  OBVIOUS
<1>1. Solvent
  BY GiveawayAssumption DEF GiveawayInit, Solvent
<1>2. GiveawayTypeOK
  <2>1. UnusedSlot \in Slots /\ UnusedSlot.at = "unused" /\ UnusedSlot.host = NoUser
    BY DEF UnusedSlot, Slots, GiveawayPhases
  <2>2. bank \in [Users -> [Items -> Int]] /\ gp \in [Users -> Int]
    BY <1>1 DEF Solvent, Banks
  <2>3. giveaway \in [Giveaways -> Slots] /\ \A g \in Giveaways : giveaway[g] = UnusedSlot
    BY <2>1 DEF GiveawayInit
  <2>4. [u \in Users |-> 0] \in Entries /\ 0 \in 0..MaxClicks
    BY GiveawayAssumption DEF Entries
  <2>5. \A g \in Giveaways : giveaway[g].at = "unused" /\ Host(g) = NoUser
    BY <2>1, <2>3 DEF Host
  <2>6. \A g \in Giveaways : \A u \in Users : entered[g][u] = 0
    BY DEF GiveawayInit
  <2>7. /\ entered \in [Giveaways -> Entries] /\ clicked \in 0..MaxClicks
        /\ drawn \in [Giveaways -> SUBSET Users] /\ told \in [Giveaways -> SUBSET Users]
        /\ freed \in [Users -> Nat] /\ peak \in [Users -> Nat]
        /\ due = {} /\ clicks = {} /\ found = {} /\ drawing = {} /\ tangled = {} /\ failed = FALSE
    BY <2>4 DEF GiveawayInit
  <2> QED
    BY <2>2, <2>3, <2>5, <2>6, <2>7 DEF GiveawayTypeOK
<1>3. EntryInv
  BY DEF GiveawayInit, EntryInv, EmptyUntilOpen, ClicksSpareHost, ClicksAreCurrent, EntriesAsTold
<1>4. EngagedIsBounded
  <2>1. ASSUME NEW u \in Users
        PROVE  Engaged(u) = {}
    BY DEF GiveawayInit, UnusedSlot, Engaged, Active, Starting
  <2>2. Cardinality({}) = 0
    BY FS_EmptySet
  <2>3. \A u \in Users : freed[u] = 0 /\ peak[u] = 0
    BY DEF GiveawayInit
  <2>4. ASSUME NEW u \in Users
        PROVE  freed[u] <= peak[u] /\ Cardinality(Engaged(u)) <= MaxActive + peak[u]
    <3>1. Cardinality(Engaged(u)) = 0
      BY <2>1, <2>2
    <3> QED
      BY <2>3, <3>1, GiveawayAssumption
  <2> QED
    BY <2>4 DEF EngagedIsBounded
<1>5. TickerRows
  BY DEF GiveawayInit, TickerRows
<1> QED
  BY <1>1, <1>2, <1>3, <1>4, <1>5 DEF GiveawayInv

(* Nobody's engagements grow unless he starts a giveaway.                  *)
LEMMA EngagedShrinks ==
  ASSUME EngagedIsBounded, \A u \in Users : Engaged(u)' \subseteq Engaged(u),
         freed' \in [Users -> Nat], peak \in [Users -> Nat], peak' \in [Users -> Nat],
         \A u \in Users : freed'[u] <= peak'[u] /\ peak[u] <= peak'[u]
  PROVE  EngagedIsBounded'
<1>1. ASSUME NEW u \in Users
      PROVE  Cardinality(Engaged(u))' <= MaxActive + peak'[u]
  <2>1. IsFiniteSet(Engaged(u))
    <3>1. Engaged(u) \subseteq Giveaways
      BY DEF Engaged, Active, Starting
    <3> QED
      BY <3>1, FS_Subset, GiveawayAssumption
  <2>2. Cardinality(Engaged(u)') <= Cardinality(Engaged(u)) /\ IsFiniteSet(Engaged(u)')
    BY <2>1, FS_Subset
  <2>3. Cardinality(Engaged(u)) \in Nat /\ Cardinality(Engaged(u)') \in Nat
    BY <2>1, <2>2, FS_CardinalityType
  <2>4. Cardinality(Engaged(u)) <= MaxActive + peak[u]
    BY DEF EngagedIsBounded
  <2>5. peak[u] \in Nat /\ peak'[u] \in Nat /\ peak[u] <= peak'[u]
    OBVIOUS
  <2> QED
    BY <2>2, <2>3, <2>4, <2>5, GiveawayAssumption
<1> QED
  BY <1>1 DEF EngagedIsBounded

(* The same, as long as nobody is freed.                                   *)
LEMMA EngagedKept ==
  ASSUME GiveawayTypeOK, EngagedIsBounded, UNCHANGED freeVars,
         \A u \in Users : Engaged(u)' \subseteq Engaged(u)
  PROVE  EngagedIsBounded'
<1>1. /\ freed' = freed /\ peak' = peak
      /\ freed \in [Users -> Nat] /\ peak \in [Users -> Nat]
  BY DEF GiveawayTypeOK, freeVars
<1>2. \A u \in Users : freed'[u] <= peak'[u] /\ peak[u] <= peak'[u]
  BY <1>1 DEF EngagedIsBounded
<1> QED
  BY <1>1, <1>2, EngagedShrinks

(* A slot moves on and stays well typed.                                   *)
LEMMA MovesTyped ==
  ASSUME GiveawayTypeOK, NEW g \in Giveaways, NEW phase \in GiveawayPhases \ {"unused"},
         giveaway[g].at # "unused", Moves(g, phase)
  PROVE  /\ giveaway' \in [Giveaways -> Slots]
         /\ \A h \in Giveaways : Host(h)' = Host(h) /\ giveaway'[h].loot = giveaway[h].loot
         /\ \A h \in Giveaways \ {g} : giveaway'[h].at = giveaway[h].at
         /\ giveaway'[g].at = phase
BY DEF GiveawayTypeOK, Slots, Moves, Host

-----------------------------------------------------------------------------
(* Steps of the command and the ticker leave the entries alone.            *)
LEMMA EntriesStay ==
  ASSUME GiveawayTypeOK, EntryInv, UNCHANGED <<entered, clickVars>>,
         \A g \in Giveaways :
           giveaway[g].at \in {"open", "completed"} =>
             giveaway'[g].at \in {"open", "completed"} /\ Host(g)' = Host(g)
  PROVE  EntryInv'
<1>1. \A k \in clicks : k.on \in Giveaways
  BY DEF GiveawayTypeOK, ClickType
<1>2. clicks' = clicks /\ clicked' = clicked /\ told' = told /\ tangled' = tangled
  BY DEF clickVars
<1>3. EmptyUntilOpen'
  BY DEF EntryInv, EmptyUntilOpen
<1>4. ClicksSpareHost'
  BY <1>1, <1>2 DEF EntryInv, ClicksSpareHost
<1>5. ClicksAreCurrent'
  BY <1>2 DEF EntryInv, ClicksAreCurrent
<1>6. EntriesAsTold'
  BY <1>2 DEF EntryInv, EntriesAsTold
<1> QED
  BY <1>3, <1>4, <1>5, <1>6 DEF EntryInv

(* So do they, when no slot is involved.                                   *)
LEMMA EngagedStays ==
  ASSUME GiveawayTypeOK, EngagedIsBounded, giveaway' = giveaway, UNCHANGED freeVars
  PROVE  EngagedIsBounded'
<1>1. \A u \in Users : Engaged(u)' = Engaged(u)
  BY DEF Engaged, Active, Starting, Host
<1> QED
  BY <1>1, EngagedKept

(* A slot that moves on from one phase to another engages nobody anew.     *)
LEMMA MovesEngages ==
  ASSUME GiveawayTypeOK, EngagedIsBounded, NEW g \in Giveaways,
         NEW phase \in GiveawayPhases \ {"unused"},
         giveaway[g].at # "unused", giveaway[g].at # "abandoned", giveaway[g].at # "completed",
         giveaway[g].at = "open" => phase = "completed", Moves(g, phase), UNCHANGED freeVars
  PROVE  EngagedIsBounded'
<1>1. /\ \A h \in Giveaways : Host(h)' = Host(h)
      /\ \A h \in Giveaways \ {g} : giveaway'[h].at = giveaway[h].at
      /\ giveaway'[g].at = phase
  BY MovesTyped
<1>2. \A u \in Users : Engaged(u)' \subseteq Engaged(u)
  BY <1>1 DEF Engaged, Active, Starting, Host, GiveawayTypeOK, Slots, GiveawayPhases
<1> QED
  BY <1>2, EngagedKept

(* A step of one slot that moves no goods.                                 *)
LEMMA MovesStep ==
  ASSUME GiveawayInv, NEW g \in Giveaways, NEW phase \in GiveawayPhases \ {"unused"},
         giveaway[g].at # "unused", giveaway[g].at # "abandoned", giveaway[g].at # "completed",
         giveaway[g].at = "open" => phase = "completed",
         Moves(g, phase), Solvent', UNCHANGED <<entered, due, clickVars, freeVars>>,
         found' \subseteq found \ {g}, drawing' \subseteq Giveaways \ found',
         \A h \in drawing' \ drawing : h = g /\ phase = "completed",
         drawn' \in [Giveaways -> SUBSET Users], failed' \in BOOLEAN
  PROVE  GiveawayInv'
<1>1. /\ giveaway' \in [Giveaways -> Slots]
      /\ \A h \in Giveaways : Host(h)' = Host(h) /\ giveaway'[h].loot = giveaway[h].loot
      /\ \A h \in Giveaways \ {g} : giveaway'[h].at = giveaway[h].at
      /\ giveaway'[g].at = phase
  BY MovesTyped DEF GiveawayInv
<1>2. EngagedIsBounded'
  BY MovesEngages DEF GiveawayInv
<1>3. EntryInv'
  BY <1>1, EntriesStay DEF GiveawayInv
<1>4. bank' \in [Users -> [Items -> Int]] /\ gp' \in [Users -> Int]
  BY DEF Solvent, Banks
<1>5. \A h \in Giveaways : giveaway'[h].at # "unused" => Host(h)' \in Users /\ giveaway'[h].loot \in Loots
  BY <1>1 DEF GiveawayInv, GiveawayTypeOK
<1>6. GiveawayTypeOK'
  BY <1>1, <1>4, <1>5 DEF GiveawayInv, GiveawayTypeOK, clickVars, freeVars
<1>7. TickerRows'
  BY <1>1 DEF GiveawayInv, GiveawayTypeOK, TickerRows
<1> QED
  BY <1>2, <1>3, <1>6, <1>7 DEF GiveawayInv

(* A step that touches no slot.                                            *)
LEMMA OtherStep ==
  ASSUME GiveawayInv, giveaway' = giveaway, Solvent', UNCHANGED <<entered, clickVars, freeVars>>,
         due' \subseteq Giveaways, found' \subseteq Giveaways, drawing' \subseteq Giveaways \ found',
         drawing' \subseteq drawing, drawn' = drawn, failed' \in BOOLEAN,
         \A g \in found' : giveaway[g].at = "open"
  PROVE  GiveawayInv'
<1>1. \A h : Host(h)' = Host(h)
  BY DEF Host
<1>2. EngagedIsBounded'
  BY EngagedStays DEF GiveawayInv
<1>3. EntryInv'
  BY <1>1, EntriesStay DEF GiveawayInv
<1>4. bank' \in [Users -> [Items -> Int]] /\ gp' \in [Users -> Int]
  BY DEF Solvent, Banks
<1>5. GiveawayTypeOK'
  BY <1>1, <1>4 DEF GiveawayInv, GiveawayTypeOK, clickVars, freeVars
<1>6. TickerRows'
  BY DEF GiveawayInv, TickerRows
<1> QED
  BY <1>2, <1>3, <1>5, <1>6 DEF GiveawayInv

-----------------------------------------------------------------------------
(* The steps of the command.                                               *)
LEMMA StartsStep ==
  ASSUME GiveawayInv, NEW g \in Giveaways, NEW u \in Users, NEW p \in Loots, Starts(g, u, p)
  PROVE  GiveawayInv'
<1> DEFINE s == [at |-> "asked", host |-> u, loot |-> p]
<1>1. /\ giveaway \in [Giveaways -> Slots] /\ giveaway[g].at = "unused"
      /\ Cardinality(Starting(u)) <= freed[u]
      /\ Cardinality(Active(u)) < MaxActive /\ giveaway' = [giveaway EXCEPT ![g] = s]
      /\ UNCHANGED <<bank, gp, entered, due, clickVars, drawVars, failed, freeVars>>
  BY DEF Starts, GateLetsIn, GiveawayInv, GiveawayTypeOK
<1>2. s \in Slots /\ s.at = "asked" /\ s.host = u /\ s.loot = p
  BY DEF Slots, GiveawayPhases
<1> HIDE DEF s
<1>3. /\ giveaway' \in [Giveaways -> Slots] /\ giveaway'[g] = s
      /\ \A h \in Giveaways \ {g} : giveaway'[h] = giveaway[h]
  BY <1>1, <1>2
<1>4. EntryInv'
  BY <1>1, <1>3, EntriesStay DEF GiveawayInv, Host
<1>5. Solvent'
  BY <1>1 DEF GiveawayInv, Solvent
<1>6. GiveawayTypeOK'
  <2>1. entered[g][u] = 0
    BY <1>1 DEF GiveawayInv, EntryInv, EmptyUntilOpen
  <2>2. \A h \in Giveaways : giveaway'[h].at # "unused" => Host(h)' \in Users /\ giveaway'[h].loot \in Loots
    BY <1>2, <1>3 DEF GiveawayInv, GiveawayTypeOK, Host
  <2>3. \A h \in Giveaways : Host(h)' \in Users => entered'[h][Host(h)'] = 0
    BY <1>1, <1>2, <1>3, <2>1 DEF GiveawayInv, GiveawayTypeOK, Host
  <2> QED
    BY <1>1, <1>3, <2>2, <2>3 DEF GiveawayInv, GiveawayTypeOK, clickVars, drawVars, freeVars
<1>7. EngagedIsBounded'
  <2>1. ASSUME NEW v \in Users \ {u}
        PROVE  Engaged(v)' = Engaged(v)
    BY <1>1, <1>2, <1>3 DEF Engaged, Active, Starting, Host
  <2>2. Engaged(u)' = Engaged(u) \cup {g} /\ g \notin Engaged(u)
    BY <1>1, <1>2, <1>3 DEF Engaged, Active, Starting, Host
  <2>3. IsFiniteSet(Active(u)) /\ IsFiniteSet(Starting(u)) /\ IsFiniteSet(Engaged(u))
    <3>1. Active(u) \subseteq Giveaways /\ Starting(u) \subseteq Giveaways /\ Engaged(u) \subseteq Giveaways
      BY DEF Active, Starting, Engaged
    <3> QED
      BY <3>1, FS_Subset, GiveawayAssumption
  <2>4. Cardinality(Engaged(u)) <= Cardinality(Active(u)) + Cardinality(Starting(u))
    <3>1. Cardinality(Active(u) \cup Starting(u)) = Cardinality(Active(u)) + Cardinality(Starting(u))
                                                    - Cardinality(Active(u) \cap Starting(u))
      BY <2>3, FS_Union
    <3>2. IsFiniteSet(Active(u) \cap Starting(u))
      BY <2>3, FS_Intersection
    <3>3. /\ Cardinality(Active(u)) \in Nat /\ Cardinality(Starting(u)) \in Nat
          /\ Cardinality(Active(u) \cap Starting(u)) \in Nat
      BY <2>3, <3>2, FS_CardinalityType
    <3>4. Engaged(u) = Active(u) \cup Starting(u)
      BY DEF Engaged
    <3> QED
      BY <3>1, <3>3, <3>4
  <2>5. Cardinality(Engaged(u) \cup {g}) = Cardinality(Engaged(u)) + 1
    BY <2>2, <2>3, FS_AddElement
  <2>6. /\ Cardinality(Active(u)) \in Nat /\ Cardinality(Starting(u)) \in Nat
        /\ Cardinality(Engaged(u)) \in Nat
    BY <2>3, FS_CardinalityType
  <2>7. /\ peak' = peak /\ freed' = freed /\ \A v \in Users : freed[v] \in Nat /\ peak[v] \in Nat
        /\ \A v \in Users : freed[v] <= peak[v] /\ Cardinality(Engaged(v)) <= MaxActive + peak[v]
    BY <1>1 DEF GiveawayInv, GiveawayTypeOK, EngagedIsBounded, freeVars
  <2>8. Cardinality(Engaged(u)') <= MaxActive + peak[u]
    <3>1. freed[u] <= peak[u] /\ freed[u] \in Nat /\ peak[u] \in Nat
      BY <2>7
    <3> QED
      BY <1>1, <2>2, <2>4, <2>5, <2>6, <3>1, GiveawayAssumption
  <2>9. ASSUME NEW v \in Users
        PROVE  freed'[v] <= peak'[v] /\ Cardinality(Engaged(v))' <= MaxActive + peak'[v]
    <3>1. CASE v = u
      BY <2>7, <2>8, <3>1
    <3>2. CASE v # u
      BY <2>1, <2>7, <3>2
    <3> QED
      BY <3>1, <3>2
  <2> QED
    BY <2>9 DEF EngagedIsBounded
<1>8. TickerRows'
  BY <1>1, <1>3 DEF GiveawayInv, GiveawayTypeOK, TickerRows, drawVars
<1> QED
  BY <1>4, <1>5, <1>6, <1>7, <1>8 DEF GiveawayInv

LEMMA CommandSteps ==
  ASSUME GiveawayInv, NEW g \in Giveaways,
         Agrees(g) \/ Abandons(g) \/ TakesLoot(g) \/ CreatesGiveaway(g) \/ CreateFails(g)
  PROVE  GiveawayInv'
<1>1. /\ giveaway[g].at \in {"asked", "ready", "taken"}
      /\ g \notin found /\ found \subseteq Giveaways /\ drawing \subseteq Giveaways \ found
      /\ drawn \in [Giveaways -> SUBSET Users] /\ failed \in BOOLEAN
  BY DEF Agrees, Abandons, TakesLoot, CreatesGiveaway, CreateFails, GiveawayInv, GiveawayTypeOK,
         TickerRows
<1>2. {"ready", "taken", "open", "abandoned"} \subseteq GiveawayPhases \ {"unused"}
  BY DEF GiveawayPhases
<1>3. Solvent'
  <2>1. CASE TakesLoot(g)
    <3>1. Host(g) \in Users /\ giveaway[g].loot \in Purses
      BY <1>1, GiveawayAssumption DEF GiveawayInv, GiveawayTypeOK
    <3>2. Out(Host(g), giveaway[g].loot) \in RequestType
      BY <3>1, OutInTyped
    <3> QED
      BY <2>1, <3>2, TransactionKeepsSolvent DEF TakesLoot, GiveawayInv
  <2>2. CASE UNCHANGED <<bank, gp>>
    BY <2>2 DEF GiveawayInv, Solvent
  <2> QED
    BY <2>1, <2>2 DEF Agrees, Abandons, CreatesGiveaway, CreateFails
<1>4. /\ UNCHANGED <<entered, due, clickVars, freeVars>>
      /\ found' \subseteq found \ {g} /\ drawing' \subseteq Giveaways \ found'
      /\ \A h \in drawing' \ drawing : h = g /\ FALSE
      /\ drawn' \in [Giveaways -> SUBSET Users] /\ failed' \in BOOLEAN
  BY <1>1 DEF Agrees, Abandons, TakesLoot, CreatesGiveaway, CreateFails, drawVars
<1>6. giveaway[g].at \in {"asked", "ready", "taken"} /\ giveaway[g].at # "unused"
  BY <1>1
<1>7. ASSUME NEW phase \in {"ready", "taken", "open", "abandoned"}, Moves(g, phase)
      PROVE  GiveawayInv'
  <2>1. phase \in GiveawayPhases \ {"unused"}
    BY <1>2
  <2>2. /\ giveaway[g].at # "unused" /\ giveaway[g].at # "abandoned" /\ giveaway[g].at # "completed"
        /\ giveaway[g].at = "open" => phase = "completed"
    BY <1>6
  <2>3. \A h \in drawing' \ drawing : h = g /\ phase = "completed"
    BY <1>4
  <2> QED
    BY <1>3, <1>4, <1>7, <2>1, <2>2, <2>3, MovesStep
<1> QED
  BY <1>7 DEF Agrees, Abandons, TakesLoot, CreatesGiveaway, CreateFails

(* The steps of the ticker.                                                *)
LEMMA TickerSteps ==
  ASSUME GiveawayInv, NEW g \in Giveaways, Marks(g) \/ MarkFails(g) \/ Settles(g)
  PROVE  GiveawayInv'
<1>1. /\ found \subseteq Giveaways /\ drawing \subseteq Giveaways \ found /\ due \subseteq Giveaways
      /\ drawn \in [Giveaways -> SUBSET Users] /\ failed \in BOOLEAN
      /\ \A h \in found : giveaway[h].at = "open"
  BY DEF GiveawayInv, GiveawayTypeOK, TickerRows
<1>2. CASE Marks(g)
  <2>1. giveaway[g].at = "open" /\ "completed" \in GiveawayPhases \ {"unused"}
    BY <1>1, <1>2 DEF Marks, GiveawayPhases
  <2>2. Solvent'
    BY <1>2 DEF Marks, GiveawayInv, Solvent
  <2>3. /\ found' = found \ {g} /\ drawing' \subseteq Giveaways \ found'
        /\ \A h \in drawing' \ drawing : h = g
        /\ drawn' \in [Giveaways -> SUBSET Users] /\ failed' \in BOOLEAN
        /\ Moves(g, "completed") /\ UNCHANGED <<entered, due, clickVars, freeVars>>
    BY <1>1, <1>2 DEF Marks, Entrants
  <2> QED
    BY <2>1, <2>2, <2>3, MovesStep
<1>3. CASE MarkFails(g)
  <2>1. Solvent'
    BY <1>3 DEF MarkFails, GiveawayInv, Solvent
  <2> QED
    BY <1>1, <1>3, <2>1, OtherStep DEF MarkFails
<1>4. CASE Settles(g)
  <2>1. g \in drawing /\ giveaway[g].loot \in Loots \cup {NoLoot}
    BY <1>4 DEF Settles, Refunds, PayFails, Wins, GiveawayInv, GiveawayTypeOK, Slots
  <2>2. giveaway[g].loot \in Purses
    BY <2>1, GiveawayAssumption DEF NoLoot, Purses, NoItems, Banks
  <2>3. Solvent'
    <3>1. CASE PayFails(g)
      BY <3>1 DEF PayFails, GiveawayInv, Solvent
    <3>2. ASSUME NEW u \in Users, Wins(g, u)
          PROVE  Solvent'
      BY <2>2, <3>2, OutInTyped, TransactionKeepsSolvent DEF Wins, GiveawayInv
    <3>3. CASE Refunds(g)
      <4>1. Host(g) \in Users
        BY <2>1 DEF GiveawayInv, GiveawayTypeOK, TickerRows
      <4> QED
        BY <2>2, <3>3, <4>1, OutInTyped, TransactionKeepsSolvent DEF Refunds, GiveawayInv
    <3> QED
      BY <1>4, <3>1, <3>2, <3>3 DEF Settles
  <2>4. /\ UNCHANGED <<giveaway, entered, due, clickVars, found, drawn, freeVars>>
        /\ drawing' = drawing \ {g} /\ failed' \in BOOLEAN
    BY <1>1, <1>4 DEF Settles, Refunds, PayFails, Wins, Settled
  <2> QED
    BY <1>1, <2>3, <2>4, OtherStep
<1> QED
  BY <1>2, <1>3, <1>4

LEMMA QueryAndClockSteps ==
  ASSUME GiveawayInv, TickFinds \/ \E g \in Giveaways : TimePasses(g)
  PROVE  GiveawayInv'
<1>1. /\ found \subseteq Giveaways /\ drawing \subseteq Giveaways \ found /\ due \subseteq Giveaways
      /\ failed \in BOOLEAN /\ \A g \in found : giveaway[g].at = "open"
  BY DEF GiveawayInv, GiveawayTypeOK, TickerRows
<1>2. Solvent'
  BY DEF TickFinds, TimePasses, GiveawayInv, Solvent
<1>3. /\ UNCHANGED <<giveaway, entered, clickVars, freeVars>>
      /\ due' \subseteq Giveaways /\ found' \subseteq Giveaways
      /\ drawing' \subseteq Giveaways \ found' /\ drawing' \subseteq drawing
      /\ drawn' = drawn /\ failed' \in BOOLEAN
      /\ \A g \in found' : giveaway[g].at = "open"
  <2>1. CASE TickFinds
    <3>1. found = {} /\ drawing = {}
      BY <2>1 DEF TickFinds
    <3> QED
      BY <1>1, <2>1, <3>1 DEF TickFinds
  <2>2. CASE \E g \in Giveaways : TimePasses(g)
    BY <1>1, <2>2 DEF TimePasses, drawVars
  <2> QED
    BY <2>1, <2>2
<1> QED
  BY <1>2, <1>3, OtherStep

(* The process dies.                                                       *)
LEMMA DeathStep ==
  ASSUME GiveawayInv, GiveawaysDie
  PROVE  GiveawayInv'
<1>1. /\ giveaway \in [Giveaways -> Slots] /\ failed' \in BOOLEAN
      /\ giveaway' = [g \in Giveaways |->
                        IF giveaway[g].at \in {"asked", "ready", "taken"}
                          THEN [giveaway[g] EXCEPT !.at = "abandoned"] ELSE giveaway[g]]
      /\ clicks' = {} /\ found' = {} /\ drawing' = {}
      /\ UNCHANGED <<bank, gp, entered, due, clicked, drawn, told, tangled>>
      /\ freed' = [u \in Users |-> 0] /\ peak' = peak /\ peak \in [Users -> Nat]
  BY DEF GiveawaysDie, GiveawayInv, GiveawayTypeOK
<1>2. /\ giveaway' \in [Giveaways -> Slots]
      /\ \A g \in Giveaways :
           /\ Host(g)' = Host(g) /\ giveaway'[g].loot = giveaway[g].loot
           /\ \/ giveaway'[g].at = giveaway[g].at
              \/ giveaway[g].at \in {"asked", "ready", "taken"} /\ giveaway'[g].at = "abandoned"
  <2> DEFINE dead(g) == [giveaway[g] EXCEPT !.at = "abandoned"]
  <2>1. ASSUME NEW g \in Giveaways
        PROVE  /\ giveaway[g] \in Slots /\ dead(g) \in Slots /\ dead(g).at = "abandoned"
               /\ dead(g).host = giveaway[g].host /\ dead(g).loot = giveaway[g].loot
    <3>1. giveaway[g] \in Slots
      BY <1>1
    <3> QED
      BY <3>1 DEF Slots, GiveawayPhases
  <2>2. ASSUME NEW g \in Giveaways
        PROVE  giveaway'[g] = IF giveaway[g].at \in {"asked", "ready", "taken"} THEN dead(g) ELSE giveaway[g]
    BY <1>1
  <2>3. giveaway' = [g \in Giveaways |-> giveaway'[g]]
    BY <1>1
  <2> HIDE DEF dead
  <2>4. \A g \in Giveaways : giveaway'[g] \in Slots
    BY <2>1, <2>2
  <2>5. giveaway' \in [Giveaways -> Slots]
    BY <2>3, <2>4
  <2>6. ASSUME NEW g \in Giveaways
        PROVE  /\ giveaway'[g].host = giveaway[g].host /\ giveaway'[g].loot = giveaway[g].loot
               /\ \/ giveaway'[g].at = giveaway[g].at
                  \/ giveaway[g].at \in {"asked", "ready", "taken"} /\ giveaway'[g].at = "abandoned"
    <3>1. CASE giveaway[g].at \in {"asked", "ready", "taken"}
      <4>1. giveaway'[g] = dead(g)
        BY <2>2, <3>1
      <4> QED
        BY <2>1, <3>1, <4>1
    <3>2. CASE giveaway[g].at \notin {"asked", "ready", "taken"}
      <4>1. giveaway'[g] = giveaway[g]
        BY <2>2, <3>2
      <4> QED
        BY <4>1
    <3> QED
      BY <3>1, <3>2
  <2> QED
    BY <2>5, <2>6 DEF Host
<1>3. Solvent'
  BY <1>1 DEF GiveawayInv, Solvent
<1>4. GiveawayTypeOK'
  <2>1. \A g \in Giveaways : giveaway'[g].at # "unused" => Host(g)' \in Users /\ giveaway'[g].loot \in Loots
    BY <1>2 DEF GiveawayInv, GiveawayTypeOK
  <2> QED
    BY <1>1, <1>2, <2>1 DEF GiveawayInv, GiveawayTypeOK
<1>5. EntryInv'
  BY <1>1, <1>2 DEF GiveawayInv, EntryInv, EmptyUntilOpen, ClicksSpareHost, ClicksAreCurrent, EntriesAsTold
<1>6. EngagedIsBounded'
  <2>1. \A u \in Users : Engaged(u)' \subseteq Engaged(u)
    BY <1>2 DEF Engaged, Active, Starting, Host
  <2>2. \A u \in Users : freed'[u] = 0 /\ peak'[u] = peak[u] /\ peak[u] \in Nat
    BY <1>1
  <2>3. freed' \in [Users -> Nat] /\ \A u \in Users : freed'[u] <= peak'[u] /\ peak[u] <= peak'[u]
    BY <1>1, <2>2
  <2> QED
    BY <1>1, <2>1, <2>3, EngagedShrinks DEF GiveawayInv
<1>7. TickerRows'
  BY <1>1 DEF TickerRows
<1> QED
  BY <1>3, <1>4, <1>5, <1>6, <1>7 DEF GiveawayInv

-----------------------------------------------------------------------------
(* What a click has to keep: its own part of the state.                    *)
LEMMA ClickStep ==
  ASSUME GiveawayInv, UNCHANGED <<bank, gp, giveaway, due, drawVars, failed, freeVars>>,
         entered' \in [Giveaways -> Entries],
         \A g \in Giveaways : Host(g) \in Users => entered'[g][Host(g)] = 0,
         clicks' \subseteq ClickType, clicked' \in 0..MaxClicks,
         told' \in [Giveaways -> SUBSET Users], tangled' \subseteq Giveaways,
         EntryInv'
  PROVE  GiveawayInv'
<1>1. \A h : Host(h)' = Host(h)
  BY DEF Host
<1>2. GiveawayTypeOK'
  BY <1>1 DEF GiveawayInv, GiveawayTypeOK, drawVars, freeVars
<1>3. EngagedIsBounded'
  BY EngagedStays DEF GiveawayInv
<1>4. Solvent' /\ TickerRows'
  BY DEF GiveawayInv, Solvent, TickerRows, drawVars
<1> QED
  BY <1>2, <1>3, <1>4 DEF GiveawayInv

LEMMA ReadStep ==
  ASSUME GiveawayInv, NEW u \in Users, NEW g \in Giveaways, NEW action \in {"ENTER", "LEAVE"},
         ClickReads(u, g, action)
  PROVE  GiveawayInv'
<1> DEFINE k == [id |-> clicked + 1, user |-> u, on |-> g, action |-> action, seen |-> entered[g]]
<1>1. /\ clicked < MaxClicks /\ giveaway[g].at = "open"
      /\ IF action = "ENTER" THEN MayEnter(g, u) ELSE MayLeave(g, u)
      /\ clicks' = clicks \cup {k} /\ clicked' = clicked + 1
      /\ tangled' = IF \E l \in clicks : Spoils(k, l) THEN tangled \cup {g} ELSE tangled
      /\ UNCHANGED <<bank, gp, giveaway, entered, due, drawVars, told, failed, freeVars>>
  BY DEF ClickReads
<1>2. /\ entered \in [Giveaways -> Entries] /\ told \in [Giveaways -> SUBSET Users]
      /\ clicks \subseteq ClickType /\ clicked \in 0..MaxClicks /\ tangled \subseteq Giveaways
      /\ Host(g) \in Users /\ entered[g][Host(g)] = 0
      /\ \A h \in Giveaways : Host(h) \in Users => entered[h][Host(h)] = 0
  BY <1>1 DEF GiveawayInv, GiveawayTypeOK
<1>3. k \in ClickType
  BY <1>1, <1>2, GiveawayAssumption DEF ClickType
<1>4. k.id = clicked + 1 /\ k.user = u /\ k.on = g /\ k.action = action /\ k.seen = entered[g]
  OBVIOUS
<1>5. clicked' \in 0..MaxClicks /\ clicks' \subseteq ClickType /\ tangled' \subseteq Giveaways
  BY <1>1, <1>2, <1>3, GiveawayAssumption
<1>6. u # Host(g) /\ (action = "ENTER" => entered[g][u] = 0)
  <2>1. CASE action = "ENTER"
    BY <1>1, <2>1 DEF MayEnter
  <2>2. CASE action = "LEAVE"
    BY <1>1, <1>2, <2>2 DEF MayLeave
  <2> QED
    BY <2>1, <2>2
<1> HIDE DEF k
<1>7. \A h : Host(h)' = Host(h)
  BY <1>1 DEF Host
<1>8. EmptyUntilOpen' /\ ClicksSpareHost'
  <2>1. EmptyUntilOpen'
    BY <1>1 DEF GiveawayInv, EntryInv, EmptyUntilOpen
  <2>2. ClicksSpareHost'
    BY <1>1, <1>2, <1>4, <1>6, <1>7 DEF GiveawayInv, EntryInv, ClicksSpareHost
  <2> QED
    BY <2>1, <2>2
<1>9. EntriesAsTold'
  BY <1>1 DEF GiveawayInv, EntryInv, EntriesAsTold
<1>10. ClicksAreCurrent'
  <2>1. \A l \in clicks : l.id \in Nat /\ l.id <= clicked /\ l # k
    BY <1>2, <1>4 DEF ClickType, GiveawayInv, EntryInv, ClicksAreCurrent
  <2>2. \A l \in clicks : Spoils(k, l) <=> Spoils(l, k)
    BY DEF Spoils
  <2>3. g \notin tangled' => \A l \in clicks : ~Spoils(k, l) /\ ~Spoils(l, k)
    BY <1>1, <2>2
  <2>4. tangled \subseteq tangled'
    BY <1>1
  <2>5. ASSUME NEW l \in clicks
        PROVE  /\ l.id <= clicked'
               /\ l.on \notin tangled' =>
                    /\ l.action = "LEAVE" => l.seen = entered'[l.on]
                    /\ l.action = "ENTER" => entered'[l.on][l.user] = 0
                    /\ \A m \in clicks : m # l => ~Spoils(l, m)
    BY <1>1, <1>2, <2>1, <2>4 DEF GiveawayInv, EntryInv, ClicksAreCurrent
  <2>6. \A l \in clicks : l.on \notin tangled' => ~Spoils(l, k)
    BY <1>4, <2>3 DEF Spoils
  <2>7. /\ k.id <= clicked'
        /\ k.on \notin tangled' =>
             /\ k.action = "LEAVE" => k.seen = entered'[k.on]
             /\ k.action = "ENTER" => entered'[k.on][k.user] = 0
             /\ \A m \in clicks : ~Spoils(k, m)
    BY <1>1, <1>2, <1>4, <1>6, <2>3
  <2> QED
    BY <1>1, <2>5, <2>6, <2>7 DEF ClicksAreCurrent
<1>11. EntryInv'
  BY <1>8, <1>9, <1>10 DEF EntryInv
<1> QED
  BY <1>1, <1>2, <1>5, <1>11, ClickStep

LEMMA WriteSteps ==
  ASSUME GiveawayInv, NEW k \in clicks, EnterWrites(k) \/ LeaveWrites(k) \/ ClickFails(k)
  PROVE  GiveawayInv'
<1>1. /\ k \in ClickType /\ k.on \in Giveaways /\ k.user \in Users
      /\ entered \in [Giveaways -> Entries] /\ told \in [Giveaways -> SUBSET Users]
      /\ clicks \subseteq ClickType /\ clicked \in 0..MaxClicks /\ tangled \subseteq Giveaways
      /\ \A h \in Giveaways : Host(h) \in Users => entered[h][Host(h)] = 0
  BY DEF GiveawayInv, GiveawayTypeOK, ClickType
<1>2. /\ giveaway[k.on].at \in {"open", "completed"} /\ k.user # Host(k.on) /\ k.seen[Host(k.on)] = 0
      /\ k.seen \in Entries /\ Host(k.on) \in Users
  BY <1>1 DEF GiveawayInv, EntryInv, ClicksSpareHost, ClickType, GiveawayTypeOK
<1>3. /\ clicks' = clicks \ {k} /\ clicked' = clicked /\ tangled' = tangled
      /\ UNCHANGED <<bank, gp, giveaway, due, drawVars, failed, freeVars>>
  BY DEF EnterWrites, LeaveWrites, ClickFails, Handled
<1>4. \A h : Host(h)' = Host(h)
  BY <1>3 DEF Host
\* The write touches one row; the clicks that remain do not care.
<1>5. /\ entered' \in [Giveaways -> Entries] /\ told' \in [Giveaways -> SUBSET Users]
      /\ \A g \in Giveaways \ {k.on} : entered'[g] = entered[g] /\ told'[g] = told[g]
      /\ entered'[k.on][Host(k.on)] = 0
      /\ k.on \notin tangled =>
           /\ \A u \in Users : entered'[k.on][u] = IF u \in told'[k.on] THEN 1 ELSE 0
           /\ \A l \in clicks \ {k} : l.on = k.on =>
                /\ l.action = "ENTER"
                /\ entered[k.on][l.user] = 0 => entered'[k.on][l.user] = 0
  <2>1. k.on \notin tangled =>
          /\ \A u \in Users : entered[k.on][u] = IF u \in told[k.on] THEN 1 ELSE 0
          /\ k.action = "LEAVE" => k.seen = entered[k.on]
          /\ k.action = "ENTER" => entered[k.on][k.user] = 0
          /\ \A l \in clicks \ {k} : l.on = k.on =>
               l.action # "LEAVE" /\ k.action # "LEAVE" /\ k.user # l.user
    BY <1>1 DEF GiveawayInv, EntryInv, ClicksAreCurrent, EntriesAsTold, Spoils
  <2>2. \A l \in clicks : l.action \in {"ENTER", "LEAVE"} /\ l.user \in Users
    BY <1>1 DEF ClickType
  <2>3. CASE EnterWrites(k)
    <3>1. /\ k.action = "ENTER" /\ entered' = [entered EXCEPT ![k.on][k.user] = @ + 1]
          /\ told' = [told EXCEPT ![k.on] = @ \cup {k.user}]
      BY <2>3 DEF EnterWrites
    <3>2. entered[k.on] \in [Users -> Nat] /\ entered \in [Giveaways -> [Users -> Nat]]
      BY <1>1 DEF Entries
    <3>3. /\ entered' \in [Giveaways -> [Users -> Nat]] /\ entered'[k.on][k.user] = entered[k.on][k.user] + 1
          /\ \A u \in Users \ {k.user} : entered'[k.on][u] = entered[k.on][u]
          /\ \A g \in Giveaways \ {k.on} : entered'[g] = entered[g]
      BY <1>1, <3>1, <3>2
    <3>4. /\ told' \in [Giveaways -> SUBSET Users] /\ told'[k.on] = told[k.on] \cup {k.user}
          /\ \A g \in Giveaways \ {k.on} : told'[g] = told[g]
      BY <1>1, <3>1
    <3>5. entered'[k.on][Host(k.on)] = 0
      BY <1>1, <1>2, <3>3
    <3>6. k.on \notin tangled => \A u \in Users : entered'[k.on][u] = IF u \in told'[k.on] THEN 1 ELSE 0
      BY <1>1, <2>1, <3>1, <3>3, <3>4
    <3> QED
      BY <2>1, <2>2, <3>3, <3>4, <3>5, <3>6 DEF Entries
  <2>4. CASE LeaveWrites(k)
    <3> DEFINE rest == [u \in Users |-> IF u # k.user /\ k.seen[u] > 0 THEN 1 ELSE 0]
    <3>1. /\ k.action = "LEAVE" /\ entered' = [entered EXCEPT ![k.on] = rest]
          /\ told' = [told EXCEPT ![k.on] = @ \ {k.user}]
      BY <2>4 DEF LeaveWrites
    <3>2. rest \in Entries /\ \A u \in Users : rest[u] = IF u # k.user /\ k.seen[u] > 0 THEN 1 ELSE 0
      BY DEF Entries
    <3> HIDE DEF rest
    <3>3. /\ entered' \in [Giveaways -> Entries] /\ entered'[k.on] = rest
          /\ \A g \in Giveaways \ {k.on} : entered'[g] = entered[g]
      BY <1>1, <3>1, <3>2
    <3>4. /\ told' \in [Giveaways -> SUBSET Users] /\ told'[k.on] = told[k.on] \ {k.user}
          /\ \A g \in Giveaways \ {k.on} : told'[g] = told[g]
      BY <1>1, <3>1
    <3>5. entered'[k.on][Host(k.on)] = 0
      BY <1>2, <3>2, <3>3
    <3>6. k.on \notin tangled => \A u \in Users : entered'[k.on][u] = IF u \in told'[k.on] THEN 1 ELSE 0
      BY <2>1, <3>1, <3>2, <3>3, <3>4
    <3> QED
      BY <2>1, <3>1, <3>3, <3>4, <3>5, <3>6
  <2>5. CASE ClickFails(k)
    <3>1. entered' = entered /\ told' = told
      BY <2>5 DEF ClickFails
    <3> QED
      BY <1>1, <1>2, <2>1, <2>2, <3>1
  <2> QED
    BY <2>3, <2>4, <2>5
<1>6. EmptyUntilOpen'
  BY <1>2, <1>3, <1>5 DEF GiveawayInv, EntryInv, EmptyUntilOpen
<1>7. ClicksSpareHost'
  BY <1>3, <1>4 DEF GiveawayInv, EntryInv, ClicksSpareHost
<1>8. EntriesAsTold'
  BY <1>3, <1>5 DEF GiveawayInv, EntryInv, EntriesAsTold
<1>9. ClicksAreCurrent'
  <2>1. ASSUME NEW l \in clicks \ {k}
        PROVE  /\ l.id <= clicked'
               /\ l.on \notin tangled' =>
                    /\ l.action = "LEAVE" => l.seen = entered'[l.on]
                    /\ l.action = "ENTER" => entered'[l.on][l.user] = 0
                    /\ \A m \in clicks' : m # l => ~Spoils(l, m)
    <3>1. l.on \in Giveaways /\ l.user \in Users
      BY <1>1 DEF ClickType
    <3>2. /\ l.id <= clicked
          /\ l.on \notin tangled =>
               /\ l.action = "LEAVE" => l.seen = entered[l.on]
               /\ l.action = "ENTER" => entered[l.on][l.user] = 0
               /\ \A m \in clicks : m # l => ~Spoils(l, m)
      BY DEF GiveawayInv, EntryInv, ClicksAreCurrent
    <3>3. l.on \notin tangled => \A m \in clicks' : m # l => ~Spoils(l, m)
      BY <1>3, <3>2
    <3>4. CASE l.on = k.on
      BY <1>3, <1>5, <3>2, <3>3, <3>4
    <3>5. CASE l.on # k.on
      BY <1>3, <1>5, <3>1, <3>2, <3>3, <3>5
    <3> QED
      BY <3>4, <3>5
  <2> QED
    BY <1>3, <2>1 DEF ClicksAreCurrent
<1>10. EntryInv'
  BY <1>6, <1>7, <1>8, <1>9 DEF EntryInv
<1>11. \A g \in Giveaways : Host(g) \in Users => entered'[g][Host(g)] = 0
  BY <1>1, <1>5
<1> QED
  BY <1>1, <1>3, <1>5, <1>10, <1>11, ClickStep

(* A user is freed while he is busy.                                       *)
LEMMA FreesStep ==
  ASSUME GiveawayInv, NEW u \in Users, Frees(u)
  PROVE  GiveawayInv'
<1>1. /\ freed \in [Users -> Nat] /\ peak \in [Users -> Nat]
      /\ freed' = [freed EXCEPT ![u] = @ + 1]
      /\ peak' = [peak EXCEPT ![u] = IF freed[u] < @ THEN @ ELSE freed[u] + 1]
      /\ UNCHANGED <<bank, gp, giveaway, entered, due, clickVars, drawVars, failed>>
  BY DEF Frees, GiveawayInv, GiveawayTypeOK
<1>2. freed' \in [Users -> Nat] /\ peak' \in [Users -> Nat]
  BY <1>1
<1>3. ASSUME NEW v \in Users
      PROVE  freed'[v] <= peak'[v] /\ peak[v] <= peak'[v]
  <2>1. freed[v] <= peak[v] /\ freed[v] \in Nat /\ peak[v] \in Nat
    BY <1>1 DEF GiveawayInv, EngagedIsBounded
  <2>2. CASE v = u
    BY <1>1, <2>1, <2>2
  <2>3. CASE v # u
    BY <1>1, <2>1, <2>3
  <2> QED
    BY <2>2, <2>3
<1>4. \A v \in Users : Engaged(v)' \subseteq Engaged(v)
  BY <1>1 DEF Engaged, Active, Starting, Host
<1>5. EngagedIsBounded'
  BY <1>1, <1>2, <1>3, <1>4, EngagedShrinks DEF GiveawayInv
<1>6. \A h : Host(h)' = Host(h)
  BY <1>1 DEF Host
<1>7. GiveawayTypeOK'
  BY <1>1, <1>2, <1>6 DEF GiveawayInv, GiveawayTypeOK, clickVars, drawVars
<1>8. Solvent' /\ TickerRows'
  BY <1>1 DEF GiveawayInv, Solvent, TickerRows, drawVars
<1>9. EntryInv'
  BY <1>1, <1>6, EntriesStay DEF GiveawayInv
<1> QED
  BY <1>5, <1>7, <1>8, <1>9 DEF GiveawayInv

-----------------------------------------------------------------------------
LEMMA GiveawayInvStep == GiveawayInv /\ [GiveawayNext]_giveVars => GiveawayInv'
<1> SUFFICES ASSUME GiveawayInv, [GiveawayNext]_giveVars
             PROVE  GiveawayInv'
  OBVIOUS
<1>1. ASSUME NEW g \in Giveaways, NEW u \in Users, NEW p \in Loots, Starts(g, u, p)
      PROVE  GiveawayInv'
  BY <1>1, StartsStep
<1>2. ASSUME NEW g \in Giveaways,
             Agrees(g) \/ Abandons(g) \/ TakesLoot(g) \/ CreatesGiveaway(g) \/ CreateFails(g)
      PROVE  GiveawayInv'
  BY <1>2, CommandSteps
<1>3. ASSUME NEW g \in Giveaways, Marks(g) \/ MarkFails(g) \/ Settles(g)
      PROVE  GiveawayInv'
  BY <1>3, TickerSteps
<1>4. ASSUME NEW g \in Giveaways, NEW u \in Users, NEW action \in {"ENTER", "LEAVE"},
             ClickReads(u, g, action)
      PROVE  GiveawayInv'
  BY <1>4, ReadStep
<1>5. ASSUME NEW k \in clicks, EnterWrites(k) \/ LeaveWrites(k) \/ ClickFails(k)
      PROVE  GiveawayInv'
  BY <1>5, WriteSteps
<1>6. CASE TickFinds \/ \E g \in Giveaways : TimePasses(g)
  BY <1>6, QueryAndClockSteps
<1>7. CASE GiveawaysDie
  BY <1>7, DeathStep
<1>8. CASE UNCHANGED giveVars
  <2>1. UNCHANGED <<bank, gp, giveaway, entered, due, clickVars, drawVars, failed, freeVars>>
    BY <1>8 DEF giveVars
  <2>2. Solvent' /\ TickerRows'
    BY <2>1 DEF GiveawayInv, Solvent, TickerRows, drawVars
  <2>3. found' \subseteq Giveaways /\ drawing' \subseteq Giveaways \ found' /\ drawing' \subseteq drawing
        /\ drawn' = drawn /\ failed' \in BOOLEAN /\ due' \subseteq Giveaways
        /\ \A g \in found' : giveaway[g].at = "open"
    BY <2>1 DEF GiveawayInv, GiveawayTypeOK, TickerRows, drawVars
  <2> QED
    BY <2>1, <2>2, <2>3, OtherStep
<1>9. ASSUME NEW u \in Users, Frees(u)
      PROVE  GiveawayInv'
  BY <1>9, FreesStep
<1> QED
  BY <1>1, <1>2, <1>3, <1>4, <1>5, <1>6, <1>7, <1>8, <1>9 DEF GiveawayNext

LEMMA GiveawayInvAlways == GiveawaySafety => []GiveawayInv
BY GiveawayInvInit, GiveawayInvStep, PTL DEF GiveawaySafety

-----------------------------------------------------------------------------
(* The state of the giveaways stays well typed; above all, no host is      *)
(* among the entrants of his own giveaway.                                 *)
THEOREM GiveawayTypeCorrect == GiveawaySafety => []GiveawayTypeOK
<1>1. GiveawayInv => GiveawayTypeOK
  BY DEF GiveawayInv
<1> QED
  BY <1>1, GiveawayInvAlways, PTL

(* Nobody ever has more than MaxActive giveaways open (giveaway.ts:88-96), *)
(* but for one for each time he was freed while busy                       *)
(* (settings.ts:173-183).                                                  *)
THEOREM ActiveIsBoundedCorrect == GiveawaySafety => []ActiveIsBounded
<1>1. GiveawayInv => ActiveIsBounded
  <2> SUFFICES ASSUME GiveawayInv, NEW u \in Users
               PROVE  Cardinality(Active(u)) <= MaxActive + peak[u]
    BY DEF ActiveIsBounded
  <2>1. Active(u) \subseteq Engaged(u) /\ Engaged(u) \subseteq Giveaways
    BY DEF Engaged, Active, Starting
  <2>2. IsFiniteSet(Engaged(u))
    BY <2>1, FS_Subset, GiveawayAssumption
  <2>3. IsFiniteSet(Active(u)) /\ Cardinality(Active(u)) <= Cardinality(Engaged(u))
    BY <2>1, <2>2, FS_Subset
  <2>4. Cardinality(Active(u)) \in Nat /\ Cardinality(Engaged(u)) \in Nat
    BY <2>2, <2>3, FS_CardinalityType
  <2>5. peak[u] \in Nat /\ Cardinality(Engaged(u)) <= MaxActive + peak[u]
    BY DEF GiveawayInv, GiveawayTypeOK, EngagedIsBounded
  <2> QED
    BY <2>3, <2>4, <2>5, GiveawayAssumption
<1> QED
  BY <1>1, GiveawayInvAlways, PTL

(* The array of a row names those who were told that they are entered,     *)
(* once each, unless clicks got tangled (globalInteractions.ts:181-216).   *)
THEOREM EntriesAsToldCorrect == GiveawaySafety => []EntriesAsTold
<1>1. GiveawayInv => EntriesAsTold
  BY DEF GiveawayInv, EntryInv
<1> QED
  BY <1>1, GiveawayInvAlways, PTL

(* No giveaway, and no way it can fail, leaves anybody with a negative     *)
(* amount (transactItemsFromBank.ts:44-118).                               *)
THEOREM GiveawaysKeepSolvent == GiveawaySafety => []Solvent
<1>1. GiveawayInv => Solvent
  BY DEF GiveawayInv
<1> QED
  BY <1>1, GiveawayInvAlways, PTL

-----------------------------------------------------------------------------
(* Goods are kept: what the banks and the giveaways hold together never    *)
(* grows, and shrinks only in a failure.                                   *)
LootOf(i) == [g \in Giveaways |-> giveaway[g].loot.items[i]]

OwnedOf(i) == [u \in Users |-> bank[u][i]]

GoodsInv == GiveawayInv /\ GoodsAreKept

LEMMA GoodsTyped ==
  ASSUME GiveawayInv, NEW i \in Items
  PROVE  /\ InTransit \subseteq Giveaways /\ IsFiniteSet(InTransit)
         /\ \A g \in Giveaways : LootOf(i)[g] = giveaway[g].loot.items[i] /\ LootOf(i)[g] \in Nat
         /\ \A u \in Users : OwnedOf(i)[u] = bank[u][i] /\ OwnedOf(i)[u] \in Int
         /\ OnTheWay(i) = SumFunctionOnSet(LootOf(i), InTransit) /\ OnTheWay(i) \in Int
         /\ InBanks(bank, i) = SumFunctionOnSet(OwnedOf(i), Users) /\ InBanks(bank, i) \in Int
         /\ InBanks(InitialBank, i) \in Int
<1>1. InTransit \subseteq Giveaways /\ IsFiniteSet(InTransit)
  <2>1. InTransit \subseteq Giveaways
    BY DEF InTransit
  <2> QED
    BY <2>1, FS_Subset, GiveawayAssumption
<1>2. ASSUME NEW g \in Giveaways
      PROVE  LootOf(i)[g] = giveaway[g].loot.items[i] /\ LootOf(i)[g] \in Nat
  <2>1. giveaway[g].loot \in Loots \cup {NoLoot}
    BY DEF GiveawayInv, GiveawayTypeOK, Slots
  <2>2. giveaway[g].loot \in Purses
    BY <2>1, GiveawayAssumption DEF NoLoot, Purses, NoItems, Banks
  <2> QED
    BY <2>2 DEF LootOf, Purses, Banks
<1>3. \A u \in Users : OwnedOf(i)[u] = bank[u][i] /\ OwnedOf(i)[u] \in Int
  BY DEF OwnedOf, GiveawayInv, GiveawayTypeOK
<1>4. OnTheWay(i) = SumFunctionOnSet(LootOf(i), InTransit)
  BY DEF OnTheWay, LootOf
<1>5. SumFunctionOnSet(LootOf(i), InTransit) \in Int
  BY <1>1, <1>2, SumTyped
<1>6. InBanks(bank, i) = SumFunctionOnSet(OwnedOf(i), Users)
  BY DEF InBanks, OwnedOf
<1>7. SumFunctionOnSet(OwnedOf(i), Users) \in Int
  BY <1>3, SumTyped, GiveawayAssumption
<1>8. InBanks(InitialBank, i) \in Int
  <2> DEFINE start == [u \in Users |-> InitialBank[u][i]]
  <2>1. \A u \in Users : start[u] \in Int
    BY GiveawayAssumption DEF Banks
  <2> HIDE DEF start
  <2>2. SumFunctionOnSet(start, Users) \in Int
    BY <2>1, SumTyped, GiveawayAssumption
  <2> QED
    BY <2>2 DEF InBanks, start
<1> QED
  BY <1>1, <1>2, <1>3, <1>4, <1>5, <1>6, <1>7, <1>8

(* What a step has to show.                                                *)
LEMMA GoodsBalance ==
  ASSUME GoodsInv, GiveawayInv', failed => failed',
         \A i \in Items :
           LET now == InBanks(bank, i) + OnTheWay(i)
               next == InBanks(bank, i)' + OnTheWay(i)'
           IN  next <= now /\ (~failed' => next = now)
  PROVE  GoodsInv'
<1>1. ASSUME NEW i \in Items
      PROVE  IF failed' THEN InBanks(bank, i)' + OnTheWay(i)' <= InBanks(InitialBank, i)
                        ELSE InBanks(bank, i)' + OnTheWay(i)' = InBanks(InitialBank, i)
  <2>1. /\ InBanks(bank, i) \in Int /\ OnTheWay(i) \in Int /\ InBanks(InitialBank, i) \in Int
    BY GoodsTyped DEF GoodsInv
  <2>2. InBanks(bank, i)' \in Int /\ OnTheWay(i)' \in Int
    <3> DEFINE own == [u \in Users |-> bank'[u][i]]
               loot == [g \in Giveaways |-> giveaway'[g].loot.items[i]]
    <3>1. \A u \in Users : own[u] \in Int
      BY DEF GiveawayInv, GiveawayTypeOK
    <3>2. ASSUME NEW g \in Giveaways
          PROVE  loot[g] \in Int
      <4>1. giveaway'[g].loot \in Loots \cup {NoLoot}
        BY DEF GiveawayInv, GiveawayTypeOK, Slots
      <4>2. giveaway'[g].loot \in Purses
        BY <4>1, GiveawayAssumption DEF NoLoot, Purses, NoItems, Banks
      <4> QED
        BY <4>2 DEF Purses, Banks
    <3>3. InTransit' \subseteq Giveaways
      BY DEF InTransit
    <3>4. IsFiniteSet(InTransit')
      BY <3>3, FS_Subset, GiveawayAssumption
    <3> HIDE DEF own, loot
    <3>5. SumFunctionOnSet(own, Users) \in Int /\ SumFunctionOnSet(loot, InTransit') \in Int
      BY <3>1, <3>2, <3>3, <3>4, SumTyped, GiveawayAssumption
    <3> QED
      BY <3>5 DEF InBanks, OnTheWay, own, loot
  <2>3. /\ InBanks(bank, i)' + OnTheWay(i)' <= InBanks(bank, i) + OnTheWay(i)
        /\ ~failed' => InBanks(bank, i)' + OnTheWay(i)' = InBanks(bank, i) + OnTheWay(i)
    OBVIOUS
  <2>4. IF failed THEN InBanks(bank, i) + OnTheWay(i) <= InBanks(InitialBank, i)
                  ELSE InBanks(bank, i) + OnTheWay(i) = InBanks(InitialBank, i)
    BY DEF GoodsInv, GoodsAreKept
  <2> QED
    BY <2>1, <2>2, <2>3, <2>4
<1>2. GoodsAreKept'
  BY <1>1 DEF GoodsAreKept, InBanks
<1> QED
  BY <1>2 DEF GoodsInv

(* Goods that leave the giveaways for no bank are lost in a failure.       *)
LEMMA GoodsStay ==
  ASSUME GoodsInv, GiveawayInv', bank' = bank, failed => failed', InTransit' \subseteq InTransit,
         ~failed' => InTransit' = InTransit,
         \A g \in InTransit' : giveaway'[g].loot = giveaway[g].loot
  PROVE  GoodsInv'
<1>1. GiveawayInv
  BY DEF GoodsInv
<1>2. ASSUME NEW i \in Items
      PROVE  /\ InBanks(bank, i)' + OnTheWay(i)' <= InBanks(bank, i) + OnTheWay(i)
             /\ ~failed' => InBanks(bank, i)' + OnTheWay(i)' = InBanks(bank, i) + OnTheWay(i)
  <2> DEFINE next == [g \in Giveaways |-> giveaway'[g].loot.items[i]]
  <2>1. /\ InTransit \subseteq Giveaways /\ IsFiniteSet(InTransit)
        /\ \A g \in Giveaways : LootOf(i)[g] = giveaway[g].loot.items[i] /\ LootOf(i)[g] \in Nat
        /\ OnTheWay(i) = SumFunctionOnSet(LootOf(i), InTransit) /\ OnTheWay(i) \in Int
        /\ InBanks(bank, i) \in Int
    BY <1>1, GoodsTyped
  <2>2. InTransit' \in SUBSET InTransit /\ IsFiniteSet(InTransit')
    BY <2>1, FS_Subset
  <2>3. \A g \in InTransit' : LootOf(i)[g] \in Int /\ next[g] = LootOf(i)[g]
    BY <2>1, <2>2
  <2>4. OnTheWay(i)' = SumFunctionOnSet(next, InTransit')
    BY DEF OnTheWay
  <2> HIDE DEF next
  <2>5. OnTheWay(i)' = SumFunctionOnSet(LootOf(i), InTransit')
    BY <2>2, <2>3, <2>4, SumSame
  <2>6. SumFunctionOnSet(LootOf(i), InTransit') <= SumFunctionOnSet(LootOf(i), InTransit)
    BY <2>1, <2>2, SumOfFewer
  <2>7. SumFunctionOnSet(LootOf(i), InTransit') \in Int
    BY <2>2, <2>3, SumTyped
  <2>8. InBanks(bank, i)' = InBanks(bank, i)
    BY DEF InBanks
  <2>9. ~failed' => OnTheWay(i)' = OnTheWay(i)
    BY <2>1, <2>5
  <2> QED
    BY <2>1, <2>5, <2>6, <2>7, <2>8, <2>9
<1> QED
  BY <1>1, <1>2, GoodsBalance

(* One user's bank changes.                                                *)
LEMMA BankChanges ==
  ASSUME GiveawayInv, GiveawayInv', NEW i \in Items, NEW u \in Users, NEW n \in Int,
         bank'[u][i] = bank[u][i] + n, \A v \in Users \ {u} : bank'[v] = bank[v]
  PROVE  InBanks(bank, i)' = InBanks(bank, i) + n
<1> DEFINE own == [v \in Users |-> bank'[v][i]]
<1>1. \A v \in Users : OwnedOf(i)[v] = bank[v][i] /\ OwnedOf(i)[v] \in Int
  BY GoodsTyped
<1>2. \A v \in Users : own[v] = bank'[v][i] /\ own[v] \in Int
  BY DEF GiveawayInv, GiveawayTypeOK
<1>3. InBanks(bank, i) = SumFunctionOnSet(OwnedOf(i), Users) /\ InBanks(bank, i) \in Int
  BY GoodsTyped
<1>4. InBanks(bank, i)' = SumFunctionOnSet(own, Users)
  BY DEF InBanks
<1> HIDE DEF own
<1>5. \A v \in Users \ {u} : own[v] = OwnedOf(i)[v]
  BY <1>1, <1>2
<1>6. SumFunctionOnSet(own, Users) = SumFunctionOnSet(OwnedOf(i), Users) + (own[u] - OwnedOf(i)[u])
  BY <1>1, <1>2, <1>5, SumChanges, GiveawayAssumption
<1>7. own[u] - OwnedOf(i)[u] = n
  BY <1>1, <1>2
<1> QED
  BY <1>3, <1>4, <1>6, <1>7

(* Loot comes out of a bank and goes into one as it is: clue scrolls,      *)
(* which would be deduplicated, are not given away.                        *)
LEMMA LootMoves ==
  ASSUME GiveawayInv, NEW u \in Users, NEW p \in Loots, NEW i \in Items
  PROVE  /\ p.items[i] \in Nat
         /\ Transaction(Out(u, p)) =>
              bank'[u][i] = bank[u][i] + (0 - p.items[i]) /\ \A v \in Users \ {u} : bank'[v] = bank[v]
         /\ Transaction(In(u, p)) =>
              bank'[u][i] = bank[u][i] + p.items[i] /\ \A v \in Users \ {u} : bank'[v] = bank[v]
<1>1. p.items \in Banks /\ p.items[i] \in Nat /\ (i \in Clues => p.items[i] = 0)
  BY GiveawayAssumption DEF Purses, Banks
<1>2. bank \in [Users -> [Items -> Int]] /\ bank[u][i] \in Int
  BY DEF GiveawayInv, GiveawayTypeOK
<1>3. NoItems[i] = 0
  BY DEF NoItems
<1>4. ASSUME Transaction(Out(u, p))
      PROVE  bank'[u][i] = bank[u][i] + (0 - p.items[i]) /\ \A v \in Users \ {u} : bank'[v] = bank[v]
  <2>1. bank' = [bank EXCEPT ![u] = BankAfter(bank[u], Out(u, p))]
    BY <1>4 DEF Transaction, Out
  <2>2. Gains(bank[u], Out(u, p))[i] = 0
    BY <1>3 DEF Gains, Out
  <2>3. BankAfter(bank[u], Out(u, p))[i] = bank[u][i] + Gains(bank[u], Out(u, p))[i] - p.items[i]
    BY DEF BankAfter, Out
  <2> QED
    BY <1>1, <1>2, <2>1, <2>2, <2>3
<1>5. ASSUME Transaction(In(u, p))
      PROVE  bank'[u][i] = bank[u][i] + p.items[i] /\ \A v \in Users \ {u} : bank'[v] = bank[v]
  <2>1. bank' = [bank EXCEPT ![u] = BankAfter(bank[u], In(u, p))]
    BY <1>5 DEF Transaction, In
  <2>2. Gains(bank[u], In(u, p))[i] = p.items[i]
    BY <1>1 DEF Gains, In
  <2>3. BankAfter(bank[u], In(u, p))[i] = bank[u][i] + Gains(bank[u], In(u, p))[i] - NoItems[i]
    BY DEF BankAfter, In
  <2> QED
    BY <1>1, <1>2, <1>3, <2>1, <2>2, <2>3
<1> QED
  BY <1>1, <1>4, <1>5

(* The set of giveaways with goods on their way gains or loses one.        *)
LEMMA TransitChanges ==
  ASSUME GiveawayInv, NEW i \in Items, NEW g \in Giveaways,
         \A h \in Giveaways : giveaway'[h].loot = giveaway[h].loot
  PROVE  /\ g \notin InTransit /\ InTransit' = InTransit \cup {g} =>
              OnTheWay(i)' = OnTheWay(i) + giveaway[g].loot.items[i]
         /\ g \in InTransit /\ InTransit' = InTransit \ {g} =>
              OnTheWay(i)' = OnTheWay(i) - giveaway[g].loot.items[i]
<1>1. /\ InTransit \subseteq Giveaways /\ IsFiniteSet(InTransit)
      /\ \A h \in Giveaways : LootOf(i)[h] = giveaway[h].loot.items[i] /\ LootOf(i)[h] \in Nat
      /\ OnTheWay(i) = SumFunctionOnSet(LootOf(i), InTransit) /\ OnTheWay(i) \in Int
  BY GoodsTyped
<1>2. OnTheWay(i)' = SumFunctionOnSet(LootOf(i), InTransit')
  <2>1. [h \in Giveaways |-> giveaway'[h].loot.items[i]] = LootOf(i)
    BY DEF LootOf
  <2> QED
    BY <2>1 DEF OnTheWay
<1>3. ASSUME g \notin InTransit, InTransit' = InTransit \cup {g}
      PROVE  OnTheWay(i)' = OnTheWay(i) + giveaway[g].loot.items[i]
  <2>1. \A h \in InTransit \cup {g} : LootOf(i)[h] \in Int
    BY <1>1
  <2>2. SumFunctionOnSet(LootOf(i), InTransit \cup {g}) = SumFunctionOnSet(LootOf(i), InTransit) + LootOf(i)[g]
    BY <1>1, <1>3, <2>1, SumWith
  <2> QED
    BY <1>1, <1>2, <1>3, <2>2
<1>4. ASSUME g \in InTransit, InTransit' = InTransit \ {g}
      PROVE  OnTheWay(i)' = OnTheWay(i) - giveaway[g].loot.items[i]
  <2>1. \A h \in InTransit : LootOf(i)[h] \in Int
    BY <1>1
  <2>2. SumFunctionOnSet(LootOf(i), InTransit) = LootOf(i)[g] + SumFunctionOnSet(LootOf(i), InTransit \ {g})
    BY <1>1, <1>4, <2>1, SumAt
  <2>3. IsFiniteSet(InTransit \ {g})
    BY <1>1, FS_Subset
  <2>4. SumFunctionOnSet(LootOf(i), InTransit \ {g}) \in Int
    BY <2>1, <2>3, SumTyped
  <2> QED
    BY <1>1, <1>2, <1>4, <2>2, <2>4
<1> QED
  BY <1>3, <1>4

LEMMA GoodsInvInit == GiveawayInit => GoodsInv
<1> SUFFICES ASSUME GiveawayInit
             PROVE  GoodsInv
  OBVIOUS
<1>1. GiveawayInv
  BY GiveawayInvInit
<1>2. bank = InitialBank /\ drawing = {} /\ \A g \in Giveaways : giveaway[g].at = "unused"
  BY DEF GiveawayInit, UnusedSlot
<1>3. InTransit = {}
  BY <1>2 DEF InTransit
<1>4. ASSUME NEW i \in Items
      PROVE  InBanks(bank, i) + OnTheWay(i) = InBanks(InitialBank, i)
  <2>1. OnTheWay(i) = 0
    BY <1>3, SumOfNothing DEF OnTheWay
  <2>2. InBanks(InitialBank, i) \in Int
    BY <1>1, GoodsTyped
  <2> QED
    BY <1>2, <2>1, <2>2
<1>5. failed = FALSE
  BY DEF GiveawayInit
<1> QED
  BY <1>1, <1>4, <1>5 DEF GoodsInv, GoodsAreKept

(* The slot that starts holds no goods yet.                                *)
LEMMA StartsKeepsGoods ==
  ASSUME GoodsInv, GiveawayInv', NEW g \in Giveaways, NEW u \in Users, NEW p \in Loots, Starts(g, u, p)
  PROVE  GoodsInv'
<1>1. /\ giveaway \in [Giveaways -> Slots] /\ giveaway[g].at = "unused"
      /\ giveaway' = [giveaway EXCEPT ![g] = [at |-> "asked", host |-> u, loot |-> p]]
      /\ UNCHANGED <<bank, drawing, failed>>
  BY DEF Starts, GoodsInv, GiveawayInv, GiveawayTypeOK, drawVars
<1>2. /\ giveaway'[g].at = "asked"
      /\ \A h \in Giveaways \ {g} : giveaway'[h] = giveaway[h]
  BY <1>1
<1>3. g \notin drawing
  BY <1>1 DEF GoodsInv, GiveawayInv, TickerRows
<1>4. InTransit' = InTransit /\ g \notin InTransit
  BY <1>1, <1>2, <1>3 DEF InTransit
<1>5. \A h \in InTransit' : giveaway'[h].loot = giveaway[h].loot
  BY <1>2, <1>4 DEF InTransit
<1> QED
  BY <1>1, <1>4, <1>5, GoodsStay

(* The command, once its slot is in use.                                   *)
LEMMA CommandKeepsGoods ==
  ASSUME GoodsInv, GiveawayInv', NEW g \in Giveaways,
         Agrees(g) \/ Abandons(g) \/ CreatesGiveaway(g) \/ CreateFails(g)
  PROVE  GoodsInv'
<1>1. /\ giveaway[g].at \in {"asked", "ready", "taken"} /\ g \notin drawing
      /\ UNCHANGED <<bank, drawing>> /\ GiveawayTypeOK
  BY DEF Agrees, Abandons, CreatesGiveaway, CreateFails, GoodsInv, GiveawayInv, TickerRows, drawVars
<1>2. ASSUME NEW phase \in GiveawayPhases \ {"unused"}, Moves(g, phase)
      PROVE  /\ \A h \in Giveaways : giveaway'[h].loot = giveaway[h].loot
             /\ \A h \in Giveaways \ {g} : giveaway'[h].at = giveaway[h].at
             /\ giveaway'[g].at = phase
  BY <1>1, <1>2, MovesTyped
<1>3. {"ready", "abandoned", "open"} \subseteq GiveawayPhases \ {"unused"}
  BY DEF GiveawayPhases
<1>4. CASE Agrees(g) \/ Abandons(g)
  <2>1. PICK phase \in {"ready", "abandoned"} : Moves(g, phase)
    BY <1>4 DEF Agrees, Abandons
  <2>2. giveaway[g].at \in {"asked", "ready"} /\ failed' = failed
    BY <1>4 DEF Agrees, Abandons
  <2>3. InTransit' = InTransit
    BY <1>1, <1>2, <1>3, <2>1, <2>2 DEF InTransit
  <2>4. \A h \in InTransit' : giveaway'[h].loot = giveaway[h].loot
    BY <1>2, <1>3, <2>1 DEF InTransit
  <2> QED
    BY <1>1, <2>2, <2>3, <2>4, GoodsStay
<1>5. CASE CreatesGiveaway(g)
  <2>1. Moves(g, "open") /\ giveaway[g].at = "taken" /\ failed' = failed
    BY <1>5 DEF CreatesGiveaway
  <2>2. InTransit' = InTransit
    BY <1>1, <1>2, <1>3, <2>1 DEF InTransit
  <2>3. \A h \in InTransit' : giveaway'[h].loot = giveaway[h].loot
    BY <1>2, <1>3, <2>1 DEF InTransit
  <2> QED
    BY <1>1, <2>1, <2>2, <2>3, GoodsStay
<1>6. CASE CreateFails(g)
  <2>1. Moves(g, "abandoned") /\ giveaway[g].at = "taken" /\ failed' = TRUE
    BY <1>6 DEF CreateFails
  <2>2. InTransit' \subseteq InTransit
    BY <1>1, <1>2, <1>3, <2>1 DEF InTransit
  <2>3. \A h \in InTransit' : giveaway'[h].loot = giveaway[h].loot
    BY <1>2, <1>3, <2>1 DEF InTransit
  <2> QED
    BY <1>1, <2>1, <2>2, <2>3, GoodsStay
<1> QED
  BY <1>4, <1>5, <1>6

(* The loot leaves the bank of the host and is on its way.                 *)
LEMMA TakingKeepsGoods ==
  ASSUME GoodsInv, GiveawayInv', NEW g \in Giveaways, TakesLoot(g)
  PROVE  GoodsInv'
<1>1. /\ giveaway[g].at = "ready" /\ Transaction(Out(Host(g), giveaway[g].loot)) /\ Moves(g, "taken")
      /\ UNCHANGED <<drawing, failed>> /\ GiveawayInv /\ GiveawayTypeOK
  BY DEF TakesLoot, GoodsInv, GiveawayInv, drawVars
<1>2. g \notin drawing /\ Host(g) \in Users /\ giveaway[g].loot \in Loots
  BY <1>1 DEF GiveawayInv, GiveawayTypeOK, TickerRows
<1>3. "taken" \in GiveawayPhases \ {"unused"}
  BY DEF GiveawayPhases
<1>4. /\ \A h \in Giveaways : giveaway'[h].loot = giveaway[h].loot
      /\ \A h \in Giveaways \ {g} : giveaway'[h].at = giveaway[h].at
      /\ giveaway'[g].at = "taken"
  BY <1>1, <1>3, MovesTyped
<1>5. g \notin InTransit /\ InTransit' = InTransit \cup {g}
  BY <1>1, <1>2, <1>4 DEF InTransit
<1>6. PICK u \in Users, p \in Loots : u = Host(g) /\ p = giveaway[g].loot
  BY <1>2
<1>7. ASSUME NEW i \in Items
      PROVE  InBanks(bank, i)' + OnTheWay(i)' = InBanks(bank, i) + OnTheWay(i)
  <2>1. /\ p.items[i] \in Nat /\ bank'[u][i] = bank[u][i] + (0 - p.items[i])
        /\ \A v \in Users \ {u} : bank'[v] = bank[v]
    BY <1>1, <1>6, LootMoves
  <2>2. 0 - p.items[i] \in Int
    BY <2>1
  <2>3. InBanks(bank, i)' = InBanks(bank, i) + (0 - p.items[i])
    BY <1>1, <2>1, <2>2, BankChanges
  <2>4. OnTheWay(i)' = OnTheWay(i) + p.items[i]
    BY <1>1, <1>4, <1>5, <1>6, TransitChanges
  <2>5. InBanks(bank, i) \in Int /\ OnTheWay(i) \in Int
    BY <1>1, GoodsTyped
  <2> QED
    BY <2>1, <2>3, <2>4, <2>5
<1>8. ASSUME NEW i \in Items
      PROVE  InBanks(bank, i)' + OnTheWay(i)' <= InBanks(bank, i) + OnTheWay(i)
  <2>1. InBanks(bank, i) \in Int /\ OnTheWay(i) \in Int
    BY <1>1, GoodsTyped
  <2>2. InBanks(bank, i) + OnTheWay(i) \in Int
    BY <2>1
  <2> QED
    BY <1>7, <2>2
<1> QED
  BY <1>1, <1>7, <1>8, GoodsBalance

(* The loot goes to a user, winner or host.                                *)
LEMMA GivingKeepsGoods ==
  ASSUME GoodsInv, GiveawayInv', NEW g \in drawing, NEW u \in Users,
         Transaction(In(u, giveaway[g].loot)), Settled(g), UNCHANGED <<giveaway, failed>>
  PROVE  GoodsInv'
<1>1. GiveawayInv /\ g \in Giveaways /\ giveaway[g].at = "completed" /\ drawing' = drawing \ {g}
  BY DEF GoodsInv, GiveawayInv, GiveawayTypeOK, TickerRows, Settled
<1>2. giveaway[g].loot \in Loots
  BY <1>1 DEF GiveawayInv, GiveawayTypeOK
<1>3. g \in InTransit /\ InTransit' = InTransit \ {g}
  BY <1>1 DEF InTransit
<1>4. PICK p \in Loots : p = giveaway[g].loot
  BY <1>2
<1>5. ASSUME NEW i \in Items
      PROVE  /\ InBanks(bank, i) \in Int /\ OnTheWay(i) \in Int
             /\ InBanks(bank, i)' + OnTheWay(i)' = InBanks(bank, i) + OnTheWay(i)
  <2>1. /\ p.items[i] \in Nat /\ bank'[u][i] = bank[u][i] + p.items[i]
        /\ \A v \in Users \ {u} : bank'[v] = bank[v]
    BY <1>1, <1>4, LootMoves
  <2>2. p.items[i] \in Int
    BY <2>1
  <2>3. InBanks(bank, i)' = InBanks(bank, i) + p.items[i]
    BY <1>1, <2>1, <2>2, BankChanges
  <2>4. OnTheWay(i)' = OnTheWay(i) - p.items[i]
    BY <1>1, <1>3, <1>4, TransitChanges
  <2>5. InBanks(bank, i) \in Int /\ OnTheWay(i) \in Int
    BY <1>1, GoodsTyped
  <2> QED
    BY <2>1, <2>3, <2>4, <2>5
<1>6. ASSUME NEW i \in Items
      PROVE  InBanks(bank, i)' + OnTheWay(i)' <= InBanks(bank, i) + OnTheWay(i)
  <2>1. InBanks(bank, i) + OnTheWay(i) \in Int
    BY <1>5
  <2> QED
    BY <1>5, <2>1
<1> QED
  BY <1>5, <1>6, GoodsBalance

LEMMA TickerKeepsGoods ==
  ASSUME GoodsInv, GiveawayInv', NEW g \in Giveaways, Marks(g) \/ MarkFails(g) \/ Settles(g)
  PROVE  GoodsInv'
<1>0. GiveawayInv /\ GiveawayTypeOK
  BY DEF GoodsInv, GiveawayInv
<1>1. CASE Marks(g)
  <2>1. /\ giveaway[g].at = "open" /\ Moves(g, "completed") /\ drawing' = drawing \cup {g}
        /\ UNCHANGED <<bank, failed>>
    BY <1>0, <1>1 DEF Marks, GiveawayInv, TickerRows
  <2>2. "completed" \in GiveawayPhases \ {"unused"}
    BY DEF GiveawayPhases
  <2>3. /\ \A h \in Giveaways : giveaway'[h].loot = giveaway[h].loot
        /\ \A h \in Giveaways \ {g} : giveaway'[h].at = giveaway[h].at
    BY <1>0, <2>1, <2>2, MovesTyped
  <2>4. InTransit' = InTransit
    BY <2>1, <2>3 DEF InTransit
  <2>5. \A h \in InTransit' : giveaway'[h].loot = giveaway[h].loot
    BY <2>3 DEF InTransit
  <2> QED
    BY <2>1, <2>4, <2>5, GoodsStay
<1>2. CASE MarkFails(g)
  <2>1. UNCHANGED <<bank, giveaway, drawing, failed>>
    BY <1>2 DEF MarkFails
  <2>2. InTransit' = InTransit
    BY <2>1 DEF InTransit
  <2> QED
    BY <2>1, <2>2, GoodsStay
<1>3. ASSUME NEW u \in Users, Wins(g, u)
      PROVE  GoodsInv'
  BY <1>3, GivingKeepsGoods DEF Wins
<1>4. CASE Refunds(g)
  <2>1. Host(g) \in Users
    BY <1>0, <1>4 DEF Refunds, GiveawayInv, GiveawayTypeOK, TickerRows
  <2> QED
    BY <1>4, <2>1, GivingKeepsGoods DEF Refunds
<1>5. CASE PayFails(g)
  <2>1. UNCHANGED <<bank, giveaway>> /\ drawing' \subseteq drawing /\ failed' = TRUE
    BY <1>5 DEF PayFails, Settled
  <2>2. InTransit' \subseteq InTransit
    BY <2>1 DEF InTransit
  <2> QED
    BY <2>1, <2>2, GoodsStay
<1> QED
  BY <1>1, <1>2, <1>3, <1>4, <1>5 DEF Settles

LEMMA DeathKeepsGoods ==
  ASSUME GoodsInv, GiveawayInv', GiveawaysDie
  PROVE  GoodsInv'
<1>1. /\ giveaway \in [Giveaways -> Slots] /\ drawing' = {} /\ bank' = bank
      /\ failed' = (failed \/ drawing # {} \/ \E g \in Giveaways : giveaway[g].at = "taken")
      /\ giveaway' = [g \in Giveaways |->
                        IF giveaway[g].at \in {"asked", "ready", "taken"}
                          THEN [giveaway[g] EXCEPT !.at = "abandoned"] ELSE giveaway[g]]
  BY DEF GiveawaysDie, GoodsInv, GiveawayInv, GiveawayTypeOK
<1>2. ASSUME NEW g \in Giveaways, giveaway[g].at \in {"asked", "ready", "taken"}
      PROVE  giveaway'[g].at = "abandoned"
  <2>1. giveaway'[g] = [giveaway[g] EXCEPT !.at = "abandoned"] /\ giveaway[g] \in Slots
    BY <1>1, <1>2
  <2> QED
    BY <2>1 DEF Slots
<1>3. ASSUME NEW g \in Giveaways, giveaway[g].at \notin {"asked", "ready", "taken"}
      PROVE  giveaway'[g] = giveaway[g]
  BY <1>1, <1>3
<1>4. InTransit' \subseteq InTransit
  BY <1>1, <1>2, <1>3 DEF InTransit
<1>5. ~failed' => InTransit' = InTransit
  BY <1>1, <1>2, <1>3 DEF InTransit
<1>6. \A g \in InTransit' : giveaway'[g].loot = giveaway[g].loot
  BY <1>1, <1>2, <1>3 DEF InTransit
<1>7. failed => failed'
  BY <1>1
<1> QED
  BY <1>1, <1>4, <1>5, <1>6, <1>7, GoodsStay

LEMMA GoodsInvStep == GoodsInv /\ [GiveawayNext]_giveVars => GoodsInv'
<1> SUFFICES ASSUME GoodsInv, [GiveawayNext]_giveVars
             PROVE  GoodsInv'
  OBVIOUS
<1>1. GiveawayInv /\ GiveawayInv'
  BY GiveawayInvStep DEF GoodsInv
<1>2. ASSUME NEW g \in Giveaways, NEW u \in Users, NEW p \in Loots, Starts(g, u, p)
      PROVE  GoodsInv'
  BY <1>1, <1>2, StartsKeepsGoods
<1>3. ASSUME NEW g \in Giveaways, Agrees(g) \/ Abandons(g) \/ CreatesGiveaway(g) \/ CreateFails(g)
      PROVE  GoodsInv'
  BY <1>1, <1>3, CommandKeepsGoods
<1>4. ASSUME NEW g \in Giveaways, TakesLoot(g)
      PROVE  GoodsInv'
  BY <1>1, <1>4, TakingKeepsGoods
<1>5. ASSUME NEW g \in Giveaways, Marks(g) \/ MarkFails(g) \/ Settles(g)
      PROVE  GoodsInv'
  BY <1>1, <1>5, TickerKeepsGoods
<1>6. CASE GiveawaysDie
  BY <1>1, <1>6, DeathKeepsGoods
<1>7. ASSUME UNCHANGED <<bank, giveaway, drawing, failed>>
      PROVE  GoodsInv'
  <2>1. InTransit' = InTransit
    BY <1>7 DEF InTransit
  <2> QED
    BY <1>1, <1>7, <2>1, GoodsStay
<1>8. ASSUME NEW g \in Giveaways,
             TimePasses(g) \/ \E u \in Users : \E action \in {"ENTER", "LEAVE"} : ClickReads(u, g, action)
      PROVE  GoodsInv'
  BY <1>7, <1>8 DEF TimePasses, ClickReads, drawVars
<1>9. ASSUME NEW k \in clicks, EnterWrites(k) \/ LeaveWrites(k) \/ ClickFails(k)
      PROVE  GoodsInv'
  BY <1>7, <1>9 DEF EnterWrites, LeaveWrites, ClickFails, drawVars
<1>10. CASE TickFinds
  BY <1>7, <1>10 DEF TickFinds
<1>11. CASE UNCHANGED giveVars
  BY <1>7, <1>11 DEF giveVars, drawVars
<1>12. ASSUME NEW u \in Users, Frees(u)
       PROVE  GoodsInv'
  BY <1>7, <1>12 DEF Frees, drawVars
<1> QED
  BY <1>2, <1>3, <1>4, <1>5, <1>6, <1>8, <1>9, <1>10, <1>11, <1>12 DEF GiveawayNext

(* Items given away are never doubled, and none is lost unless a query     *)
(* failed or the process died while they were in nobody's bank and in no   *)
(* open row (giveaway.ts:160-188, util/giveaway.ts:55-113,                 *)
(* tickers.ts:77-93).                                                      *)
THEOREM GoodsAreKeptCorrect == GiveawaySafety => []GoodsAreKept
<1>1. GoodsInv => GoodsAreKept
  BY DEF GoodsInv
<1> QED
  BY <1>1, GoodsInvInit, GoodsInvStep, PTL DEF GiveawaySafety
=============================================================================
