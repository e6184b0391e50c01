------------------------------ MODULE Giveaways ------------------------------
(***************************************************************************)
(* Giveaways: a host hands items in, other users enter and leave by        *)
(* buttons, and a ticker draws the winner once the time is up.             *)
(*                                                                         *)
(* Between the bank of the host and that of the winner the items exist     *)
(* only in a row of the giveaway table or in a handler that is running.    *)
(***************************************************************************)
EXTENDS AtomicBank, FiniteSets, Functions

CONSTANTS
  Giveaways,   \* slots for giveaways: a run of the command and its row
  Loots,       \* the bundles given away in this instance; clue scrolls are untradeable
  MaxActive,   \* how many giveaways of a user may be open; ten in the bot
  MaxClicks,   \* bound: clicks on Enter and Leave
  MaxFreed,    \* bound: how often each user is freed while he is busy
  InitialBank, \* what each user owns in the beginning
  NoUser

ASSUME GiveawayAssumption ==
  /\ IsFiniteSet(Giveaways)
  /\ Loots \subseteq Purses
  /\ \A p \in Loots : p.coins = 0 /\ \A i \in Clues : p.items[i] = 0
  /\ MaxActive \in Nat
  /\ MaxClicks \in Nat
  /\ MaxFreed \in [Users -> Nat]
  /\ InitialBank \in [Users -> Banks]
  /\ IsFiniteSet(Users)
  /\ NoUser \notin Users

VARIABLES
  giveaway, \* each slot: the command until it has created the row, then the row
  entered,  \* users_entered of each row: how often it names a user
  due,      \* rows whose finish date has passed
  clicks,   \* clicks that have read the row and not written it yet
  clicked,  \* clicks so far
  found,    \* rows the running ticker has fetched and not marked yet
  drawing,  \* rows it has marked completed and not settled yet
  drawn,    \* the entrants it will draw from
  told,     \* ghost: the users last told that they are entered
  tangled,  \* ghost: rows with clicks in flight that can spoil each other
  failed,   \* ghost: a query failed, or the process died, while goods were on the way
  freed,    \* how often each user was released from a gate he had not passed
  peak      \* ghost: the most that "freed" has been

clickVars == <<clicks, clicked, told, tangled>>
drawVars == <<found, drawing, drawn>>
freeVars == <<freed, peak>>
giveVars == <<bank, gp, giveaway, entered, due, clickVars, drawVars, failed, freeVars>>

-----------------------------------------------------------------------------
NoLoot == [items |-> NoItems, coins |-> 0]

GiveawayPhases == {"unused", "asked", "ready", "taken", "abandoned", "open", "completed"}
Slots == [at : GiveawayPhases, host : Users \cup {NoUser}, loot : Loots \cup {NoLoot}]
UnusedSlot == [at |-> "unused", host |-> NoUser, loot |-> NoLoot]

Entries == [Users -> Nat]

ClickType ==
  [id : 1..MaxClicks, user : Users, on : Giveaways, action : {"ENTER", "LEAVE"}, seen : Entries]

Host(g) == giveaway[g].host

GiveawayTypeOK ==
  /\ bank \in [Users -> [Items -> Int]]
  /\ gp \in [Users -> Int]
  /\ giveaway \in [Giveaways -> Slots]
  /\ \A g \in Giveaways : giveaway[g].at # "unused" => Host(g) \in Users /\ giveaway[g].loot \in Loots
  /\ entered \in [Giveaways -> Entries]
  /\ \A g \in Giveaways : Host(g) \in Users => entered[g][Host(g)] = 0
  /\ due \subseteq Giveaways
  /\ clicks \subseteq ClickType
  /\ clicked \in 0..MaxClicks
  /\ found \subseteq Giveaways
  /\ drawing \subseteq Giveaways \ found
  /\ drawn \in [Giveaways -> SUBSET Users]
  /\ told \in [Giveaways -> SUBSET Users]
  /\ tangled \subseteq Giveaways
  /\ failed \in BOOLEAN
  /\ freed \in [Users -> Nat]
  /\ peak \in [Users -> Nat]

-----------------------------------------------------------------------------
Active(u) == {g \in Giveaways : giveaway[g].at = "open" /\ Host(g) = u}

\* The runs of the command that are past the count of the open giveaways.
Starting(u) == {g \in Giveaways : giveaway[g].at \in {"asked", "ready", "taken"} /\ Host(g) = u}

Moves(g, phase) == giveaway' = [giveaway EXCEPT ![g].at = phase]

Entrants(g) == {u \in Users : entered[g][u] > 0}

-----------------------------------------------------------------------------
GiveawayInit ==
  /\ bank = InitialBank
  /\ gp = [u \in Users |-> 0]
  /\ giveaway = [g \in Giveaways |-> UnusedSlot]
  /\ entered = [g \in Giveaways |-> [u \in Users |-> 0]]
  /\ due = {}
  /\ clicks = {}
  /\ clicked = 0
  /\ found = {}
  /\ drawing = {}
  /\ drawn = [g \in Giveaways |-> {}]
  /\ told = [g \in Giveaways |-> {}]
  /\ tangled = {}
  /\ failed = FALSE
  /\ freed = [u \in Users |-> 0]
  /\ peak = [u \in Users |-> 0]

(* A Repeat button of a busy user is refused, but runCommand runs          *)
(* postCommand all the same; a second later the counter is lowered for a   *)
(* command that never raised it (CommandGate's debt).                      *)
Frees(u) ==
  /\ freed[u] < MaxFreed[u]
  /\ freed' = [freed EXCEPT ![u] = @ + 1]
  /\ peak' = [peak EXCEPT ![u] = IF freed[u] < @ THEN @ ELSE freed[u] + 1]
  /\ UNCHANGED <<bank, gp, giveaway, entered, due, clickVars, drawVars, failed>>

\* The command is gated: one of a user at a time, and one more for each time
\* that he was freed while busy.
GateLetsIn(u) == Cardinality(Starting(u)) <= freed[u]

\* A slip: one giveaway too many is let through.
StartsOneMore(g, u, p) ==
  /\ giveaway[g].at = "unused"
  /\ GateLetsIn(u)
  /\ Cardinality(Active(u)) <= MaxActive
  /\ Has(u, p)
  /\ giveaway' = [giveaway EXCEPT ![g] = [at |-> "asked", host |-> u, loot |-> p]]
  /\ UNCHANGED <<bank, gp, entered, due, clickVars, drawVars, failed, freeVars>>

(* /giveaway start, up to its prompt.                                      *)
Starts(g, u, p) ==
  /\ giveaway[g].at = "unused"
  /\ GateLetsIn(u)
  /\ Cardinality(Active(u)) < MaxActive
  /\ Has(u, p)
  /\ giveaway' = [giveaway EXCEPT ![g] = [at |-> "asked", host |-> u, loot |-> p]]
  /\ UNCHANGED <<bank, gp, entered, due, clickVars, drawVars, failed, freeVars>>

(* Confirmed; the host's row is read again and still has the items.        *)
Agrees(g) ==
  /\ giveaway[g].at = "asked"
  /\ Has(Host(g), giveaway[g].loot)
  /\ Moves(g, "ready")
  /\ UNCHANGED <<bank, gp, entered, due, clickVars, drawVars, failed, freeVars>>

(* Not confirmed, the items are gone, the duration is wrong, the message   *)
(* cannot be sent or the removal is refused: nothing has moved.            *)
Abandons(g) ==
  /\ giveaway[g].at \in {"asked", "ready"}
  /\ Moves(g, "abandoned")
  /\ UNCHANGED <<bank, gp, entered, due, clickVars, drawVars, failed, freeVars>>

TakesLoot(g) ==
  /\ giveaway[g].at = "ready"
  /\ Transaction(Out(Host(g), giveaway[g].loot))
  /\ Moves(g, "taken")
  /\ UNCHANGED <<entered, due, clickVars, drawVars, failed, freeVars>>

CreatesGiveaway(g) ==
  /\ giveaway[g].at = "taken"
  /\ Moves(g, "open")
  /\ UNCHANGED <<bank, gp, entered, due, clickVars, drawVars, failed, freeVars>>

(* The insert fails; the error is logged and the items are not given back. *)
CreateFails(g) ==
  /\ giveaway[g].at = "taken"
  /\ Moves(g, "abandoned")
  /\ failed' = TRUE
  /\ UNCHANGED <<bank, gp, entered, due, clickVars, drawVars, freeVars>>

TimePasses(g) ==
  /\ giveaway[g].at = "open"
  /\ g \notin due
  /\ due' = due \cup {g}
  /\ UNCHANGED <<bank, gp, giveaway, entered, clickVars, drawVars, failed, freeVars>>

-----------------------------------------------------------------------------
\* Two clicks on a row spoil each other if one is a leave, which writes the
\* whole array, or if they enter the same user.
Spoils(k, l) == k.on = l.on /\ ("LEAVE" \in {k.action, l.action} \/ k.user = l.user)

MayEnter(g, u) == u # Host(g) /\ entered[g][u] = 0

MayLeave(g, u) == entered[g][u] > 0

(* A click reads the row: it is there, not over, and the click changes     *)
(* something.                                                              *)
ClickReads(u, g, action) ==
  LET k == [id |-> clicked + 1, user |-> u, on |-> g, action |-> action, seen |-> entered[g]] IN
  /\ clicked < MaxClicks
  /\ giveaway[g].at = "open" /\ g \notin due
  /\ IF action = "ENTER" THEN MayEnter(g, u) ELSE MayLeave(g, u)
  /\ clicks' = clicks \cup {k}
  /\ clicked' = clicked + 1
  /\ tangled' = IF \E l \in clicks : Spoils(k, l) THEN tangled \cup {g} ELSE tangled
  /\ UNCHANGED <<bank, gp, giveaway, entered, due, drawVars, told, failed, freeVars>>

Handled(k) == clicks' = clicks \ {k}

\* A slip: Enter, like Leave, writes the array it has read.
EnterWritesArray(k) ==
  /\ k.action = "ENTER"
  /\ entered' = [entered EXCEPT ![k.on] = [k.seen EXCEPT ![k.user] = @ + 1]]
  /\ told' = [told EXCEPT ![k.on] = @ \cup {k.user}]
  /\ Handled(k)
  /\ UNCHANGED <<bank, gp, giveaway, due, clicked, tangled, drawVars, failed, freeVars>>

(* Enter pushes onto the array, whatever it is by now.                     *)
EnterWrites(k) ==
  /\ k.action = "ENTER"
  /\ entered' = [entered EXCEPT ![k.on][k.user] = @ + 1]
  /\ told' = [told EXCEPT ![k.on] = @ \cup {k.user}]
  /\ Handled(k)
  /\ UNCHANGED <<bank, gp, giveaway, due, clicked, tangled, drawVars, failed, freeVars>>

(* Leave writes the array it has read, without duplicates and the user.    *)
LeaveWrites(k) ==
  /\ k.action = "LEAVE"
  /\ entered' = [entered EXCEPT ![k.on] =
                   [u \in Users |-> IF u # k.user /\ k.seen[u] > 0 THEN 1 ELSE 0]]
  /\ told' = [told EXCEPT ![k.on] = @ \ {k.user}]
  /\ Handled(k)
  /\ UNCHANGED <<bank, gp, giveaway, due, clicked, tangled, drawVars, failed, freeVars>>

ClickFails(k) ==
  /\ Handled(k)
  /\ UNCHANGED <<bank, gp, giveaway, entered, due, clicked, told, tangled, drawVars, failed, freeVars>>

-----------------------------------------------------------------------------
\* A slip: the query forgets "completed: false".
TickFindsAgain ==
  /\ found \cup drawing = {}
  /\ found' = due
  /\ UNCHANGED <<bank, gp, giveaway, entered, due, clickVars, drawing, drawn, failed, freeVars>>

\* A slip: the dates are compared the wrong way round.
TickFindsEarly ==
  /\ found \cup drawing = {}
  /\ found' = {g \in Giveaways \ due : giveaway[g].at = "open"}
  /\ UNCHANGED <<bank, gp, giveaway, entered, due, clickVars, drawing, drawn, failed, freeVars>>

(* The ticker, once its last run is over, fetches the rows that are due.   *)
TickFinds ==
  /\ found \cup drawing = {}
  /\ found' = {g \in due : giveaway[g].at = "open"}
  /\ UNCHANGED <<bank, gp, giveaway, entered, due, clickVars, drawing, drawn, failed, freeVars>>

(* handleGiveawayCompletion marks the row completed first ...              *)
Marks(g) ==
  /\ g \in found
  /\ Moves(g, "completed")
  /\ found' = found \ {g}
  /\ drawing' = drawing \cup {g}
  /\ drawn' = [drawn EXCEPT ![g] = Entrants(g)]
  /\ UNCHANGED <<bank, gp, entered, due, clickVars, failed, freeVars>>

(* ... or the update fails and the next run finds the row again.           *)
MarkFails(g) ==
  /\ g \in found
  /\ found' = found \ {g}
  /\ UNCHANGED <<bank, gp, giveaway, entered, due, clickVars, drawing, drawn, failed, freeVars>>

Settled(g) == drawing' = drawing \ {g}

Wins(g, u) ==
  /\ g \in drawing
  /\ u \in drawn[g]
  /\ Transaction(In(u, giveaway[g].loot))
  /\ Settled(g)
  /\ UNCHANGED <<giveaway, entered, due, clickVars, found, drawn, failed, freeVars>>

(* Nobody entered, or all who did are ironmen by now.                      *)
Refunds(g) ==
  /\ g \in drawing
  /\ Transaction(In(Host(g), giveaway[g].loot))
  /\ Settled(g)
  /\ UNCHANGED <<giveaway, entered, due, clickVars, found, drawn, failed, freeVars>>

(* Reading the users or giving the loot throws: the error is logged.       *)
PayFails(g) ==
  /\ g \in drawing
  /\ Settled(g)
  /\ failed' = TRUE
  /\ UNCHANGED <<bank, gp, giveaway, entered, due, clickVars, found, drawn, freeVars>>

-----------------------------------------------------------------------------
(* The process dies: rows and banks stay, the handlers and the busy        *)
(* counters are gone.                                                      *)
GiveawaysDie ==
  /\ failed' = (failed \/ drawing # {} \/ \E g \in Giveaways : giveaway[g].at = "taken")
  /\ giveaway' = [g \in Giveaways |->
                    IF giveaway[g].at \in {"asked", "ready", "taken"}
                      THEN [giveaway[g] EXCEPT !.at = "abandoned"]
                      ELSE giveaway[g]]
  /\ clicks' = {}
  /\ found' = {}
  /\ drawing' = {}
  /\ freed' = [u \in Users |-> 0]
  /\ UNCHANGED <<bank, gp, entered, due, clicked, drawn, told, tangled, peak>>

-----------------------------------------------------------------------------
Settles(g) == Refunds(g) \/ PayFails(g) \/ \E u \in Users : Wins(g, u)

GiveawayNext ==
  \/ \E g \in Giveaways :
       \/ \E u \in Users : \E p \in Loots : Starts(g, u, p)
       \/ Agrees(g) \/ Abandons(g) \/ TakesLoot(g) \/ CreatesGiveaway(g) \/ CreateFails(g)
       \/ TimePasses(g)
       \/ \E u \in Users : \E action \in {"ENTER", "LEAVE"} : ClickReads(u, g, action)
       \/ Marks(g) \/ MarkFails(g) \/ Settles(g)
  \/ \E u \in Users : Frees(u)
  \/ \E k \in clicks : EnterWrites(k) \/ LeaveWrites(k) \/ ClickFails(k)
  \/ TickFinds
  \/ GiveawaysDie

GiveawaySafety == GiveawayInit /\ [][GiveawayNext]_giveVars

\* The ticker runs every five seconds; an update does not fail for ever.
GiveawayFairness ==
  /\ WF_giveVars(TickFinds)
  /\ \A g \in Giveaways :
       /\ WF_giveVars(TimePasses(g))
       /\ SF_giveVars(Marks(g))
       /\ WF_giveVars(MarkFails(g))
       /\ WF_giveVars(Settles(g))

GiveawaySpec == GiveawaySafety /\ GiveawayFairness

-----------------------------------------------------------------------------
\* Giveaways whose loot is on its way from the host to a winner.
InTransit == {g \in Giveaways : giveaway[g].at \in {"taken", "open"} \/ g \in drawing}

OnTheWay(i) == SumFunctionOnSet([g \in Giveaways |-> giveaway[g].loot.items[i]], InTransit)

InBanks(b, i) == SumFunctionOnSet([u \in Users |-> b[u][i]], Users)

(* Items given away are never doubled, however the ticker, its failures    *)
(* and restarts fall, and none is lost unless a query failed or the        *)
(* process died while they were in nobody's bank and in no open row        *)
(* (giveaway.ts:160-188, util/giveaway.ts:55-113, tickers.ts:77-93).       *)
GoodsAreKept ==
  \A i \in Items :
    LET before == InBanks(InitialBank, i)
        now == InBanks(bank, i) + OnTheWay(i)
    IN  IF failed THEN now <= before ELSE now = before

(* Nobody has more than MaxActive giveaways open, although they are        *)
(* counted long before the row is created (giveaway.ts:88-96), but for as  *)
(* many as the commands that the gate let overlap (settings.ts:173-183).   *)
ActiveIsBounded == \A u \in Users : Cardinality(Active(u)) <= MaxActive + peak[u]

(* The array names each user who was last told that he is entered, once,   *)
(* and nobody else, unless clicks on the row got tangled                   *)
(* (globalInteractions.ts:181-216).                                        *)
EntriesAsTold ==
  \A g \in Giveaways : g \notin tangled =>
    \A u \in Users : entered[g][u] = IF u \in told[g] THEN 1 ELSE 0

(* Every giveaway that was started is drawn.                               *)
GiveawaysEnd == \A g \in Giveaways : (giveaway[g].at = "open") ~> (giveaway[g].at = "completed")
=============================================================================
