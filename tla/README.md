# A TLA+ verification of Old School Bot

Old School Bot is a Discord bot: a game of trips, banks and trades played by typing commands and
clicking buttons. It is one Node.js process in front of a PostgreSQL database (through Prisma) and
Discord (through discord.js). Nothing runs in parallel, but everything interleaves: each command,
button handler, timer and ticker is a chain of awaits, and whatever else is going on runs between
two of them. Some state is in the database and survives a restart (users' rows, activities,
giveaways); some is in the memory of the process and does not (busy counters, the activity cache,
the queues of transactions, the party locks, the timers and every handler that is waiting).

This directory models the parts of the bot where those interleavings matter, checks them with TLC on
small instances and proves the most important facts with TLAPS for every value of the constants.
Paths below are relative to `src/src/` unless they begin with `src/`.

## 1. Inventory

| Component | State | Operations | What is hard |
|---|---|---|---|
| Command gate (`lib/busyCounterCache.ts`, `mahoji/lib/preCommand.ts`, `postCommand.ts`, `inhibitors.ts`, `Cooldowns.ts`, `lib/settings/settings.ts` runCommand, `lib/util/globalInteractions.ts`) | a busy counter per user, release timers, button cooldowns, the shutdown flag | typed commands, buttons through the hook, repeat and giveaway buttons, nested `runCommand`, trip completions, the moderators' unlock, reboot | the counter goes up after an await and down by a timer a second later; six ways in, each with other checks |
| Trips (`lib/util/addSubTaskToActivityTask.ts`, `lib/Task.ts`, `lib/tickers.ts`, `lib/settings/settings.ts`, `cancelTaskCommand.ts`) | the activity table, the activity cache, what the ticker has fetched | charge, create, cache, cancel, finish, fetch, mark, pay, forget, rebuild the cache | table and cache are written in separate steps; the ticker works on rows it read before |
| Bank transactions (`lib/util/transactItemsFromBank.ts`, `userQueues.ts`, `lib/clues/clueUtils.ts`, parts of `lib/MUser.ts`) | bank, coins and collection log of a user's row; a queue per user in memory | add, remove, log, wager | read, compute, write the whole row; writers that bypass the queue |
| Confirmation prompt (`mahoji/mahojiSettings.ts:63-146`) | the collector, who confirmed, the promise | confirm, cancel, time out | two asynchronous ends race for one promise; a reply may fail |
| Deals between players (`mahoji/commands/trade.ts`, `pay.ts`, `duelCommand.ts`) | where the goods are between two transactions | check, prompt, check again, remove, add | a sequence of transactions that nothing makes atomic |
| Giveaways (`mahoji/commands/giveaway.ts`, `lib/util/giveaway.ts`, the buttons, the ticker) | the row with its loot and the array of entrants | start, enter, leave, draw, refund | loot between bank and row, arrays written from a stale read, a ticker that must not draw twice |
| Parties (`lib/party.ts` and what `mass.ts`, Nex, CoX and ToB do with it) | the members and the collector of each party, a set of locks all parties share | set up, join, leave, cancel, start, time out, depart, clear the locks | an asynchronous filter in front of the handler; clicks after the end; four ways to end that race |
| Slayer (`slayer.ts`, `slayerUtil.ts`, `slayerTaskCommand.ts`, `slayerShopCommand.ts`, `monsterActivity.ts`, Fight Caves and Inferno) | the tasks, and in the user's row points, streak and block list | assign, extend, skip, block, unblock, buy, count kills, reward | `/slayer` does not await most of what it does: its calls overlap with each other, with purchases and with the handler of a trip |
| Moderators (`mahoji/commands/admin.ts`) | none of its own | unlock, cancel a task, reboot | it reaches into the state of the others at any time |

How they interact. Every command passes the gate. A command that starts a trip takes its cost by bank
transactions, then creates the row and caches it; the ticker hands due rows to `completeActivity`,
which raises the gate's counter while the task's handler pays by bank transactions. A team
trip waits for a party first, which takes members along whose own commands nothing gates. Commands that
spend, trade or cancel stop at a confirmation prompt with the gate's counter raised, so the time of
the prompt or the party is time in which tickers, buttons and *other users'* commands run. Deals and giveaways are
built of the same transactions. A restart empties all that is in memory at once; `index.ts:213-225`
then rebuilds the activity cache from the rows.

What makes each correct:

* gate - at most one gated command per user (but see Findings for the release that breaks this), and nobody
  stays busy for ever;
* trips - a trip is paid at most once, the cache and the table tell the same, nobody is freed from
  another trip or left with one that is never paid, a due trip is settled;
* bank - no lost or doubled items, nothing negative, at most one clue of a tier;
* prompt - the command goes on only with everybody's consent, and always gets an answer;
* deals and giveaways - goods only change hands, a check that passed is still good when it is used;
* parties - a departing party has room and enough members, and nobody is a guest of two; its command gets an
  answer; no lock outlives its party;
* slayer - one open task, rewarded or paid off once and then closed; points are neither lost nor doubled,
  and spent twice only by a player whom the gate let in once too often; no more blocks than allowed.

`PROJECT.json` lists all components, those that are not modelled with the reason, and the hazards of
the code, each at its line and with the property that would catch it.

## 2. Modules

| Module | Models | Uses |
|---|---|---|
| `CommandGate` | the gate, trip completions as far as the counter is concerned, unlock, reboot, restart | |
| `MinionTrips` | the bodies of commands that start, cancel or unlock trips, team trips, the ticker, the handlers | EXTENDS `CommandGate`; each action conjoins the gate's |
| `Gathering` | the promise of `setupParty`: gather around a leader, depart once with enough members or be called off | |
| `Parties` | how it is kept: filter, handlers, collector, locks; and how the commands take the members along | implements `Gathering` (`INSTANCE Gathering WITH`) |
| `SlayerTasks` | one player's slayer tasks, points and block list, the overlapping calls, the handlers of his trips | |
| `AtomicBank` | the promise of `transactItems`: one transaction, one instant | |
| `UserBank` | how it is kept: queue, snapshot, whole-row write, bypassing writers | EXTENDS `AtomicBank`, implements it |
| `ConfirmationPrompt` | `handleMahojiConfirmation` | |
| `PlayerDeals` | `/trade`, `/pay`, duels as sequences of transactions | EXTENDS `AtomicBank` |
| `Giveaways` | the giveaway command, its buttons, its ticker | EXTENDS `AtomicBank` |
| `MC*` | constants and symmetry for TLC | |
| `*_proofs` | theorems about the module of that name; those about `CommandGate` are in `MinionTrips_proofs`, part I | |

The layering is the argument that lets each module stay small. `Parties` is shown to implement
`Gathering`: that is why `MinionTrips` may take a party that gathered as one step. `UserBank` implements
`AtomicBank`, so `PlayerDeals` and `Giveaways` may use a transaction as one step. The actions of
`MinionTrips` are the gate's with conjuncts about rows and cache, or leave the gate alone; that a fact about the
gate is a fact about the trips is therefore a matter of form and not counted among the results.
`Giveaways` and `SlayerTasks` have one user's gated commands in them without the gate's variables: they let in
one command, and one more for each time the user was freed while busy (`freed`), which is what the gate
really gives (finding 1).

How state and actions correspond to the code:

* **CommandGate.** `busy` is `busyCounterCache`; `cmd` holds for each invocation slot how far it is -
  `hook` (the button hook awaits the user's row), `fetch` (`preCommand` awaits it), `inhibit` (the
  counter is up, the inhibitors await), `run`; `timers` are the one-second `setTimeout`s of
  `postCommand`. `PreCommandAcquires` and `PreCommandRefuses` are the two outcomes of the check at
  `preCommand.ts:75`, which shares one turn of the event loop with the increment. The kinds of entry
  differ as in the code: the command library honours `dontRunPostCommand`, `runCommand` does not;
  buttons look at the busy counter, the cooldown and the shutdown flag first, repeat and giveaway
  buttons do not. `debt` is a ghost that counts releases nothing was acquired for.
* **MinionTrips.** `row` is the activity table, `cache` is `minionActivityCache`, `body` says how far
  the body of a command is, `found`, `marked` and `paying` are the ticker's local variables. A start is
  `TakeItems` (for a team `PartyDeparts`, which drops members who got busy), `CreateRow` (with the unique
  index of `startupScripts.ts:53`), `SyncActivity`; a cancellation is `AskToCancel`, `CancelRows`,
  `CancelCache`; a moderator's `cancel_task` is `AdminDeletesRows`, `AdminFrees`; a tick is `TickFinds`,
  `TickMarks`, `TickCompletes`, `HandlerPays`, `HandlerEnds`. The ghost `crossed` holds the users who got
  on two trips at once, or were unlocked amid something, and everyone who travelled with them
  (`TripMates`, the smallest set closed under sharing a trip); `Tangled(t)` says that somebody on `t` is
  one of them. The properties about cache and cancellation exclude exactly the tangled trips.
* **Parties.** `partyLockCache` and `usersWhoConfirmed` are the code's; `clicked` is the set of users the
  collector counts; `phase` is how far a call of `setupParty` is: `open` while the collector collects,
  `ended` while the 250 ms timer runs, `deleting` and `fetching` at the awaits of `startTrip`, `lost` when
  it threw. A click is a record that stands at the filter or has passed it (`JoinPassesBusy`) until its
  handler runs in one turn: `Settles` is what every handler leaves behind, and whether the collector stops
  after it. `TakesAlong`, `TripRefused`, `TripDeparts` are what the command does with the members.
  `late` (who joined after the end) and `unlocked` (guests who lost their lock) are ghosts.
* **SlayerTasks.** `task` is the table, `points`, `streak` and `blocked` are columns of the user's row. A
  call is a record of how far it is and what it has read: `FindsForSkip` reads, `PaysForSkip` writes back
  the points it read less the cost, `DropsTask` marks the task. The handler of a trip is `HandlerFindsTask`,
  `HandlerRaisesStreak`, `HandlerGivesPoints`, `HandlerWritesTask` or `HandlerCancelsTask`. Ghosts: `ledger`
  (points earned less points charged), `settled` (how often a task was rewarded or paid off), `doubled`,
  `raced` and `broken`, which name the overlaps and failures the properties exclude. `Frees` is a release
  by somebody who had not passed the gate; `GateLetsIn`, in front of a purchase or an unblock, lets one in and
  one more for each such release. A purchase of an item gives it after the payment (`GivesItem`), an unlock
  comes with the payment.
* **AtomicBank, UserBank.** `Granted`, `Gains` and `BankAfter` are the arithmetic of
  `transactItemsFromBank.ts:44-118`, in its order: loot is deduplicated against what is left after the
  removal, coins are compared net, items after the loot is added. `Enqueue`, `Fetch`, `Refuse`,
  `Commit`, `QueryFails` are the life of a call in the queue of `userQueues.ts`.
* **ConfirmationPrompt.** `confirming` and `cancelling` are how far the two asynchronous functions
  are; `promise` is what the command sees. A promise keeps its first outcome.
* **PlayerDeals.** `Legs` is the sequence of transactions of each kind of deal; `next` is the one to
  come. `raced` is a ghost: the parties at whom another transaction got since they were checked.
* **Giveaways.** A slot is the command until `CreatesGiveaway` and the row from then on. A click is a
  record that carries the array it read (`ClickReads`) until it writes (`EnterWrites` pushes,
  `LeaveWrites` writes the whole array). `told` and `tangled` are ghosts: who was last told that he is
  entered, and rows two of whose clicks were in flight together in a way that can spoil them. `Frees` and
  `GateLetsIn` are as in `SlayerTasks`, `freed` being the process's (a restart forgets it) and the ghost `peak`
  the most it has been.

Some definitions are followed by a twin marked "a slip": the way a plausible bug would write them.
They are used by no specification; each property is shown to fail when its slip is put in place, so
no property holds merely by the shape of the model.

## 3. Runs

| Run | Instance | Distinct states | What it shows |
|---|---|---|---|
| `gate` | 1 user, 3 invocations | 194,586 | counter = what will still be taken off less the unpaid releases; one gated command; gated commands start alone; a quiet user is freed |
| `gate_refused` | 1 user, 2 invocations, by typing or by the repeat button, of which only refused ones end | violation | a refused click lets a second command in beside the first, see Findings |
| `trips_teams` | 2 users, parties of two, 2 typed commands, 2 trips, 1 restart | 453,600 | cache and table agree, a charged trip can start, handlers and cancellations end their own trip only |
| `trips_kinds` | a player (typed and nested commands) and a moderator, 2 commands, 1 trip, 1 restart | 234,282 | paid at most once, nobody is stranded, due trips settle, minions get free |
| `trips_cancelled` | 1 user, 1 command, 1 trip | violation | a cancelled trip is paid, see Findings |
| `parties` | 4 users, 2 parties of two or three, one of them sliced, 3 clicks | 741,000 | nobody a guest of two parties, no lock outlives its party, teams fit, `Gathering` is implemented, commands are answered |
| `slayer` | 2 calls at a time, 3 in all, 2 trips, 2 tasks, 2 monsters, 1 failure between payment and write, 1 release of a busy player | 652,177 | one open task, points kept and overspent by one purchase at most, tasks settled once and closed for good, blocks within the limit |
| `bank_queued` | 1 user, 3 calls of 5 kinds | 13,246 | queued transactions implement atomic ones; every call is answered |
| `bank_unqueued` | 2 calls, 1 direct log write, 2 wagers | 1,051,392 | overdrafts are bounded by the stakes |
| `prompt` | 3 users asked, 1 bystander | 111 | yes means everyone; a cancel is overruled only by a later confirm |
| `deals` | 2 players, 2 deals of 5 offers, 2 other transactions | 269,271 | goods only change hands; checks that passed hold unless raced |
| `giveaways` | 3 users, 2 giveaways, 3 clicks, limit 1, the hostess freed once while busy | 229,631 | nothing is doubled, nothing is lost without a failure, no more open than the limit and the releases allow, entries are as told, every giveaway is drawn |

The properties each run checks:

* `gate`: `Accounting`, `OneGatedCommand`, `GatedStartsAloneAlways`, `FreedWhenQuiet`;
  `gate_refused`: `BusyUsersAreRefused`.
* `trips_teams`: `OpenRowCached`, `ChargedCanStart`, `HandlerFreesOwnTrip`, `CancelsWhatItAsked`;
  `trips_kinds`: `PaidAtMostOnce`, `NobodyIsStranded`, `DueTripSettles`, `MinionGetsFree`;
  `trips_cancelled`: `CancelledIsNotPaid`.
* `parties`: `OneParty`, `LocksAreReleased`, `TeamFits`, `ImplementsGathering`, `LobbiesSettle`.
* `slayer`: `OneOpenTask`, `PointsAreKept`, `SettledOnce`, `SettledIsClosed`, `BlocksWithinLimit`,
  `ClosedStaysClosed`.
* `bank_queued`: `Solvent`, `OneClueOfATier`, `BankSpec` (the atomic bank, as a property of the queued
  one), `LogOnlyGrows`, `CallsAreAnswered`; `bank_unqueued`: `OverdraftIsWagered`.
* `prompt`: `ResolvedMeansConfirmed`, `CancelIsHonoured`, `AnsweredUnlessReplyFails`.
* `deals`: `RefusedOnlyByRaces`, `GoodsOnlyChangeHands`, `DealsEnd`.
* `giveaways`: `GoodsAreKept`, `ActiveIsBounded`, `EntriesAsTold`, `GiveawaysEnd`.

The type invariants are theorems of the proof modules and are not run. Every property of a passing run
has a mutant in `PROJECT.json`, a slip of the code under which TLC finds it violated.

Bounds, and why they are enough:

* `MaxOutstanding` (1 to 3) limits the invocations, timers and unpaid releases of a user. Three is
  enough for one command running, one in the gate and one release pending; the facts about the gate are
  proved without a bound.
* `Trips`, `Calls`, `Deals`, `Giveaways`, `Lobbies`, `Commands` are slots. Trips and calls are not reused: two
  trips let one be cancelled while the next starts, three calls let one run, one wait and one be
  refused. `MaxRestarts` is 1: a second restart starts from a state a first one can reach. `MaxOthers`
  is 2: one race on each party.
* One user in the gate, bank and slayer runs: counters, queues and rows of two users never meet
  there; where users do meet (teams, parties, deals, giveaways) there are two to four.
* The trip runs split what they vary: `trips_teams` has teams and crossing trips with typed commands,
  `trips_kinds` typed and nested commands and a moderator with one trip; the other ways in are the gate's
  run. `trips_kinds` checks liveness, which is what its size costs.
* `MaxClicks` is 3. In giveaways: two clicks that tangle, and one that does not. In parties: two joins
  that pass the filter for the last place, or one user's joins of two parties, and a click of the leader;
  four users and at most three places, so that one is too many.
* In the slayer run two calls overlap and one more can follow (the theorems are for any number); the costs of
  skips and blocks are the code's (30 and 100), something in the shop costs 120. The start of 200 points pays
  for one purchase, but not for two, and for two blocks, of which the limit allows one. `MaxFreed` is 1: one release
  lets a second purchase in beside the first, and the points go to -40. The streak is capped at the fifth
  task, from which on points are given. `MaxBroken` is 1: one failure between a payment and its write.
* `MaxActive` is 1 for the bot's 10: the check is the same and the boundary is reached with two slots; the
  theorem is for any limit. One release of the busy hostess opens the second giveaway, which the limit forbids.
* Stakes in duels are multiples of ten, so that the five percent tax is a whole number; the code's
  floating-point tax on other stakes is listed as a hazard.

Deadlock is checked for the gate and the trips, which never stop. It is switched off where the system
may come to rest: all slots of an instance are used (bank, parties, slayer, deals, giveaways), the prompt
is answered.

Fairness, and why the code justifies it. Awaited calls return or throw, timers and collectors' timeouts
fire: weak fairness of the steps that follow them (for a party `CollectorStep`: its time limit, the
250 ms timer, the deletion of the message, the fetch of the members; for a moderator's command
`AdminFrees`). Tickers reschedule themselves in a `finally` block
(`tickers.ts:373-388`): weak fairness of the query. An update may fail and is tried again by the next
tick, but not for ever: strong fairness of `TickMarks` and `Marks`. Nothing is assumed of users: nobody
has to type, click or confirm.

## 4. Findings

* **`runCommand` releases what it never acquired** (`settings.ts:175`). A user who is busy and clicks Repeat is
  refused by `preCommand` ("You cannot use a command right now.", `preCommand.ts:76`, with
  `dontRunPostCommand: true`), but the `finally` block runs `postCommand` all the same. A second later the
  counter is lowered for the command that is still running, and the next typed command passes the gate beside
  it. Run `gate_refused`: its trace is a typed command, a refused click, the timer, a second typed command.
  `Accounting` says by how much the counter is off (`debt`); the other properties of the gate are stated for users
  without a debt. The consequences that matter are counted where they bite: a player so freed can have two
  purchases checked against the same slayer points (`PointsAreKept`), a host can open one giveaway more than
  his limit (`ActiveIsBounded`). A moderator's unlock amid a command has the same effect.
* **A cancelled trip can be paid** (`tickers.ts:141`). The ticker pays the rows it fetched, also those
  cancelled before it marked them, while the prompt says that no loot will be received. Run
  `trips_cancelled`. If the user starts another trip meanwhile, the old trip's handler frees him from it;
  such users are among the `crossed`.

Seen while modelling, excluded from the properties by name: a reply that fails after a cancel leaves a
command waiting for ever (`mahojiSettings.ts:115`, the disjunct `cancelling = "threw"`); a trade whose
second removal is refused loses the first party's goods (`trade.ts:131`); giveaway loot is lost when the
row cannot be created or the draw throws (`giveaway.ts:183`, `util/giveaway.ts:110`, the ghost `failed`);
leaving a giveaway writes a stale array and drops or revives another entrant (`globalInteractions.ts:212`,
the ghost `tangled`); wagers can overdraw the coins (`hotColdCommand.ts:94`).

Of team trips and parties: a member is checked when the party leaves and not gated, so he can be on another
trip, or at the prompt of a cancellation, when the row is created (`mass.ts:134`, the ghost `crossed`); a
leader who was busy when his party was filtered can be free again when its row is created, and then is not on
his own trip; a moderator's `cancel_task` frees the leader of a team and leaves the other members busy until
the next restart (`admin.ts:604`, named in `NobodyIsStranded` and `MinionGetsFree`). A lock is dropped by the
twenty-minute clear, by the end of another party and by a late leave (`party.ts:22`, the ghost `unlocked`), a
join that passed the filter is handled after the end (`late`), and a command waits for ever if a member cannot
be fetched (`party.ts:144`, the phase `lost`).

Of slayer: two calls that `/slayer` did not await can both assign a task (`slayerTaskCommand.ts:292`, the ghost
`doubled`); a skip writes back the points it read and undoes a purchase or a reward, or leaves a
purchase that was already checked fewer points than it takes, so that they go below zero (`slayerTaskCommand.ts:443`, the ghost
`raced`); a failure between a payment or reward and the write of the task leaves a task open that can be
settled again (the ghost `broken`).

## 5. Proofs

`tlapm` checks every leaf with Z3, Zenon and, for temporal steps, LS4. The assumptions are those on the
constants (`GateAssumption`, `TripAssumption`, `PartyAssumption`, `SlayerAssumption`,
`BankAssumption`, `UserBankAssumption`, `AskedAssumption`, `DealAssumption`, `GiveawayAssumption`); TLC evaluates them in the runs.

* **Gate** (`TypeCorrect`, `AccountingCorrect`, `NothingOwedMeansFreeCorrect`, `OneGatedCommandCorrect`,
  `GatedStartsAloneCorrect`).
  `Accounting` is inductive together with `TypeOK`: counting what holds, what has a timer and
  what completes is what makes mutual exclusion provable at all. `OneGatedCommand` needs more: at most
  one gated command past the gate *and* a positive counter whenever one is there; the latter follows
  from `Accounting` when there is no debt. The cardinalities use the library's facts about finite sets,
  hence `IsFiniteSet(Commands)`. `NothingOwedMeansFree` is what the accounting says of the end: who has no
  invocation, no payment and no release under way is free. It is the safety half of `FreedWhenQuiet`, which
  adds under fairness that releases come.
* **Trips** (`TripTypeCorrect`, `TripsOneGatedCommand`, `PaidAtMostOnceCorrect`,
  `OpenRowCachedCorrect`, `NobodyIsStrandedCorrect`, `HandlerFreesOwnTripCorrect`,
  `CancelsWhatItAskedCorrect`, `ChargedCanStartCorrect`). Each step of the trips takes a step of the gate with it or none: the lemma
  `TripsFollowGate` reads this off the definitions, and `TripsOneGatedCommand` uses it. `PaidAtMostOnce` is not
  inductive: `PayInv` adds that a paid row is closed, that what a marked tick has found is closed, that
  what is being paid or was found has not been paid, and that handlers run only in a marked tick. The
  others rest on `Ties`, which says how rows, cache, commands and ticker hang together for users who are
  not `crossed`: one trip each (`OneTripEach`), the cache names the trip one is on (`CacheAgrees`,
  `CachedOnTeam`, `TeamsCached`), who was just freed has none (`FreedHasNoTrip`), a prompt names the trip
  of who is asked (`AsksOfHisTrip`), and teams are crossed as a whole (`CrossedTogether`). The last is why
  `crossed` is closed under travelling together: one entry dropped through a tangled trip drops those of all
  its team. The gate enters where a row is created: a cancellation by the same user cannot be under way,
  since at most one gated command runs (`OneGatedCommand`). `ChargedCanStartCorrect` assumes that users only
  type their commands (`OnlyTyped`, as in the run): a nested command passes the gate of a busy user, and one
  that `runCommand` starts can leave an unpaid release, so that two commands of a user start trips at once
  and the second has paid for nothing. Its `TypedInv` adds that a debt is a moderator's unlock, and so crosses
  its user, and that who will create a row is free, taken along by another's party or crossed (`LeaversFree`).
* **Parties** (`PartyTypeCorrect`, `PartiesImplementGathering`, `OnePartyCorrect`,
  `LocksAreReleasedCorrect`, `TeamFitsCorrect`, `AnswersCorrect`). `ProgressInv` ties the phases of a call to its promise and
  to what it fetched; with it every step is a step of `Gathering` or a stutter, a click after the departure
  among the stutters. `LockInv` is inductive where `OneParty` is not: it adds `GuestsAreLocked`, a guest of
  an open party has his lock or is `unlocked`. `SizeInv` bounds the members by the places, the late ones aside.
  `AnswersCorrect` is the safety half of `LobbiesSettle`: a command that still waits has a step of the party
  ahead of it, unless a fetch threw, and whoever is told to depart gets enough members, the leader among them.
* **Slayer** (`SlayerTypeCorrect`, `OneOpenTaskCorrect`, `PointsAreKeptCorrect`, `SettledOnceCorrect`,
  `SettledIsClosedCorrect`, `BlocksWithinLimitCorrect`, `ClosedStaysClosedCorrect`), for any number of calls
  that overlap, rows, monsters and costs. `SlayerInv` says what each late write will do.
  `MinionOut`: while a handler is at work no call that found the minion free is, so no payment and no
  extension meets it. `WritesInv`: a row that is about to be extended, or to get back some kills, is open or was
  skipped, so the write does not open it (`ClosedStaysClosed`). `RewardInv` and `SettledIsClosed` need each
  other: what the handler is about to reward was open when nobody was at work on it, hence not settled.
  `AssignInv`: as long as no two calls were about to assign, whoever is has seen that no task is open.
  `RaceInv`: as long as no skip overlapped another writer, the points a skip has read are the points.
  `BuyInv`: the purchases under way, beyond the releases that let them in, are still covered by the points; each
  further one may overdraw them by its price (`PointsBound`: no lower than `-(freed * ItemCost)`).
  `BlockInv`: every list a call has in mind is within the limit, whichever of them is written last.
* **Bank** (`LedgerCorrect`, `BankTypeCorrect`, `SnapshotIsCurrentCorrect`, `ImplementsAtomicBank`, `UserBankCorrect`,
  `LogOnlyGrowsCorrect`, `OverdraftIsWageredCorrect`, `ItemsAreWholeCorrect`, `QueueMovesOnCorrect`).
  `LedgerCorrect` says that atomic transactions keep everyone solvent and clues single.
  `QueueInv` adds to `SnapshotIsCurrent` that a user's queue runs one call at a time, that a snapshot's
  coins are current as long as there are no wagers, and its log as long as nobody writes logs directly.
  `ImplementsAtomicBank` follows: a commit is a transaction, every other step a stutter.
  With wagers that bypass the queue the refinement fails, and three theorems say what is left.
  `OverdraftIsWagered` is not inductive, since a commit writes coins that were read before a wager took its
  stake; `OverdraftInv` adds that the coins together with the stakes of the wagers under way (`Backing`)
  cover not only zero but also whatever a running call has read. `ItemsAreWholeCorrect`: the items stay
  unharmed all the same, as only commits write banks. `QueueMovesOnCorrect`: a waiting call stands once in
  its user's line, and the line can move on - the safety half of `CallsAreAnswered`.
* **Prompt** (`PromptTypeCorrect`, `ResolvedMeansConfirmedCorrect`, `CancelIsHonouredCorrect`,
  `PendingIsAwaitedCorrect`).
  `ConfirmingIsFinal`: the last confirm stops the collector, so nothing is added later. `PendingIsAwaited`,
  the safety half of `AnsweredUnlessReplyFails`: a pending prompt is collecting, deleting or replying,
  unless the reply to a cancel threw.
* **Deals** (`DealTypeCorrect`, `DealsKeepSolvent`, `RefusedOnlyByRacesCorrect`, `GoodsOnlyChangeHandsCorrect`,
  `DealsMakeNothingCorrect`).
  `DealInv` says what each check has established (`ChecksLast`) and in which order the legs
  go (`InSequence`); from it, `RefusedOnlyByRaces` for any number of crossing deals.
  What a player owns is a sum over the deals. A step moves one deal (`Alone`), so what a player owns changes
  as his `Share` in that deal does, his bank and what that deal holds of his (`SharesTell`); what each leg
  does to the two shares is `LegHandsOver`. Of a duel it takes `StakesCoverWinnings`: the winnings are no more than
  both stakes. From the pairs to everybody: `DealsMakeNothing`, the total of the coins and of
  each item never grows by a deal. Only there the players have to be finitely many.
* **Giveaways** (`GiveawayTypeCorrect`, `ActiveIsBoundedCorrect`, `EntriesAsToldCorrect`, `GiveawaysKeepSolvent`,
  `GoodsAreKeptCorrect`).
  `EngagedIsBounded` counts the giveaways being started with the open ones. A command is let in beside at most
  `freed` others (`GateLetsIn`), each of which may open one more than the count has seen: hence the limit plus `peak`,
  and the limit itself for whoever was never freed while busy.
  `ClicksAreCurrent` says that on a row that is not tangled the array a leave read is still the array,
  and that whoever is entering is not in it. `GoodsAreKept` balances two sums, over the users' banks and over
  the loot in transit; each step that takes, gives or refunds moves one term of each (`SumChanges`, `SumWith`).
  Loot holds no clue scrolls (`GiveawayAssumption`): they are untradeable, and `giveaway.ts:116-118` refuses
  those. Without that, a refund could lose a clue of which the host has another by now.
* **Sums** (`AtomicBank_proofs`). Deals and giveaways sum with the community modules' `SumFunctionOnSet`, a fold
  whose definition is a recursive function under CHOOSE. Induction over finite sets takes an operator as a parameter, so
  the lemmas (`SumOf`, `SumAt`, `SumGrows`, `SumChanges`, `SumOfFewer`, `SumWith`, `SumHandedOver`) take the
  smallest set that is a counterexample instead: proper inclusion among the subsets of a finite set is well-founded
  (`SmallestSet`), and a well-founded relation has minimal elements in every non-empty set.

Finiteness is assumed of what is counted or summed: commands, calls of `/slayer`, users of parties and giveaways, wagers, deals,
giveaways. There are finitely many of each at any time.

Every invariant and action property of a passing run is a theorem. Only model-checked: the liveness
properties (`FreedWhenQuiet`, `DueTripSettles`, `MinionGetsFree`, `CallsAreAnswered`,
`AnsweredUnlessReplyFails`, `DealsEnd`, `GiveawaysEnd`, `LobbiesSettle`), since fairness and ENABLED are
beyond the prover; of four of them the safety half, that somebody is always about to act, is a theorem
(`NothingOwedMeansFree`, `QueueMovesOn`, `PendingIsAwaited`, `WaitsForAStep`). `BusyUsersAreRefused` and
`CancelledIsNotPaid` are false of the code and only refuted.
No module uses RECURSIVE.

## 6. Limits of the models

* Buttons that the hook answers by itself end at once (`HookAnswers`): they count nothing. Two of them start trips
  or take items all the same, auto farming contract and shooting star (`globalInteractions.ts:415`, 438), beside the
  gate: the facts of `MinionTrips` are about trips started by commands and repeat buttons.
* A typed command whose user cannot be fetched in `preCommand` is left out (`PreCommandThrows` is about
  `runCommand`): what the command library does then is not in the repository. If it runs `postCommand`, that is
  one more unpaid release, and `ChargedCanStart`, which assumes that debts of typed commands are unlocks,
  would need the exception.
* The gate excludes as long as no release was unpaid. `Giveaways` and `SlayerTasks` count the releases that were not
  (`freed`) and bound the damage; `PlayerDeals` does not rely on the gate, as its deals overlap at will; in
  `MinionTrips` the gate itself is there, with its debts.
* `AskToCancel` and `PartyDeparts` are taken to be possible in a few cases the code refuses: trips to the Inferno
  and masses of one (`cancelTaskCommand.ts:16-22`), a mass whose requirements fail after the filter (`mass.ts:141`).
* A trip does not become due before its own insert has returned (`TripFinishes`): trips last minutes.
* Handlers' loot and the loot filter are data; `HandlerPays` counts payments.
* In `PlayerDeals` and `Giveaways` the command's own read of the user's row and its check are one step,
  and any transaction of another command is one of a small set. The check that a payment's recipient is
  not busy is left out, so more payments are possible than in the code.
* In `Giveaways` the draw may refund although entrants exist: they may all have become ironmen
  meanwhile. Moderators' exemption from the limit of ten is left out: the limit is for everybody else.
  Loot holds no coins in the model.
* In `Parties` the black list and bots are left out, and clicks that are only replied to: a leader's join or
  leave, others' cancel or start. They count like the refused clicks that are kept. A trip outlasts the
  instance, so whoever departs stays busy.
* In `SlayerTasks` the error path of a task that is not in its master's list (`slayerUtil.ts:276-286`) is left out: the
  tables would have to have changed since it was assigned. The last task (which bars its monster from being assigned next), the unlocks and the
  multiples of the points for every tenth, fiftieth or hundredth task are left out: they are data. A trip that
  leaves is not over before calls that found the minion free have gone on (`FoundItFree`): trips last minutes,
  those calls a few queries.
* In `PlayerDeals` the tax of a duel is an integer (`duelCommand.ts:105` computes a floating-point share).
* `LogOnlyGrows` is about instances without direct log writes; with them it is false by design of
  `addItemsToCollectionLog`.
* The database is taken to be atomic per query, and a query that throws to have had no effect.

Not modelled, because nothing in it interleaves or all of it is data: skills, experience, gear,
farming, shops, houses, minigames and their random tables, images, web hooks, role and rank tasks,
worker threads. `PROJECT.json` gives the reason for each.

## 7. Plan

Done, in this order: gate; trips; bank; prompt; deals; giveaways; parties; team trips and the moderators'
cancel in `MinionTrips`, with the invariant that ties table and cache; slayer, with its theorems.

1. `SlayerTasks`: the last task and the unlocks; the liveness of an assignment (a paid skip gets its new task).
2. The other writers of coins outside the queue (dice, slots, lucky pick) as users of `UserBank`.
3. The safety halves of the other liveness properties: a due trip is found or will be fetched, a deal that is
   moving has a leg to run, a giveaway that is over is closed or will be drawn.
