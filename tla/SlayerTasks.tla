----------------------------- MODULE SlayerTasks -----------------------------
(***************************************************************************)
(* The slayer tasks, points and block list of one player.                  *)
(*                                                                         *)
(* /slayer does not wait for its autoslay, new-task, skip and block calls  *)
(* (slayer.ts:270-303), and the buttons under a task bypass the gate: they *)
(* overlap with each other, with a purchase and with the handler of the    *)
(* player's trip.  Every await is a step boundary.  A query that fails     *)
(* ends its call or handler there; the death of the process is the same    *)
(* for all of them at once.  That a player has one trip at a time is       *)
(* MinionTrips' concern.                                                   *)
(***************************************************************************)
EXTENDS Integers, FiniteSets

CONSTANTS
  Calls,        \* calls of /slayer that can overlap
  Tasks,        \* the ids of the slayer_tasks table: a bound on its rows
  Monsters,     \* what can be assigned
  TzHaar,       \* the monster whose task the Fight Caves and Inferno complete
  Quantities,   \* how many kills an assignment can ask for
  KillsPerTrip, \* how many kills a trip can be for
  BasePoints,   \* the master's points for a task
  ItemCost,     \* the price of something in the slayer shop
  MaxBlocks,    \* calcMaxBlockedTasks
  StartPoints,
  MaxCalls, MaxTrips, \* bounds: calls and trips
  MaxBroken,    \* bound: failures between a payment and the write of its task
  MaxFreed,     \* bound: how often the player is freed while he is busy
  NoTask, NoMonster

ASSUME SlayerAssumption ==
  /\ TzHaar \in Monsters /\ NoTask \notin Tasks /\ NoMonster \notin Monsters
  /\ Quantities \subseteq Nat \ {0} /\ KillsPerTrip \subseteq Nat \ {0}
  /\ MaxBlocks \in Nat
  /\ BasePoints \in Nat /\ ItemCost \in Nat /\ StartPoints \in Nat /\ MaxBroken \in Nat
  /\ MaxCalls \in Nat /\ MaxTrips \in Nat /\ MaxFreed \in Nat
  /\ IsFiniteSet(Calls)

VARIABLES
  task,     \* slayer_tasks
  points,   \* slayer_points
  streak,   \* slayer_task_streak; PayingStreak stands for any longer one
  blocked,  \* slayer_blocked_ids
  freed,    \* how often he was released from a gate he had not passed
  call,     \* how far each call is, and what it has read
  trip,     \* the player's trip and its handler
  begun,    \* calls and trips so far
  ledger,   \* ghost: the points earned less the points charged, until "raced"
  settled,  \* ghost: how often each task was rewarded or paid off
  doubled,  \* ghost: two calls were about to assign a task at once
  raced,    \* ghost: a skip overlapped something else that writes points
  broken    \* ghost: tasks left open when their payment or reward was made

user == <<points, streak, blocked, freed>>
ghosts == <<ledger, settled, doubled, raced, broken>>
slayerVars == <<task, user, call, trip, begun, ghosts>>

-----------------------------------------------------------------------------
NoRow == [monster |-> NoMonster, quantity |-> 0, remaining |-> 0, skipped |-> FALSE]

\* What getUsersCurrentSlayerInfo looks for.
Open(t) == task[t].remaining > 0 /\ ~task[t].skipped
Unused(t) == task[t] = NoRow

\* A slip: a task that was begun is not found.
CurrentUntouched ==
  LET some == {t \in Tasks : Open(t) /\ task[t].remaining = task[t].quantity}
  IN  IF some = {} THEN {NoTask} ELSE some

\* findFirst: any of them.
CurrentTask == IF \E t \in Tasks : Open(t) THEN {t \in Tasks : Open(t)} ELSE {NoTask}

\* A slip: the flag is forgotten.
SkipByQuantity(t) == [task EXCEPT ![t].remaining = 0]

Skip(t) == [task EXCEPT ![t].skipped = TRUE, ![t].remaining = 0]

Idle == [op |-> "none", at |-> "idle", new |-> FALSE, task |-> NoTask,
         points |-> 0, blocked |-> {}]
NoTrip == [at |-> "idle", kind |-> "kill", monster |-> NoMonster, kills |-> 0,
           task |-> NoTask, left |-> 0, streak |-> 0]

MinionIsBusy == trip.at # "idle"

\* calculateSlayerPoints: from the fifth task on; the masters' multiples for
\* every tenth, fiftieth ... task are left out.
PayingStreak == 5
PointsFor(n) == IF n < PayingStreak THEN 0 ELSE BasePoints
NextStreak == IF streak < PayingStreak THEN streak + 1 ELSE PayingStreak

PaysOff(op) == op \in {"skip", "block"}
Cost(op) == IF op = "block" THEN 100 ELSE 30

SlayerInit ==
  /\ task = [t \in Tasks |-> NoRow]
  /\ points = StartPoints /\ streak = PayingStreak /\ blocked = {}
  /\ freed = 0
  /\ call = [c \in Calls |-> Idle]
  /\ trip = NoTrip
  /\ begun = [calls |-> 0, trips |-> 0]
  /\ ledger = StartPoints
  /\ settled = [t \in Tasks |-> 0]
  /\ doubled = FALSE /\ raced = FALSE /\ broken = {}

-----------------------------------------------------------------------------
At(c, step) == call[c].at = step
MoveTo(c, step) == call' = [call EXCEPT ![c].at = step]
Ends(c) == call' = [call EXCEPT ![c] = Idle]

\* mUserFetch, as far as the call goes on to use the user it read.
Fetches(c, op, new) ==
  call' = [call EXCEPT ![c] =
             [op |-> op, at |-> "fetched", new |-> new, task |-> NoTask,
              points  |-> IF PaysOff(op) THEN points ELSE 0,
              blocked |-> IF op \in {"skip", "buy"} THEN {} ELSE blocked]]

WritesPoints(c) == PaysOff(call[c].op) \/ (call[c].op = "buy" /\ At(c, "fetched"))
Rewarding == trip.at \notin {"idle", "out"}

\* A call that begins now overlaps with other writers of the points, and one
\* of them is a skip, which writes back what it has read.
BeginsToRace(op) ==
  \/ PaysOff(op) /\ (Rewarding \/ \E d \in Calls : WritesPoints(d))
  \/ op = "buy" /\ \E d \in Calls : PaysOff(call[d].op)

(* /slayer new_task (from Turael or not), autoslay without a task, manage  *)
(* skip and block, typed or from a button: nothing waits for them.         *)
BeginCall(c, op, new) ==
  /\ At(c, "idle")
  /\ begun.calls < MaxCalls
  /\ begun' = [begun EXCEPT !.calls = @ + 1]
  /\ Fetches(c, op, new)
  /\ raced' = (raced \/ BeginsToRace(op))
  /\ UNCHANGED <<task, user, trip, ledger, settled, doubled, broken>>

\* A slip: the command does not wait for its purchase.
BeginUngated(c, op) ==
  /\ op = "buy" => points >= ItemCost
  /\ BeginCall(c, op, FALSE)

(* A Repeat button of a busy player is refused, but runCommand runs        *)
(* postCommand all the same; a second later the counter is lowered for a   *)
(* command that never raised it (CommandGate's debt).                      *)
Frees ==
  /\ freed < MaxFreed
  /\ freed' = freed + 1
  /\ UNCHANGED <<task, points, streak, blocked, call, trip, begun, ghosts>>

\* Purchases and unblocking are awaited by their command, which is gated: one
\* at a time, and one more for each time that the player was freed while busy.
GateLetsIn == Cardinality({c \in Calls : call[c].op \in {"buy", "unblock"}}) <= freed

(* The command up to its payment or its write.                             *)
BeginGated(c, op) ==
  /\ GateLetsIn
  /\ op = "buy" => points >= ItemCost
  /\ BeginCall(c, op, FALSE)

\* Calls that will create a task unless they are stopped.
Assigning(c) == call[c].at \in {"asked", "reset", "assign"}

\* slayerNewTaskCommand, from the read of the current task up to its next await.
FindsForNew(c, t) ==
  /\ call[c].op \in {"new", "turael"} /\ At(c, "fetched")
  /\ t \in CurrentTask
  /\ \/ (MinionIsBusy \/ (t # NoTask /\ call[c].op = "new")) /\ Ends(c)
     \/ /\ ~MinionIsBusy /\ t # NoTask /\ call[c].op = "turael"
        /\ \/ call' = [call EXCEPT ![c].at = "asked", ![c].task = t]
           \/ Ends(c)  \* Turael assigns that monster himself
     \/ ~MinionIsBusy /\ t = NoTask /\ call' = [call EXCEPT ![c].at = "assign", ![c].op = "new"]
  /\ doubled' = (doubled \/ (Assigning(c)' /\ \E d \in Calls \ {c} : Assigning(d)))
  /\ UNCHANGED <<task, user, trip, ledger, settled, raced, broken, begun>>

(* The prompt of a Turael skip is confirmed, up to 15 seconds later; the   *)
(* minion may have left meanwhile.                                         *)
TuraelSkips(c) ==
  /\ At(c, "asked")
  /\ task' = Skip(call[c].task)
  /\ MoveTo(c, "reset")
  /\ UNCHANGED <<user, trip, begun, ghosts>>

TuraelDeclined(c) ==
  /\ At(c, "asked")
  /\ Ends(c)
  /\ UNCHANGED <<task, user, trip, begun, ghosts>>

ResetsStreak(c) ==
  /\ At(c, "reset")
  /\ streak' = 0
  /\ MoveTo(c, "assign")
  /\ UNCHANGED <<task, points, blocked, freed, trip, begun, ghosts>>

(* assignNewSlayerTask: any monster that is not blocked, as far as the     *)
(* user that was fetched knows.  slayer_last_task, which bars the one that *)
(* was assigned last, is left out.  The task may be extended afterwards.   *)
AssignNewTask(c, t, m, n) ==
  /\ At(c, "assign")
  /\ Unused(t) /\ m \notin call[c].blocked
  /\ task' = [task EXCEPT ![t] = [monster |-> m, quantity |-> n, remaining |-> n, skipped |-> FALSE]]
  /\ \/ Ends(c)
     \/ call[c].op = "new" /\ call' = [call EXCEPT ![c].at = "extend", ![c].task = t, ![c].blocked = {}]
  /\ UNCHANGED <<user, trip, begun, ghosts>>

Extends(c, n) ==
  /\ At(c, "extend")
  /\ task' = [task EXCEPT ![call[c].task].quantity = n, ![call[c].task].remaining = n]
  /\ Ends(c)
  /\ UNCHANGED <<user, trip, begun, ghosts>>

-----------------------------------------------------------------------------
\* A slip: one block too many.
HasBlocksLeftOff(c) == Cardinality(call[c].blocked) <= MaxBlocks

HasBlocksLeft(c) == Cardinality(call[c].blocked) < MaxBlocks

\* slayerSkipTaskCommand, from the read of the task up to its first write.
FindsForSkip(c, t) ==
  /\ PaysOff(call[c].op) /\ At(c, "fetched")
  /\ t \in CurrentTask
  /\ \/ MinionIsBusy /\ Ends(c)
     \/ ~MinionIsBusy /\ t = NoTask /\ IF call[c].new THEN Fetches(c, "new", FALSE) ELSE Ends(c)
     \/ /\ ~MinionIsBusy /\ t # NoTask
        /\ IF (call[c].op = "block" => HasBlocksLeft(c)) /\ call[c].points >= Cost(call[c].op)
             THEN call' = [call EXCEPT ![c].at = "charge", ![c].task = t]
             ELSE Ends(c)
  /\ UNCHANGED <<task, user, trip, begun, ghosts>>

Enter(amount) == ledger' = IF raced THEN 0 ELSE ledger + amount

Settle(t) == settled' = [settled EXCEPT ![t] = IF @ < 2 THEN @ + 1 ELSE @]

(* The points that were read, less the cost, are written; with them the    *)
(* block list that was read and the task's monster.                        *)
PaysForSkip(c) ==
  LET t == call[c].task IN
  /\ At(c, "charge")
  /\ points' = call[c].points - Cost(call[c].op)
  /\ blocked' = IF call[c].op = "block" THEN call[c].blocked \cup {task[t].monster} ELSE blocked
  /\ Enter(-Cost(call[c].op))
  /\ Settle(t)
  /\ call' = [call EXCEPT ![c].at = "drop", ![c].points = 0, ![c].blocked = {}]
  /\ UNCHANGED <<task, streak, freed, trip, doubled, raced, broken, begun>>

\* A slip: the task is marked only if no new one is wanted.
DropsUnlessNew(c) ==
  /\ At(c, "drop")
  /\ IF call[c].new THEN Fetches(c, "new", FALSE) /\ task' = task
                    ELSE Ends(c) /\ task' = Skip(call[c].task)
  /\ UNCHANGED <<user, trip, begun, ghosts>>

\* The task is marked; then a new one is asked for.
DropsTask(c) ==
  /\ At(c, "drop")
  /\ task' = Skip(call[c].task)
  /\ IF call[c].new THEN Fetches(c, "new", FALSE) ELSE Ends(c)
  /\ UNCHANGED <<user, trip, begun, ghosts>>

(* slayerShopBuyCommand takes the points off whatever there are by now: an *)
(* unlock comes with them, an item is added to the bank afterwards.        *)
PaysInShop(c) ==
  /\ call[c].op = "buy" /\ At(c, "fetched")
  /\ points' = points - ItemCost
  /\ Enter(-ItemCost)
  /\ Ends(c) \/ MoveTo(c, "give")
  /\ UNCHANGED <<task, streak, blocked, freed, trip, settled, doubled, raced, broken, begun>>

GivesItem(c) ==
  /\ At(c, "give")
  /\ Ends(c)
  /\ UNCHANGED <<task, user, trip, begun, ghosts>>

\* slayerUnblockCommand writes the rest of the list it has read.
Unblocks(c, m) ==
  /\ call[c].op = "unblock" /\ At(c, "fetched")
  /\ m \in call[c].blocked
  /\ blocked' = call[c].blocked \ {m}
  /\ Ends(c)
  /\ UNCHANGED <<task, points, streak, freed, trip, begun, ghosts>>

Breaks(t, midway) ==
  IF midway THEN /\ Cardinality(broken) < MaxBroken /\ t \notin broken
                 /\ broken' = broken \cup {t}
            ELSE broken' = broken

(* A query fails: the call is over.  A task that was paid for but not      *)
(* marked stays; an item that was paid for is not given.                   *)
CallFails(c) ==
  /\ call[c].at \in {"fetched", "reset", "assign", "extend", "charge", "drop", "give"}
  /\ Breaks(call[c].task, At(c, "drop"))
  /\ Ends(c)
  /\ UNCHANGED <<task, user, trip, ledger, settled, doubled, raced, begun>>

-----------------------------------------------------------------------------
(* A trip: some kills of a monster, no more than its task asks for; or an  *)
(* attempt at the Fight Caves or the Inferno.                              *)
StartsTrip(t, kind, m, n) ==
  /\ ~MinionIsBusy
  /\ begun.trips < MaxTrips
  /\ begun' = [begun EXCEPT !.trips = @ + 1]
  /\ t \in CurrentTask
  /\ kind = "cape" => n = 1 /\ m = TzHaar
  /\ kind = "kill" /\ t # NoTask => (task[t].monster = m => n <= task[t].remaining)
  /\ trip' = [NoTrip EXCEPT !.at = "out", !.kind = kind, !.monster = m, !.kills = n]
  /\ UNCHANGED <<task, user, call, ghosts>>

\* These calls found the minion free a few queries ago: a trip that left
\* since then is not over yet.
FoundItFree(c) ==
  PaysOff(call[c].op) \/ call[c].op = "new"
    => call[c].at \notin {"charge", "drop", "assign", "extend"}

\* Some monsters count for more than one kill.
KillsCount == {1, 2}

OnTask(t) ==
  /\ t # NoTask
  /\ task[t].monster = trip.monster
  /\ trip.kind = "cape" => task[t].remaining = task[t].quantity

\* What is left of the task after the trip.
Remaining(t, each) ==
  LET slain == IF trip.kills < task[t].remaining THEN trip.kills ELSE task[t].remaining
      left  == task[t].remaining - slain * each
  IN  IF trip.kind = "cape" \/ left < 0 THEN 0 ELSE left

\* What the handler goes on to do about the task.
Outcomes(t, each) ==
  IF trip.kind = "cape" THEN {"finished", "died"}
  ELSE IF Remaining(t, each) = 0 THEN {"finished"} ELSE {"counted"}

(* isOnSlayerTask, when the trip is over.  An attempt at the Inferno that  *)
(* began on a task counts for it only if the player had been there before. *)
HandlerFindsTask(t, each) ==
  /\ trip.at = "out"
  /\ \A c \in Calls : FoundItFree(c)
  /\ t \in CurrentTask
  /\ \/ /\ OnTask(t)
        /\ \E step \in Outcomes(t, each) :
             trip' = [NoTrip EXCEPT !.at = step, !.kind = trip.kind, !.task = t,
                                    !.left = Remaining(t, each)]
     \/ /\ ~OnTask(t) \/ trip.kind = "cape"
        /\ trip' = [NoTrip EXCEPT !.at = "over"]
  /\ raced' = (raced \/ \E c \in Calls : PaysOff(call[c].op))
  /\ UNCHANGED <<task, user, call, ledger, settled, doubled, broken, begun>>

HandlerRaisesStreak ==
  /\ trip.at = "finished"
  /\ streak' = NextStreak
  /\ trip' = [trip EXCEPT !.at = "raised", !.streak = NextStreak]
  /\ UNCHANGED <<task, points, blocked, freed, call, begun, ghosts>>

HandlerGivesPoints ==
  /\ trip.at = "raised"
  /\ points' = points + PointsFor(trip.streak)
  /\ Enter(PointsFor(trip.streak))
  /\ Settle(trip.task)
  /\ trip' = [trip EXCEPT !.at = "counted", !.streak = 0]
  /\ UNCHANGED <<task, streak, blocked, freed, call, doubled, raced, broken, begun>>

\* A slip: what is left is written for tasks that go on only.
HandlerWritesOpen ==
  /\ trip.at = "counted"
  /\ task' = IF trip.left > 0 THEN [task EXCEPT ![trip.task].remaining = trip.left] ELSE task
  /\ trip' = [NoTrip EXCEPT !.at = "over"]
  /\ UNCHANGED <<user, call, begun, ghosts>>

\* What is left is written whatever the row says by now; the Inferno writes
\* "skipped: false" as well.
HandlerWritesTask ==
  /\ trip.at = "counted"
  /\ \E skipped \in {task[trip.task].skipped} \cup (IF trip.kind = "cape" THEN {FALSE} ELSE {}) :
       task' = [task EXCEPT ![trip.task].remaining = trip.left, ![trip.task].skipped = skipped]
  /\ trip' = [NoTrip EXCEPT !.at = "over"]
  /\ UNCHANGED <<user, call, begun, ghosts>>

\* A failed attempt at the caves cancels the task.
HandlerCancelsTask ==
  /\ trip.at = "died"
  /\ task' = Skip(trip.task)
  /\ trip' = [NoTrip EXCEPT !.at = "over"]
  /\ UNCHANGED <<user, call, begun, ghosts>>

HandlerEnds ==
  /\ trip.at = "over"
  /\ trip' = NoTrip
  /\ UNCHANGED <<task, user, call, begun, ghosts>>

(* A query fails, or the process dies: the activity is marked completed    *)
(* and not handled again.                                                  *)
HandlerFails ==
  /\ trip.at \in {"finished", "raised", "counted", "died"}
  /\ Breaks(trip.task, trip.at = "counted" /\ settled[trip.task] > 0)
  /\ trip' = NoTrip
  /\ UNCHANGED <<task, user, call, ledger, settled, doubled, raced, begun>>

-----------------------------------------------------------------------------
CallSteps(c) ==
  \/ \E op \in {"new", "turael"} : BeginCall(c, op, FALSE)
  \/ \E op \in {"skip", "block"}, new \in BOOLEAN : BeginCall(c, op, new)
  \/ \E op \in {"buy", "unblock"} : BeginGated(c, op)
  \/ \E t \in Tasks \cup {NoTask} : FindsForNew(c, t) \/ FindsForSkip(c, t)
  \/ TuraelSkips(c) \/ TuraelDeclined(c) \/ ResetsStreak(c)
  \/ \E t \in Tasks, m \in Monsters, n \in Quantities : AssignNewTask(c, t, m, n)
  \/ \E n \in Quantities : Extends(c, n)
  \/ PaysForSkip(c) \/ DropsTask(c)
  \/ PaysInShop(c) \/ GivesItem(c)
  \/ \E m \in Monsters : Unblocks(c, m)
  \/ CallFails(c)

TripSteps ==
  \/ \E t \in Tasks \cup {NoTask}, kind \in {"kill", "cape"}, m \in Monsters, n \in KillsPerTrip :
       StartsTrip(t, kind, m, n)
  \/ \E t \in Tasks \cup {NoTask}, each \in KillsCount : HandlerFindsTask(t, each)
  \/ HandlerRaisesStreak \/ HandlerGivesPoints
  \/ HandlerWritesTask \/ HandlerCancelsTask
  \/ HandlerEnds \/ HandlerFails

SlayerNext == (\E c \in Calls : CallSteps(c)) \/ TripSteps \/ Frees

SlayerSpec == SlayerInit /\ [][SlayerNext]_slayerVars

-----------------------------------------------------------------------------
(* A player has one task: findFirst finds no other.  Two come about only   *)
(* when two calls were about to assign at once (slayerUtil.ts:254-263,     *)
(* slayerTaskCommand.ts:292, 343).                                         *)
OneOpenTask == ~doubled => \A s, t \in Tasks : Open(s) /\ Open(t) => s = t

(* No points appear or disappear unless a skip overlapped a purchase,      *)
(* another skip or the handler of a trip: it writes back what it read      *)
(* before (slayerTaskCommand.ts:425-443).  Nor are points spent twice, but *)
(* by as many purchases as the gate let overlap (slayerShopCommand.ts:40). *)
PointsAreKept ==
  ~raced => points = ledger /\ points >= -(freed * ItemCost)

(* A task is rewarded once or paid off once, not both, unless a skip       *)
(* overlapped or the writes after the payment failed.                      *)
SettledOnce == ~raced => \A t \in Tasks : settled[t] > 1 => t \in broken

(* A task that was rewarded or paid off is closed, whatever overlaps, once *)
(* the call or handler at work on it has written it; unless that failed    *)
(* (monsterActivity.ts:122-151, slayerTaskCommand.ts:443-452).             *)
SettledIsClosed ==
  \A t \in Tasks : settled[t] > 0 /\ Open(t) =>
    \/ t \in broken
    \/ \E c \in Calls : At(c, "drop") /\ call[c].task = t
    \/ trip.at = "counted" /\ trip.task = t

(* The block list stays within its limit, although every call writes back  *)
(* the whole list it has read.                                             *)
BlocksWithinLimit == Cardinality(blocked) <= MaxBlocks

(* A task that is over is not opened again by a late write of its          *)
(* remaining kills.                                                        *)
ClosedStaysClosed ==
  [][\A t \in Tasks : ~Unused(t) /\ ~Open(t) => ~Open(t)']_slayerVars
=============================================================================
