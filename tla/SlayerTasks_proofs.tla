-------------------------- MODULE SlayerTasks_proofs --------------------------
(***************************************************************************)
(* The properties of SlayerTasks hold for any number of calls, rows,       *)
(* monsters and trips, whatever the costs of the shop and the limit of the *)
(* block list.  The inductive invariant says what each call and the        *)
(* handler are about to write, and who can be at work beside them.         *)
(***************************************************************************)
EXTENDS SlayerTasks, FiniteSetTheorems, TLAPS

(* The rows, and how far calls and the handler are.                        *)
TaskRow == [monster : Monsters \cup {NoMonster}, quantity : Nat, remaining : Nat, skipped : BOOLEAN]

Ops == {"none", "new", "turael", "skip", "block", "buy", "unblock"}
CallPhases == {"idle", "fetched", "asked", "reset", "assign", "extend", "charge", "drop", "give"}
CallState ==
  [op : Ops, at : CallPhases, new : BOOLEAN, task : Tasks \cup {NoTask}, points : Int,
   blocked : SUBSET Monsters]

TripStages == {"idle", "out", "finished", "raised", "counted", "died", "over"}
TripState ==
  [at : TripStages, kind : {"kill", "cape"}, monster : Monsters \cup {NoMonster}, kills : Nat,
   task : Tasks \cup {NoTask}, left : Nat, streak : 0..PayingStreak]

SlayerTypeOK ==
  /\ task \in [Tasks -> TaskRow]
  /\ points \in Int /\ streak \in 0..PayingStreak /\ blocked \subseteq Monsters
  /\ freed \in Nat
  /\ call \in [Calls -> CallState]
  /\ trip \in TripState
  /\ begun \in [calls : 0..MaxCalls, trips : 0..MaxTrips]
  /\ ledger \in Int
  /\ settled \in [Tasks -> 0..2]
  /\ doubled \in BOOLEAN /\ raced \in BOOLEAN /\ broken \subseteq Tasks

(* What a call is about to do tells what it was called for, and its task   *)
(* exists.                                                                 *)
CallShape(c) ==
  LET k == call[c] IN
  /\ k.at \in {"asked", "reset"} => k.op = "turael"
  /\ k.at = "assign" => k.op \in {"new", "turael"}
  /\ k.at = "extend" => k.op = "new"
  /\ k.at \in {"charge", "drop"} => PaysOff(k.op)
  /\ k.op = "unblock" => k.at = "fetched"
  /\ k.op = "buy" => k.at \in {"fetched", "give"}
  /\ k.at = "give" => k.op = "buy"
  /\ k.at = "idle" <=> k.op = "none"
  /\ k.at \in {"asked", "extend", "charge", "drop"} => k.task \in Tasks /\ ~Unused(k.task)

AtWork == trip.at \in {"finished", "raised", "counted", "died"}

ShapesInv ==
  /\ \A t \in Tasks : ~Unused(t) => task[t].monster \in Monsters
  /\ \A t \in Tasks : Unused(t) => settled[t] = 0
  /\ \A c \in Calls : CallShape(c)
  /\ AtWork => trip.task \in Tasks /\ ~Unused(trip.task)

(* While a handler is at work, no call that found the minion free is.      *)
MinionOut == Rewarding => \A c \in Calls : FoundItFree(c)

(* What is about to be written does not open a task again: one that is     *)
(* extended or that some kills are left of is open, or was skipped.        *)
StillClosed(t) == task[t].skipped \/ task[t].remaining > 0

WritesInv ==
  /\ \A c \in Calls : At(c, "extend") => StillClosed(call[c].task)
  /\ trip.at \in {"finished", "raised", "counted"} /\ trip.left > 0
       => trip.kind = "kill" /\ StillClosed(trip.task)

(* A task that is about to be rewarded was neither rewarded nor paid off.  *)
Unsettled(t) == settled[t] = 0 \/ t \in broken

RewardInv ==
  /\ trip.at \in {"finished", "raised"} => trip.left = 0 /\ Unsettled(trip.task)
  /\ trip.at = "counted" => trip.left = 0 \/ Unsettled(trip.task)

(* Calls that are about to assign a task find none when they do.           *)
AssignInv ==
  ~doubled =>
    /\ \A c, d \in Calls : Assigning(c) /\ Assigning(d) => c = d
    /\ \A c \in Calls :
         /\ At(c, "asked") => \A t \in Tasks : Open(t) => t = call[c].task
         /\ call[c].at \in {"reset", "assign"} => \A t \in Tasks : ~Open(t)

(* Without a race nobody else writes points while a skip is under way.     *)
RaceInv ==
  ~raced =>
    /\ \A c, d \in Calls : PaysOff(call[c].op) /\ WritesPoints(d) => c = d
    /\ Rewarding => \A c \in Calls : ~PaysOff(call[c].op)
    /\ \A c \in Calls :
         /\ PaysOff(call[c].op) /\ call[c].at \in {"fetched", "charge"} => call[c].points = points
         /\ At(c, "charge") => call[c].points >= Cost(call[c].op) /\ Unsettled(call[c].task)

(* The purchases under way can all be paid, but for one of each time that  *)
(* the player was freed.                                                   *)
Buying == {c \in Calls : call[c].op = "buy" /\ At(c, "fetched")}

BuyInv == ~raced => points + freed * ItemCost >= Cardinality(Buying) * ItemCost

\* Lists of blocked monsters that were within the limit.
FewBlocks(S) == IsFiniteSet(S) /\ S \subseteq Monsters /\ Cardinality(S) <= MaxBlocks

BlockInv ==
  /\ FewBlocks(blocked)
  /\ \A c \in Calls : FewBlocks(call[c].blocked)
  /\ \A c \in Calls : At(c, "charge") /\ call[c].op = "block" => HasBlocksLeft(c)

-----------------------------------------------------------------------------
(* Types.                                                                  *)

\* The steps but for the player's being freed, which changes nothing else.
Moves == (\E c \in Calls : CallSteps(c)) \/ TripSteps

LEMMA SlayerInitTyped == SlayerInit => SlayerTypeOK
<1> SUFFICES ASSUME SlayerInit PROVE SlayerTypeOK
  OBVIOUS
<1>1. NoRow \in TaskRow /\ Idle \in CallState /\ NoTrip \in TripState /\ PayingStreak \in 0..PayingStreak
  BY DEF NoRow, TaskRow, Idle, CallState, Ops, CallPhases, NoTrip, TripState, TripStages, PayingStreak
<1>2. PayingStreak \in 0..PayingStreak /\ 0 \in 0..MaxCalls /\ 0 \in 0..MaxTrips /\ StartPoints \in Int
  BY SlayerAssumption DEF PayingStreak
<1>3. begun \in [calls : 0..MaxCalls, trips : 0..MaxTrips]
  BY <1>2 DEF SlayerInit
<1>4. task \in [Tasks -> TaskRow] /\ call \in [Calls -> CallState] /\ settled \in [Tasks -> 0..2]
  BY <1>1 DEF SlayerInit
<1> QED
  BY <1>1, <1>2, <1>3, <1>4 DEF SlayerInit, SlayerTypeOK

\* What a call read is typed as it is.
LEMMA FetchesTyped ==
  ASSUME SlayerTypeOK, NEW c \in Calls, NEW op \in Ops, NEW new \in BOOLEAN, Fetches(c, op, new)
  PROVE  call' \in [Calls -> CallState]
BY DEF SlayerTypeOK, Fetches, CallState, CallPhases

\* So is one that moves on or ends.
LEMMA MovesTyped ==
  ASSUME SlayerTypeOK, NEW c \in Calls
  PROVE  /\ call[c] \in CallState
         /\ \A step \in CallPhases : [call EXCEPT ![c].at = step] \in [Calls -> CallState]
         /\ [call EXCEPT ![c] = Idle] \in [Calls -> CallState]
<1>1. call \in [Calls -> CallState] /\ call[c] \in CallState
  BY DEF SlayerTypeOK
<1>2. Idle \in CallState
  BY DEF CallState, CallPhases, Idle, Ops
<1>3. \A step \in CallPhases : [call[c] EXCEPT !.at = step] \in CallState
  BY <1>1 DEF CallState
<1> HIDE DEF CallState
<1> QED
  BY <1>1, <1>2, <1>3

LEMMA MoveToTyped ==
  ASSUME SlayerTypeOK, NEW c \in Calls, NEW step \in CallPhases, MoveTo(c, step)
  PROVE  call' \in [Calls -> CallState]
BY MovesTyped DEF MoveTo

LEMMA EndsTyped ==
  ASSUME SlayerTypeOK, NEW c \in Calls, Ends(c)
  PROVE  call' \in [Calls -> CallState]
BY MovesTyped DEF Ends

LEMMA FoundTyped ==
  ASSUME SlayerTypeOK, NEW c \in Calls, NEW step \in CallPhases, NEW t \in Tasks \cup {NoTask},
         call' = [call EXCEPT ![c].at = step, ![c].task = t]
  PROVE  call' \in [Calls -> CallState]
<1>1. [call[c] EXCEPT !.at = step, !.task = t] \in CallState
  BY MovesTyped DEF CallState
<1>2. \A d \in Calls : call'[d] \in CallState
  BY <1>1, MovesTyped DEF SlayerTypeOK
<1> QED
  BY <1>2 DEF SlayerTypeOK

\* The ghost counts to two.
LEMMA SettleTyped ==
  ASSUME SlayerTypeOK, NEW t, Settle(t)
  PROVE  settled' \in [Tasks -> 0..2]
<1>1. \A s \in Tasks : settled[s] \in 0..2 /\ (settled[s] < 2 => settled[s] + 1 \in 0..2)
  BY DEF SlayerTypeOK
<1>2. settled' = [s \in Tasks |-> IF s = t THEN IF settled[t] < 2 THEN settled[t] + 1 ELSE settled[t]
                                            ELSE settled[s]]
  BY DEF Settle, SlayerTypeOK
<1> QED
  BY <1>1, <1>2

LEMMA SkipTyped ==
  ASSUME SlayerTypeOK, NEW t
  PROVE  Skip(t) \in [Tasks -> TaskRow]
BY DEF SlayerTypeOK, Skip, TaskRow

\* The steps of calls and of trips keep the types.
LEMMA CallsTyped ==
  ASSUME SlayerTypeOK, ShapesInv, NEW c \in Calls, CallSteps(c)
  PROVE  SlayerTypeOK'
<1> USE DEF user, ghosts
<1>0. call[c] \in CallState /\ call \in [Calls -> CallState]
  BY MovesTyped DEF SlayerTypeOK
<1>1. ASSUME NEW op \in Ops, NEW new \in BOOLEAN, BeginCall(c, op, new)
      PROVE  SlayerTypeOK'
  <2>1. call' \in [Calls -> CallState]
    BY <1>1, FetchesTyped DEF BeginCall
  <2>2. begun' \in [calls : 0..MaxCalls, trips : 0..MaxTrips]
    BY <1>1, SlayerAssumption DEF BeginCall, SlayerTypeOK
  <2>3. raced' \in BOOLEAN
    BY <1>1 DEF BeginCall, BeginsToRace, SlayerTypeOK
  <2> QED
    BY <1>1, <2>1, <2>2, <2>3 DEF BeginCall, SlayerTypeOK
<1>2. ASSUME NEW op \in {"buy", "unblock"}, BeginGated(c, op)
      PROVE  SlayerTypeOK'
  BY <1>1, <1>2 DEF BeginGated, Ops
<1>3. ASSUME NEW t \in Tasks \cup {NoTask}, FindsForNew(c, t)
      PROVE  SlayerTypeOK'
  <2>1. call' \in [Calls -> CallState]
    <3>1. CASE Ends(c)
      BY <3>1, EndsTyped
    <3>2. CASE call' = [call EXCEPT ![c].at = "asked", ![c].task = t]
      BY <3>2, FoundTyped DEF CallPhases
    <3>3. CASE call' = [call EXCEPT ![c].at = "assign", ![c].op = "new"]
      <4>1. [call[c] EXCEPT !.at = "assign", !.op = "new"] \in CallState
        BY <1>0 DEF CallState, CallPhases, Ops
      <4>2. \A d \in Calls : call'[d] \in CallState
        BY <1>0, <3>3, <4>1
      <4> QED
        BY <1>0, <3>3, <4>2
    <3> QED
      BY <1>3, <3>1, <3>2, <3>3 DEF FindsForNew
  <2>2. doubled' \in BOOLEAN
    BY <1>3 DEF FindsForNew, Assigning, SlayerTypeOK
  <2> QED
    BY <1>3, <2>1, <2>2 DEF FindsForNew, SlayerTypeOK
<1>4. ASSUME NEW t \in Tasks \cup {NoTask}, FindsForSkip(c, t)
      PROVE  SlayerTypeOK'
  <2>1. CASE Fetches(c, "new", FALSE)
    BY <1>4, <2>1, FetchesTyped DEF FindsForSkip, SlayerTypeOK, Ops
  <2>2. CASE Ends(c) \/ call' = [call EXCEPT ![c].at = "charge", ![c].task = t]
    <3>1. call' \in [Calls -> CallState]
      BY <2>2, EndsTyped, FoundTyped DEF CallPhases
    <3> QED
      BY <1>4, <3>1 DEF FindsForSkip, SlayerTypeOK
  <2> QED
    BY <1>4, <2>1, <2>2 DEF FindsForSkip
<1>5. CASE TuraelSkips(c) \/ TuraelDeclined(c)
  <2>1. call' \in [Calls -> CallState]
    BY <1>5, MoveToTyped, EndsTyped DEF TuraelSkips, TuraelDeclined, CallPhases
  <2>2. task' \in [Tasks -> TaskRow]
    BY <1>5, SkipTyped DEF TuraelSkips, TuraelDeclined, SlayerTypeOK
  <2> QED
    BY <1>5, <2>1, <2>2 DEF TuraelSkips, TuraelDeclined, SlayerTypeOK
<1>6. CASE ResetsStreak(c)
  <2>1. call' \in [Calls -> CallState]
    BY <1>6, MoveToTyped DEF ResetsStreak, CallPhases
  <2>2. 0 \in 0..PayingStreak
    BY DEF PayingStreak
  <2> QED
    BY <1>6, <2>1, <2>2 DEF ResetsStreak, SlayerTypeOK
<1>7. ASSUME NEW t \in Tasks, NEW m \in Monsters, NEW n \in Quantities, AssignNewTask(c, t, m, n)
      PROVE  SlayerTypeOK'
  <2>1. task' \in [Tasks -> TaskRow]
    BY <1>7, SlayerAssumption DEF AssignNewTask, SlayerTypeOK, TaskRow
  <2>2. call' \in [Calls -> CallState]
    <3>1. CASE Ends(c)
      BY <3>1, EndsTyped
    <3>2. CASE call' = [call EXCEPT ![c].at = "extend", ![c].task = t, ![c].blocked = {}]
      <4>1. [call[c] EXCEPT !.at = "extend", !.task = t, !.blocked = {}] \in CallState
        BY <1>0 DEF CallState, CallPhases
      <4>2. \A d \in Calls : call'[d] \in CallState
        BY <1>0, <3>2, <4>1
      <4> QED
        BY <1>0, <3>2, <4>2
    <3> QED
      BY <1>7, <3>1, <3>2 DEF AssignNewTask
  <2> QED
    BY <1>7, <2>1, <2>2 DEF AssignNewTask, SlayerTypeOK
<1>8. ASSUME NEW n \in Quantities, Extends(c, n)
      PROVE  SlayerTypeOK'
  <2>1. task' \in [Tasks -> TaskRow]
    <3>1. \A t \in Tasks : [task[t] EXCEPT !.quantity = n, !.remaining = n] \in TaskRow
      BY SlayerAssumption DEF SlayerTypeOK, TaskRow
    <3>2. task \in [Tasks -> TaskRow] /\ task' = [task EXCEPT ![call[c].task] = [@ EXCEPT !.quantity = n, !.remaining = n]]
      BY <1>8 DEF Extends, SlayerTypeOK
    <3> QED
      BY <3>1, <3>2
  <2> QED
    BY <1>8, <2>1, MovesTyped DEF Extends, Ends, SlayerTypeOK
<1>9. CASE PaysForSkip(c)
  <2>1. call' \in [Calls -> CallState]
    <3>1. \A p \in Int : [call[c] EXCEPT !.at = "drop", !.points = p, !.blocked = {}] \in CallState
      BY <1>0 DEF CallState, CallPhases
    <3>2. [call[c] EXCEPT !.at = "drop", !.points = 0, !.blocked = {}] \in CallState
      <4> HIDE DEF CallState
      <4>1. 0 \in Int
        OBVIOUS
      <4> QED
        BY <3>1, <4>1, Zenon
    <3>3. \A d \in Calls : call'[d] \in CallState
      BY <1>0, <1>9, <3>2 DEF PaysForSkip
    <3> QED
      BY <1>0, <1>9, <3>3 DEF PaysForSkip
  <2>2. points' \in Int /\ ledger' \in Int
    BY <1>0, <1>9 DEF PaysForSkip, Enter, Cost, CallState, SlayerTypeOK
  <2>3. settled' \in [Tasks -> 0..2]
    BY <1>9, SettleTyped DEF PaysForSkip
  <2>4. blocked' \subseteq Monsters
    <3>1. call[c].blocked \subseteq Monsters /\ task[call[c].task].monster \in Monsters
      BY <1>0, <1>9 DEF PaysForSkip, At, ShapesInv, CallShape, CallState
    <3> QED
      BY <1>9, <3>1 DEF PaysForSkip, SlayerTypeOK
  <2> QED
    BY <1>9, <2>1, <2>2, <2>3, <2>4 DEF PaysForSkip, SlayerTypeOK
<1>10. CASE DropsTask(c)
  <2>1. call' \in [Calls -> CallState]
    BY <1>10, FetchesTyped, MovesTyped DEF DropsTask, Ends, Ops
  <2> QED
    BY <1>10, <2>1, SkipTyped DEF DropsTask, SlayerTypeOK
<1>11. CASE PaysInShop(c)
  <2>1. call' \in [Calls -> CallState]
    BY <1>11, EndsTyped, MoveToTyped DEF PaysInShop, CallPhases
  <2>2. points' \in Int /\ ledger' \in Int
    BY <1>11, SlayerAssumption DEF PaysInShop, Enter, SlayerTypeOK
  <2> QED
    BY <1>11, <2>1, <2>2 DEF PaysInShop, SlayerTypeOK
<1>12. ASSUME NEW m \in Monsters, Unblocks(c, m)
       PROVE  SlayerTypeOK'
  <2>1. blocked' \subseteq Monsters
    BY <1>0, <1>12 DEF Unblocks, CallState
  <2> QED
    BY <1>12, <2>1, MovesTyped DEF Unblocks, Ends, SlayerTypeOK
<1>13. CASE CallFails(c)
  <2>1. call[c].at = "drop" => call[c].task \in Tasks
    BY DEF ShapesInv, CallShape
  <2>2. broken' \subseteq Tasks
    BY <1>13, <2>1 DEF CallFails, Breaks, At, SlayerTypeOK
  <2> QED
    BY <1>13, <2>2, MovesTyped DEF CallFails, Ends, SlayerTypeOK
<1>14. CASE GivesItem(c)
  BY <1>14, MovesTyped DEF GivesItem, Ends, SlayerTypeOK
<1> QED
  BY <1>1, <1>2, <1>3, <1>4, <1>5, <1>6, <1>7, <1>8, <1>9, <1>10, <1>11, <1>12, <1>13, <1>14
  DEF CallSteps, Ops

LEMMA TripsTyped ==
  ASSUME SlayerTypeOK, ShapesInv, TripSteps
  PROVE  SlayerTypeOK'
<1> USE DEF user, ghosts
<1>0. trip \in TripState /\ NoTrip \in TripState
  BY DEF SlayerTypeOK, NoTrip, TripState, TripStages, PayingStreak
<1>1. ASSUME NEW t \in Tasks \cup {NoTask}, NEW kind \in {"kill", "cape"}, NEW m \in Monsters,
             NEW n \in KillsPerTrip, StartsTrip(t, kind, m, n)
      PROVE  SlayerTypeOK'
  <2>1. trip' \in TripState
    BY <1>0, <1>1, SlayerAssumption DEF StartsTrip, TripState, TripStages
  <2>2. begun' \in [calls : 0..MaxCalls, trips : 0..MaxTrips]
    BY <1>1, SlayerAssumption DEF StartsTrip, SlayerTypeOK
  <2> QED
    BY <1>1, <2>1, <2>2 DEF StartsTrip, SlayerTypeOK
<1>2. ASSUME NEW t \in Tasks \cup {NoTask}, NEW each \in KillsCount, HandlerFindsTask(t, each)
      PROVE  SlayerTypeOK'
  <2>1. OnTask(t) => t \in Tasks /\ Remaining(t, each) \in Nat
    <3> SUFFICES ASSUME OnTask(t)
                 PROVE  t \in Tasks /\ Remaining(t, each) \in Nat
      OBVIOUS
    <3>1. t \in Tasks
      BY <1>2 DEF OnTask
    <3>2. task[t].remaining \in Nat /\ trip.kills \in Nat /\ each \in {1, 2}
      BY <1>0, <1>2, <3>1 DEF SlayerTypeOK, TaskRow, TripState, KillsCount
    <3> QED
      BY <3>1, <3>2 DEF Remaining
  <2>2. trip' \in TripState
    <3>1. ASSUME NEW step \in TripStages, NEW s \in Tasks, NEW left \in Nat
          PROVE  [NoTrip EXCEPT !.at = step, !.kind = trip.kind, !.task = s, !.left = left] \in TripState
      BY <1>0 DEF TripState
    <3>2. [NoTrip EXCEPT !.at = "over"] \in TripState
      BY <1>0 DEF TripState, TripStages
    <3>3. CASE trip' = [NoTrip EXCEPT !.at = "over"]
      BY <3>2, <3>3
    <3>4. CASE OnTask(t) /\ trip' # [NoTrip EXCEPT !.at = "over"]
      <4>1. PICK step \in {"finished", "died", "counted"} :
              trip' = [NoTrip EXCEPT !.at = step, !.kind = trip.kind, !.task = t,
                                     !.left = Remaining(t, each)]
        BY <1>2, <3>4 DEF HandlerFindsTask, Outcomes
      <4> QED
        BY <2>1, <3>1, <3>4, <4>1 DEF TripStages
    <3> QED
      BY <1>2, <3>3, <3>4 DEF HandlerFindsTask
  <2>3. raced' \in BOOLEAN
    BY <1>2 DEF HandlerFindsTask, SlayerTypeOK
  <2> QED
    BY <1>2, <2>2, <2>3 DEF HandlerFindsTask, SlayerTypeOK
<1>3. CASE HandlerRaisesStreak
  <2>1. NextStreak \in 0..PayingStreak
    BY DEF NextStreak, PayingStreak, SlayerTypeOK
  <2>2. trip' \in TripState
    BY <1>0, <1>3, <2>1 DEF HandlerRaisesStreak, TripState, TripStages
  <2> QED
    BY <1>3, <2>1, <2>2 DEF HandlerRaisesStreak, SlayerTypeOK
<1>4. CASE HandlerGivesPoints
  <2>1. PointsFor(trip.streak) \in Int
    BY SlayerAssumption DEF PointsFor
  <2>2. trip' \in TripState
    <3>1. 0 \in 0..PayingStreak
      BY DEF PayingStreak
    <3> QED
      BY <1>0, <1>4, <3>1 DEF HandlerGivesPoints, TripState, TripStages
  <2>3. settled' \in [Tasks -> 0..2]
    BY <1>4, SettleTyped DEF HandlerGivesPoints
  <2>4. points' \in Int /\ ledger' \in Int
    BY <1>4, <2>1 DEF HandlerGivesPoints, Enter, SlayerTypeOK
  <2> QED
    BY <1>4, <2>2, <2>3, <2>4 DEF HandlerGivesPoints, SlayerTypeOK
<1>5. CASE HandlerWritesTask
  <2>1. task' \in [Tasks -> TaskRow]
    <3>1. trip.left \in Nat /\ trip.task \in Tasks
      BY <1>0, <1>5 DEF HandlerWritesTask, ShapesInv, AtWork, TripState
    <3> QED
      BY <1>5, <3>1 DEF HandlerWritesTask, SlayerTypeOK, TaskRow
  <2>2. trip' \in TripState
    BY <1>0, <1>5 DEF HandlerWritesTask, TripState, TripStages
  <2> QED
    BY <1>5, <2>1, <2>2 DEF HandlerWritesTask, SlayerTypeOK
<1>6. CASE HandlerCancelsTask
  <2>1. trip' \in TripState
    BY <1>0, <1>6 DEF HandlerCancelsTask, TripState, TripStages
  <2> QED
    BY <1>6, <2>1, SkipTyped DEF HandlerCancelsTask, SlayerTypeOK
<1>7. CASE HandlerEnds
  BY <1>0, <1>7 DEF HandlerEnds, SlayerTypeOK
<1>8. CASE HandlerFails
  <2>1. broken' \subseteq Tasks
    BY <1>8 DEF HandlerFails, Breaks, ShapesInv, AtWork, SlayerTypeOK
  <2> QED
    BY <1>0, <1>8, <2>1 DEF HandlerFails, SlayerTypeOK
<1> QED
  BY <1>1, <1>2, <1>3, <1>4, <1>5, <1>6, <1>7, <1>8 DEF TripSteps

-----------------------------------------------------------------------------
(* Shapes.                                                                 *)

\* A step of one call leaves the others, and the trip, alone.
LEMMA OthersStay ==
  ASSUME SlayerTypeOK, NEW c \in Calls, CallSteps(c)
  PROVE  trip' = trip /\ \A d \in Calls \ {c} : call'[d] = call[d]
<1> USE DEF SlayerTypeOK, MoveTo, Ends, Fetches
<1>1. ASSUME NEW op, NEW new, BeginCall(c, op, new)
      PROVE  trip' = trip /\ \A d \in Calls \ {c} : call'[d] = call[d]
  BY <1>1 DEF BeginCall
<1>2. ASSUME NEW t, FindsForNew(c, t) \/ FindsForSkip(c, t)
      PROVE  trip' = trip /\ \A d \in Calls \ {c} : call'[d] = call[d]
  BY <1>2 DEF FindsForNew, FindsForSkip
<1>3. ASSUME NEW t, NEW m, NEW n, AssignNewTask(c, t, m, n) \/ Extends(c, n) \/ Unblocks(c, m)
      PROVE  trip' = trip /\ \A d \in Calls \ {c} : call'[d] = call[d]
  BY <1>3 DEF AssignNewTask, Extends, Unblocks
<1>4. CASE TuraelSkips(c) \/ TuraelDeclined(c) \/ ResetsStreak(c) \/ PaysForSkip(c) \/ DropsTask(c)
  BY <1>4 DEF TuraelSkips, TuraelDeclined, ResetsStreak, PaysForSkip, DropsTask
<1>5. CASE PaysInShop(c) \/ GivesItem(c) \/ CallFails(c)
  BY <1>5 DEF PaysInShop, GivesItem, CallFails
<1> QED
  BY <1>1, <1>2, <1>3, <1>4, <1>5 DEF CallSteps, BeginGated

LEMMA CallsStay ==
  ASSUME TripSteps
  PROVE  call' = call
BY DEF TripSteps, StartsTrip, HandlerFindsTask, HandlerRaisesStreak, HandlerGivesPoints,
       HandlerWritesTask, HandlerCancelsTask, HandlerEnds, HandlerFails

\* A row is in use when it has a monster; an open one is.
LEMMA UnusedIsNoMonster ==
  ASSUME SlayerTypeOK, ShapesInv, NEW t \in Tasks
  PROVE  /\ Unused(t) <=> task[t].monster = NoMonster
         /\ Open(t) => ~Unused(t)
<1>1. NoRow.monster = NoMonster /\ NoRow.remaining = 0
  BY DEF NoRow
<1> QED
  BY <1>1, SlayerAssumption DEF Unused, ShapesInv, Open

\* The ways in which rows are written.
LEMMA RowWrites ==
  ASSUME SlayerTypeOK, ShapesInv, Moves
  PROVE  \/ task' = task
         \/ \E t \in Tasks : ~Unused(t) /\ task' = Skip(t)
         \/ \E c \in Calls, t \in Tasks, m \in Monsters, n \in Quantities : AssignNewTask(c, t, m, n)
         \/ \E c \in Calls, n \in Quantities : Extends(c, n)
         \/ HandlerWritesTask
<1>1. ASSUME NEW c \in Calls, TuraelSkips(c) \/ DropsTask(c)
      PROVE  \E t \in Tasks : ~Unused(t) /\ task' = Skip(t)
  <2>1. call[c].task \in Tasks /\ ~Unused(call[c].task)
    BY <1>1 DEF TuraelSkips, DropsTask, ShapesInv, CallShape, At
  <2> QED
    BY <1>1, <2>1 DEF TuraelSkips, DropsTask
<1>2. ASSUME HandlerCancelsTask
      PROVE  \E t \in Tasks : ~Unused(t) /\ task' = Skip(t)
  BY <1>2 DEF HandlerCancelsTask, ShapesInv, AtWork
<1>3. ASSUME NEW c \in Calls, CallSteps(c)
      PROVE  \/ task' = task \/ TuraelSkips(c) \/ DropsTask(c)
             \/ \E t \in Tasks, m \in Monsters, n \in Quantities : AssignNewTask(c, t, m, n)
             \/ \E n \in Quantities : Extends(c, n)
  BY <1>3 DEF CallSteps, BeginCall, BeginGated, FindsForNew, FindsForSkip, TuraelDeclined, ResetsStreak,
              PaysForSkip, PaysInShop, GivesItem, Unblocks, CallFails
<1>4. ASSUME TripSteps
      PROVE  task' = task \/ HandlerWritesTask \/ HandlerCancelsTask
  BY <1>4 DEF TripSteps, StartsTrip, HandlerFindsTask, HandlerRaisesStreak, HandlerGivesPoints,
              HandlerEnds, HandlerFails
<1> QED
  BY <1>1, <1>2, <1>3, <1>4 DEF Moves

\* What a handler writes goes to the row it has found.
LEMMA HandlerRow ==
  ASSUME SlayerTypeOK, ShapesInv, HandlerWritesTask
  PROVE  /\ trip.task \in Tasks /\ ~Unused(trip.task) /\ trip.left \in Nat
         /\ \A t \in Tasks \ {trip.task} : task'[t] = task[t]
         /\ task'[trip.task].monster = task[trip.task].monster
         /\ task'[trip.task].remaining = trip.left
         /\ trip.kind # "cape" => task'[trip.task].skipped = task[trip.task].skipped
<1>1. trip.task \in Tasks /\ ~Unused(trip.task) /\ trip.left \in Nat /\ task[trip.task].skipped \in BOOLEAN
  BY DEF HandlerWritesTask, ShapesInv, AtWork, SlayerTypeOK, TripState, TaskRow
<1>2. PICK skipped \in BOOLEAN :
        /\ trip.kind # "cape" => skipped = task[trip.task].skipped
        /\ task' = [task EXCEPT ![trip.task].remaining = trip.left, ![trip.task].skipped = skipped]
  BY <1>1 DEF HandlerWritesTask
<1> QED
  BY <1>1, <1>2 DEF SlayerTypeOK, TaskRow

\* What a call extends is the row it has made.
LEMMA ExtendedRow ==
  ASSUME SlayerTypeOK, ShapesInv, NEW c \in Calls, NEW n \in Quantities, Extends(c, n)
  PROVE  /\ call[c].task \in Tasks /\ ~Unused(call[c].task) /\ n \in Nat /\ n > 0
         /\ \A t \in Tasks \ {call[c].task} : task'[t] = task[t]
         /\ task'[call[c].task].monster = task[call[c].task].monster
         /\ task'[call[c].task].remaining = n
         /\ task'[call[c].task].skipped = task[call[c].task].skipped
<1>1. call[c].task \in Tasks /\ ~Unused(call[c].task) /\ n \in Nat /\ n > 0
  BY SlayerAssumption DEF Extends, ShapesInv, CallShape, At
<1> QED
  BY <1>1 DEF Extends, SlayerTypeOK, TaskRow

\* A row is kept, for the monster that was assigned, and only an assignment
\* makes one.
LEMMA RowsStay ==
  ASSUME SlayerTypeOK, ShapesInv, Moves
  PROVE  \A t \in Tasks :
           /\ ~Unused(t) => task'[t].monster = task[t].monster
           /\ Unused(t) => task'[t] = task[t] \/ task'[t].monster \in Monsters
<1> USE DEF SlayerTypeOK, TaskRow
<1> DEFINE Kept(t) == /\ ~Unused(t) => task'[t].monster = task[t].monster
                      /\ Unused(t) => task'[t] = task[t] \/ task'[t].monster \in Monsters
<1>1. ASSUME NEW s \in Tasks, ~Unused(s), task' = Skip(s)
      PROVE  \A t \in Tasks : Kept(t)
  BY <1>1 DEF Skip
<1>2. ASSUME NEW c, NEW s \in Tasks, NEW m \in Monsters, NEW n, AssignNewTask(c, s, m, n)
      PROVE  \A t \in Tasks : Kept(t)
  BY <1>2 DEF AssignNewTask
<1>3. ASSUME NEW c \in Calls, NEW n \in Quantities, Extends(c, n)
      PROVE  \A t \in Tasks : Kept(t)
  BY <1>3, ExtendedRow
<1>4. CASE HandlerWritesTask
  BY <1>4, HandlerRow
<1> QED
  BY <1>1, <1>2, <1>3, <1>4, RowWrites

\* Rows in use stay in use.
LEMMA RowsShaped ==
  ASSUME SlayerTypeOK, ShapesInv, Moves
  PROVE  /\ \A t \in Tasks : ~Unused(t) => ~Unused(t)'
         /\ \A t \in Tasks : ~Unused(t)' => task'[t].monster \in Monsters
<1>1. ASSUME NEW t \in Tasks, ~Unused(t)
      PROVE  ~Unused(t)' /\ task'[t].monster \in Monsters
  <2>1. task'[t].monster \in Monsters
    BY <1>1, RowsStay DEF ShapesInv
  <2> QED
    BY <2>1, SlayerAssumption DEF Unused, NoRow
<1>2. ASSUME NEW t \in Tasks, Unused(t), ~Unused(t)'
      PROVE  task'[t].monster \in Monsters
  BY <1>2, RowsStay DEF Unused
<1> QED
  BY <1>1, <1>2

\* What is settled changes with a payment or a reward only, for the task that
\* was found.
LEMMA SettledWrites ==
  ASSUME SlayerTypeOK, ShapesInv, Moves
  PROVE  \/ settled' = settled
         \/ \E c \in Calls : /\ PaysForSkip(c) /\ call[c].task \in Tasks /\ ~Unused(call[c].task)
                            /\ \A t \in Tasks : t # call[c].task => settled'[t] = settled[t]
         \/ /\ HandlerGivesPoints /\ trip.task \in Tasks /\ ~Unused(trip.task)
            /\ \A t \in Tasks : t # trip.task => settled'[t] = settled[t]
<1>1. ASSUME NEW s, Settle(s)
      PROVE  \A t \in Tasks : t # s => settled'[t] = settled[t]
  BY <1>1 DEF Settle, SlayerTypeOK
<1>2. ASSUME NEW c \in Calls, PaysForSkip(c)
      PROVE  /\ call[c].task \in Tasks /\ ~Unused(call[c].task)
             /\ \A t \in Tasks : t # call[c].task => settled'[t] = settled[t]
  BY <1>1, <1>2 DEF PaysForSkip, ShapesInv, CallShape, At
<1>3. ASSUME HandlerGivesPoints
      PROVE  /\ trip.task \in Tasks /\ ~Unused(trip.task)
             /\ \A t \in Tasks : t # trip.task => settled'[t] = settled[t]
  BY <1>1, <1>3 DEF HandlerGivesPoints, ShapesInv, AtWork
<1>4. ASSUME NEW c \in Calls, CallSteps(c)
      PROVE  settled' = settled \/ PaysForSkip(c)
  BY <1>4 DEF CallSteps, ghosts, BeginCall, BeginGated, FindsForNew, FindsForSkip, TuraelSkips,
              TuraelDeclined, ResetsStreak, AssignNewTask, Extends, DropsTask, PaysInShop, GivesItem, Unblocks,
              CallFails
<1>5. ASSUME TripSteps
      PROVE  settled' = settled \/ HandlerGivesPoints
  BY <1>5 DEF TripSteps, ghosts, StartsTrip, HandlerFindsTask, HandlerRaisesStreak, HandlerWritesTask,
              HandlerCancelsTask, HandlerEnds, HandlerFails
<1> QED
  BY <1>2, <1>3, <1>4, <1>5 DEF Moves

LEMMA UnusedUnsettled ==
  ASSUME SlayerTypeOK, ShapesInv, Moves
  PROVE  \A t \in Tasks : Unused(t)' => settled'[t] = 0
BY RowsShaped, SettledWrites DEF ShapesInv

\* The shape of the call that takes the step.
LEMMA CallShaped ==
  ASSUME SlayerTypeOK, ShapesInv, NEW c \in Calls, CallSteps(c)
  PROVE  CallShape(c)'
<1> DEFINE k == call[c]
           used(t) == t \in Tasks /\ ~Unused(t)'
<1>0. /\ call[c] \in CallState /\ call \in [Calls -> CallState] /\ CallShape(c)
      /\ \A t \in Tasks : ~Unused(t) => used(t)
  BY MovesTyped, RowsShaped DEF SlayerTypeOK, ShapesInv, Moves
<1>1. CASE Ends(c)
  BY <1>0, <1>1 DEF CallShape, Ends, Idle, PaysOff
<1>2. ASSUME NEW op \in Ops \ {"none"}, NEW new, Fetches(c, op, new)
      PROVE  CallShape(c)'
  BY <1>0, <1>2 DEF CallShape, Fetches, PaysOff, Ops
<1>3. ASSUME NEW op \in Ops \ {"none"}, NEW new, BeginCall(c, op, new)
      PROVE  CallShape(c)'
  BY <1>2, <1>3 DEF BeginCall
<1>4. ASSUME NEW t \in Tasks \cup {NoTask}, FindsForNew(c, t)
      PROVE  CallShape(c)'
  <2>1. CASE k.op = "turael" /\ t # NoTask /\ call' = [call EXCEPT ![c].at = "asked", ![c].task = t]
    <3>1. t \in Tasks /\ Open(t)
      BY <1>4, <2>1, SlayerAssumption DEF FindsForNew, CurrentTask
    <3>2. used(t)
      BY <1>0, <3>1, UnusedIsNoMonster
    <3> QED
      BY <1>0, <2>1, <3>2 DEF CallShape, CallState, PaysOff
  <2>2. CASE call' = [call EXCEPT ![c].at = "assign", ![c].op = "new"]
    BY <1>0, <2>2 DEF CallShape, CallState, PaysOff
  <2> QED
    BY <1>1, <1>4, <2>1, <2>2 DEF FindsForNew
<1>5. ASSUME NEW t \in Tasks \cup {NoTask}, FindsForSkip(c, t)
      PROVE  CallShape(c)'
  <2>1. CASE t # NoTask /\ call' = [call EXCEPT ![c].at = "charge", ![c].task = t]
    <3>1. t \in Tasks /\ Open(t)
      BY <1>5, <2>1, SlayerAssumption DEF FindsForSkip, CurrentTask
    <3>2. used(t)
      BY <1>0, <3>1, UnusedIsNoMonster
    <3> QED
      BY <1>0, <1>5, <2>1, <3>2 DEF FindsForSkip, CallShape, CallState, PaysOff
  <2> QED
    BY <1>1, <1>2, <1>5, <2>1 DEF FindsForSkip, Ops
<1>6. CASE TuraelSkips(c)
  BY <1>0, <1>6 DEF TuraelSkips, MoveTo, At, CallShape, CallState, PaysOff
<1>7. CASE ResetsStreak(c)
  BY <1>0, <1>7 DEF ResetsStreak, MoveTo, At, CallShape, CallState, PaysOff
<1>8. ASSUME NEW t \in Tasks, NEW m \in Monsters, NEW n \in Quantities, AssignNewTask(c, t, m, n)
      PROVE  CallShape(c)'
  <2>1. CASE k.op = "new" /\ call' = [call EXCEPT ![c].at = "extend", ![c].task = t, ![c].blocked = {}]
    <3>1. task'[t].monster = m
      BY <1>8 DEF AssignNewTask, SlayerTypeOK
    <3>2. used(t)
      BY <3>1, SlayerAssumption DEF Unused, NoRow
    <3> QED
      BY <1>0, <2>1, <3>2 DEF CallShape, CallState, PaysOff
  <2> QED
    BY <1>1, <1>8, <2>1 DEF AssignNewTask
<1>9. CASE PaysForSkip(c)
  BY <1>0, <1>9 DEF PaysForSkip, At, CallShape, CallState, PaysOff
<1>10. CASE DropsTask(c)
  BY <1>1, <1>2, <1>10 DEF DropsTask, Ops
<1>11. CASE PaysInShop(c)
  <2>1. CASE MoveTo(c, "give")
    <3>1. call'[c].at = "give" /\ call'[c].op = "buy"
      BY <1>0, <1>11, <2>1 DEF PaysInShop, MoveTo, CallState
    <3> QED
      BY <3>1 DEF CallShape, PaysOff
  <2> QED
    BY <1>1, <1>11, <2>1 DEF PaysInShop
<1> QED
  BY <1>1, <1>3, <1>4, <1>5, <1>6, <1>7, <1>8, <1>9, <1>10, <1>11
  DEF CallSteps, Ops, BeginGated, TuraelDeclined, Extends, GivesItem, Unblocks, CallFails

\* What a call or handler is about to do fits what it has done.
LEMMA ShapesStep ==
  ASSUME SlayerTypeOK, ShapesInv, Moves
  PROVE  ShapesInv'
<1>1. /\ \A t \in Tasks : ~Unused(t)' => task'[t].monster \in Monsters
      /\ \A t \in Tasks : Unused(t)' => settled'[t] = 0
      /\ \A t \in Tasks : ~Unused(t) => ~Unused(t)'
  BY RowsShaped, UnusedUnsettled
<1>2. ASSUME NEW d \in Calls, call'[d] = call[d]
      PROVE  CallShape(d)'
  BY <1>1, <1>2 DEF ShapesInv, CallShape
<1>3. ASSUME NEW c \in Calls, CallSteps(c)
      PROVE  ShapesInv'
  <2>1. \A d \in Calls : CallShape(d)'
    BY <1>2, <1>3, CallShaped, OthersStay
  <2>2. (AtWork => trip.task \in Tasks /\ ~Unused(trip.task))'
    BY <1>1, <1>3, OthersStay DEF ShapesInv, AtWork
  <2> QED
    BY <1>1, <2>1, <2>2 DEF ShapesInv
<1>4. ASSUME TripSteps
      PROVE  ShapesInv'
  <2>1. \A d \in Calls : CallShape(d)'
    BY <1>2, <1>4, CallsStay
  <2>2. (AtWork => trip.task \in Tasks /\ ~Unused(trip.task))'
    <3>1. ASSUME NEW t \in Tasks \cup {NoTask}, NEW each, HandlerFindsTask(t, each)
          PROVE  (AtWork => trip.task \in Tasks /\ ~Unused(trip.task))'
      <4>1. CASE trip' = [NoTrip EXCEPT !.at = "over"]
        BY <4>1 DEF AtWork, NoTrip
      <4>2. CASE OnTask(t) /\ trip' # [NoTrip EXCEPT !.at = "over"]
        <5>1. trip'.task = t
          BY <3>1, <4>2 DEF HandlerFindsTask, NoTrip
        <5>2. t \in Tasks /\ ~Unused(t)
          BY <3>1, <4>2, UnusedIsNoMonster DEF OnTask, HandlerFindsTask, CurrentTask
        <5> QED
          BY <1>1, <5>1, <5>2
      <4> QED
        BY <3>1, <4>1, <4>2 DEF HandlerFindsTask
    <3>2. CASE AtWork /\ trip'.task = trip.task
      BY <1>1, <3>2 DEF ShapesInv
    <3>3. ASSUME AtWork', HandlerRaisesStreak \/ HandlerGivesPoints
          PROVE  AtWork /\ trip'.task = trip.task
      BY <3>3 DEF AtWork, HandlerRaisesStreak, HandlerGivesPoints, SlayerTypeOK, TripState
    <3>4. ASSUME NEW t, NEW kind, NEW m, NEW n, StartsTrip(t, kind, m, n)
          PROVE  ~AtWork'
      BY <3>4 DEF AtWork, StartsTrip, NoTrip
    <3>5. ASSUME HandlerWritesTask \/ HandlerCancelsTask \/ HandlerEnds \/ HandlerFails
          PROVE  ~AtWork'
      <4>1. trip' = NoTrip \/ trip' = [NoTrip EXCEPT !.at = "over"]
        BY <3>5, Zenon DEF HandlerWritesTask, HandlerCancelsTask, HandlerEnds, HandlerFails
      <4> QED
        BY <4>1 DEF AtWork, NoTrip
    <3> QED
      BY <1>4, <3>1, <3>2, <3>3, <3>4, <3>5 DEF TripSteps, AtWork
  <2> QED
    BY <1>1, <2>1, <2>2 DEF ShapesInv
<1> QED
  BY <1>3, <1>4 DEF Moves

\* While the handler is at work a call that looks finds the minion busy.
LEMMA MinionStep ==
  ASSUME SlayerTypeOK, ShapesInv, MinionOut, Moves
  PROVE  MinionOut'
<1> SUFFICES ASSUME Rewarding'
             PROVE  \A c \in Calls : FoundItFree(c)'
  BY DEF MinionOut
<1>1. ASSUME NEW c \in Calls, CallSteps(c)
      PROVE  FoundItFree(c)' /\ \A d \in Calls \ {c} : FoundItFree(d)'
  <2>1. Rewarding /\ MinionIsBusy /\ FoundItFree(c) /\ \A d \in Calls \ {c} : FoundItFree(d)'
    BY <1>1, OthersStay DEF Rewarding, MinionIsBusy, MinionOut, FoundItFree
  <2> SUFFICES FoundItFree(c)'
    BY <2>1
  <2>2. call \in [Calls -> CallState] /\ call[c] \in CallState /\ CallShape(c)
    BY MovesTyped DEF SlayerTypeOK, ShapesInv
  <2>3. CASE Ends(c) \/ \E op, new : Fetches(c, op, new)
    <3>1. call'[c].at \in {"idle", "fetched"}
      BY <2>2, <2>3 DEF Ends, Idle, Fetches
    <3> QED
      BY <3>1 DEF FoundItFree
  <2>4. ASSUME NEW t, FindsForNew(c, t) \/ FindsForSkip(c, t)
        PROVE  Ends(c)
    BY <2>1, <2>4 DEF FindsForNew, FindsForSkip
  <2>5. CASE TuraelSkips(c) \/ ResetsStreak(c)
    <3>1. call'[c].op = "turael"
      BY <2>2, <2>5 DEF TuraelSkips, ResetsStreak, MoveTo, At, CallShape, CallState
    <3> QED
      BY <3>1 DEF FoundItFree, PaysOff
  <2>6. ASSUME NEW t, NEW m, NEW n, AssignNewTask(c, t, m, n)
        PROVE  Ends(c)
    BY <2>1, <2>6 DEF AssignNewTask, FoundItFree, At
  <2>7. ~PaysForSkip(c) /\ ~DropsTask(c)
    BY <2>1, <2>2 DEF PaysForSkip, DropsTask, FoundItFree, At, CallShape
  <2>8. CASE PaysInShop(c)
    <3>1. call'[c].at \in {"idle", "give"}
      BY <2>2, <2>8 DEF PaysInShop, Ends, Idle, MoveTo, CallState
    <3> QED
      BY <3>1 DEF FoundItFree
  <2> QED
    BY <1>1, <2>1, <2>3, <2>4, <2>5, <2>6, <2>7, <2>8
    DEF CallSteps, BeginCall, BeginGated, TuraelDeclined, Extends, GivesItem, Unblocks, CallFails
<1>2. ASSUME TripSteps
      PROVE  \A c \in Calls : FoundItFree(c)'
  <2>1. Rewarding \/ \A c \in Calls : FoundItFree(c)
    BY <1>2 DEF TripSteps, Rewarding, StartsTrip, HandlerFindsTask, HandlerRaisesStreak, HandlerGivesPoints,
         HandlerWritesTask, HandlerCancelsTask, HandlerEnds, HandlerFails, NoTrip
  <2> QED
    BY <1>2, <2>1, CallsStay DEF MinionOut, FoundItFree
<1> QED
  BY <1>1, <1>2 DEF Moves

-----------------------------------------------------------------------------
(* Late writes.                                                            *)

\* Only the handler's write can turn a row that is open or skipped into one that
\* was completed: an extension or another skip does not.
LEMMA ClosedStay ==
  ASSUME SlayerTypeOK, ShapesInv, Moves, ~HandlerWritesTask, NEW t \in Tasks, StillClosed(t)
  PROVE  StillClosed(t)'
<1> USE DEF SlayerTypeOK, TaskRow, StillClosed
<1>1. ASSUME NEW s \in Tasks, task' = Skip(s)
      PROVE  StillClosed(t)'
  BY <1>1 DEF Skip
<1>2. ASSUME NEW c, NEW s \in Tasks, NEW m \in Monsters, NEW n \in Quantities, AssignNewTask(c, s, m, n)
      PROVE  StillClosed(t)'
  BY <1>2, SlayerAssumption DEF AssignNewTask
<1>3. ASSUME NEW c \in Calls, NEW n \in Quantities, Extends(c, n)
      PROVE  StillClosed(t)'
  BY <1>3, ExtendedRow
<1> QED
  BY <1>1, <1>2, <1>3, RowWrites

\* Only a call that has just assigned a task comes to extend it.
LEMMA ExtendsItsOwn ==
  ASSUME SlayerTypeOK, ShapesInv, NEW c \in Calls, CallSteps(c), At(c, "extend")'
  PROVE  \E t \in Tasks, m \in Monsters, n \in Quantities :
           AssignNewTask(c, t, m, n) /\ call'[c].task = t
<1> USE DEF SlayerTypeOK
<1>1. ASSUME Ends(c) \/ \E op, new : Fetches(c, op, new)
      PROVE  FALSE
  BY <1>1 DEF Ends, Idle, Fetches, At
<1>2. ASSUME NEW t, FindsForNew(c, t) \/ FindsForSkip(c, t)
      PROVE  FALSE
  <2>1. CASE call' = [call EXCEPT ![c].at = "asked", ![c].task = t]
             \/ call' = [call EXCEPT ![c].at = "assign", ![c].op = "new"]
             \/ call' = [call EXCEPT ![c].at = "charge", ![c].task = t]
    BY <2>1, MovesTyped DEF At, CallState
  <2> QED
    BY <1>1, <1>2, <2>1 DEF FindsForNew, FindsForSkip
<1>3. ASSUME TuraelSkips(c) \/ ResetsStreak(c) \/ PaysForSkip(c) \/ PaysInShop(c)
      PROVE  FALSE
  <2>1. CASE TuraelSkips(c) \/ ResetsStreak(c) \/ PaysForSkip(c)
    BY <2>1, MovesTyped DEF TuraelSkips, ResetsStreak, PaysForSkip, MoveTo, At, CallState
  <2>2. CASE PaysInShop(c)
    BY <1>1, <2>2, MovesTyped DEF PaysInShop, MoveTo, At, CallState
  <2> QED
    BY <1>3, <2>1, <2>2
<1>4. ASSUME NEW t \in Tasks, NEW m \in Monsters, NEW n \in Quantities, AssignNewTask(c, t, m, n)
      PROVE  call'[c].task = t
  BY <1>1, <1>4, MovesTyped DEF AssignNewTask, CallState
<1> QED
  BY <1>1, <1>2, <1>3, <1>4
  DEF CallSteps, BeginCall, BeginGated, TuraelDeclined, Extends, DropsTask, GivesItem, Unblocks, CallFails

\* What a handler has found.
LEMMA HandlerFound ==
  ASSUME SlayerTypeOK, NEW t \in Tasks \cup {NoTask}, NEW each \in KillsCount, HandlerFindsTask(t, each)
  PROVE  \/ trip'.at = "over"
         \/ /\ t \in Tasks /\ Open(t) /\ trip'.task = t /\ trip'.kind = trip.kind
            /\ trip'.left = Remaining(t, each)
            /\ trip'.left \in Nat /\ trip'.left <= task[t].remaining
            /\ trip'.at \in {"finished", "died", "counted"}
            /\ trip'.at = "finished" => trip'.left = 0
            /\ trip.kind = "cape" => trip'.left = 0
<1>1. CASE trip' = [NoTrip EXCEPT !.at = "over"]
  BY <1>1 DEF NoTrip
<1>2. CASE OnTask(t) /\ trip' # [NoTrip EXCEPT !.at = "over"]
  <2>1. t \in Tasks /\ Open(t)
    BY <1>2, SlayerAssumption DEF OnTask, HandlerFindsTask, CurrentTask
  <2>2. task[t].remaining \in Nat /\ trip.kills \in Nat /\ each \in {1, 2}
    BY <2>1 DEF SlayerTypeOK, TaskRow, TripState, KillsCount
  <2>3. /\ Remaining(t, each) \in Nat /\ Remaining(t, each) <= task[t].remaining
        /\ trip.kind = "cape" => Remaining(t, each) = 0
    BY <2>2 DEF Remaining
  <2>4. PICK step \in {"finished", "died", "counted"} :
          /\ step = "finished" => trip.kind = "cape" \/ Remaining(t, each) = 0
          /\ trip' = [NoTrip EXCEPT !.at = step, !.kind = trip.kind, !.task = t, !.left = Remaining(t, each)]
    BY <1>2 DEF HandlerFindsTask, Outcomes
  <2> QED
    BY <2>1, <2>3, <2>4 DEF NoTrip
<1> QED
  BY <1>1, <1>2 DEF HandlerFindsTask

\* Handlers that have found a task keep it in mind.
LEMMA HandlerKeepsTask ==
  ASSUME SlayerTypeOK, TripSteps, AtWork'
  PROVE  \/ \E t \in Tasks \cup {NoTask}, each \in KillsCount : HandlerFindsTask(t, each)
         \/ /\ HandlerRaisesStreak \/ HandlerGivesPoints
            /\ trip'.task = trip.task /\ trip'.left = trip.left /\ trip'.kind = trip.kind
            /\ trip'.at \in {"raised", "counted"}
<1>1. ASSUME HandlerRaisesStreak \/ HandlerGivesPoints
      PROVE  /\ trip'.task = trip.task /\ trip'.left = trip.left /\ trip'.kind = trip.kind
             /\ trip'.at \in {"raised", "counted"}
  BY <1>1 DEF HandlerRaisesStreak, HandlerGivesPoints, SlayerTypeOK, TripState
<1>2. ASSUME NEW t, NEW kind, NEW m, NEW n, StartsTrip(t, kind, m, n)
      PROVE  ~AtWork'
  BY <1>2 DEF AtWork, StartsTrip, NoTrip
<1>3. ASSUME HandlerWritesTask \/ HandlerCancelsTask \/ HandlerEnds \/ HandlerFails
      PROVE  ~AtWork'
  <2>1. trip' = NoTrip \/ trip' = [NoTrip EXCEPT !.at = "over"]
    BY <1>3, Zenon DEF HandlerWritesTask, HandlerCancelsTask, HandlerEnds, HandlerFails
  <2> QED
    BY <2>1 DEF AtWork, NoTrip
<1> QED
  BY <1>1, <1>2, <1>3 DEF TripSteps, AtWork

\* The handler writes what is left while no call is about to extend: such a call
\* found the minion free.
LEMMA WritesStep ==
  ASSUME SlayerTypeOK, ShapesInv, MinionOut, WritesInv, Moves
  PROVE  WritesInv'
<1>1. ASSUME NEW c \in Calls, CallSteps(c)
      PROVE  WritesInv'
  <2>1. \A t \in Tasks : StillClosed(t) => StillClosed(t)'
    <3>1. ~HandlerWritesTask \/ task' = task
      BY <1>1, OthersStay DEF HandlerWritesTask, NoTrip
    <3> QED
      BY <3>1, ClosedStay DEF StillClosed
  <2>2. \A d \in Calls \ {c} : At(d, "extend")' => StillClosed(call[d].task)'
    BY <1>1, <2>1, OthersStay DEF WritesInv, ShapesInv, CallShape, At
  <2>3. At(c, "extend")' => StillClosed(call[c].task)'
    <3> SUFFICES ASSUME At(c, "extend")'
                 PROVE  StillClosed(call[c].task)'
      OBVIOUS
    <3>1. PICK t \in Tasks, m \in Monsters, n \in Quantities : AssignNewTask(c, t, m, n) /\ call'[c].task = t
      BY <1>1, ExtendsItsOwn
    <3> QED
      BY <3>1, SlayerAssumption DEF AssignNewTask, StillClosed, SlayerTypeOK
  <2>4. trip' = trip
    BY <1>1, OthersStay
  <2> QED
    BY <2>1, <2>2, <2>3, <2>4 DEF WritesInv, ShapesInv, AtWork
<1>2. ASSUME TripSteps
      PROVE  WritesInv'
  <2>1. \A c \in Calls : At(c, "extend")' => StillClosed(call[c].task)'
    <3> SUFFICES ASSUME NEW c \in Calls, At(c, "extend")
                 PROVE  StillClosed(call[c].task)'
      BY <1>2, CallsStay DEF At
    <3>1. call[c].task \in Tasks /\ StillClosed(call[c].task) /\ call[c].op = "new"
      BY DEF WritesInv, ShapesInv, CallShape, At
    <3>2. ~HandlerWritesTask
      BY <3>1 DEF HandlerWritesTask, MinionOut, Rewarding, FoundItFree, At
    <3> QED
      BY <1>2, <3>1, <3>2, ClosedStay, CallsStay DEF StillClosed
  <2>2. (trip.at \in {"finished", "raised", "counted"} /\ trip.left > 0
           => trip.kind = "kill" /\ StillClosed(trip.task))'
    <3> SUFFICES ASSUME trip'.at \in {"finished", "raised", "counted"}, trip'.left > 0
                 PROVE  trip'.kind = "kill" /\ StillClosed(trip.task)'
      OBVIOUS
    <3>1. ASSUME NEW t \in Tasks \cup {NoTask}, NEW each \in KillsCount, HandlerFindsTask(t, each)
          PROVE  trip'.kind = "kill" /\ StillClosed(trip.task)'
      <4>1. t \in Tasks /\ Open(t) /\ trip'.task = t /\ trip'.kind = trip.kind /\ trip.kind # "cape"
        BY <3>1, HandlerFound
      <4> QED
        BY <3>1, <4>1 DEF HandlerFindsTask, Open, StillClosed, SlayerTypeOK, TripState
    <3>2. CASE /\ HandlerRaisesStreak \/ HandlerGivesPoints
               /\ trip'.task = trip.task /\ trip'.left = trip.left /\ trip'.kind = trip.kind
      BY <3>2 DEF HandlerRaisesStreak, HandlerGivesPoints, WritesInv, StillClosed
    <3> QED
      BY <1>2, <3>1, <3>2, HandlerKeepsTask DEF AtWork
  <2> QED
    BY <2>1, <2>2 DEF WritesInv
<1> QED
  BY <1>1, <1>2 DEF Moves

\* A row that is closed is not opened again.
LEMMA ClosedStep ==
  ASSUME SlayerTypeOK, ShapesInv, MinionOut, WritesInv, Moves
  PROVE  \A t \in Tasks : ~Unused(t) /\ ~Open(t) => ~Open(t)'
<1> SUFFICES ASSUME NEW t \in Tasks, ~Unused(t), ~Open(t)
             PROVE  ~Open(t)'
  OBVIOUS
<1> USE DEF SlayerTypeOK, TaskRow, Open
<1>1. ASSUME NEW s \in Tasks, task' = Skip(s)
      PROVE  ~Open(t)'
  BY <1>1 DEF Skip
<1>2. ASSUME NEW c, NEW s \in Tasks, NEW m, NEW n, AssignNewTask(c, s, m, n)
      PROVE  ~Open(t)'
  BY <1>2 DEF AssignNewTask
<1>3. ASSUME NEW c \in Calls, NEW n \in Quantities, Extends(c, n)
      PROVE  ~Open(t)'
  <2>1. t = call[c].task => task[t].skipped
    BY <1>3 DEF WritesInv, StillClosed, Extends
  <2> QED
    BY <1>3, <2>1, ExtendedRow
<1>4. CASE HandlerWritesTask
  <2>1. trip.left > 0 => trip.kind = "kill" /\ (t = trip.task => task[t].skipped)
    BY <1>4 DEF HandlerWritesTask, WritesInv, StillClosed
  <2> QED
    BY <1>4, <2>1, HandlerRow
<1> QED
  BY <1>1, <1>2, <1>3, <1>4, RowWrites

-----------------------------------------------------------------------------
(* Rewards and payments.                                                   *)

\* What was left open by a failure is remembered.
LEMMA BrokenGrows ==
  ASSUME Moves
  PROVE  broken \subseteq broken'
<1>1. ASSUME NEW c \in Calls, CallSteps(c)
      PROVE  broken' = broken \/ CallFails(c)
  BY <1>1 DEF CallSteps, ghosts, BeginCall, BeginGated, FindsForNew, FindsForSkip, TuraelSkips,
              TuraelDeclined, ResetsStreak, AssignNewTask, Extends, PaysForSkip, DropsTask, PaysInShop, GivesItem,
              Unblocks
<1>2. ASSUME TripSteps
      PROVE  broken' = broken \/ HandlerFails
  BY <1>2 DEF TripSteps, ghosts, StartsTrip, HandlerFindsTask, HandlerRaisesStreak, HandlerGivesPoints,
              HandlerWritesTask, HandlerCancelsTask, HandlerEnds
<1> QED
  BY <1>1, <1>2 DEF Moves, CallFails, HandlerFails, Breaks

\* While the handler is at work nobody pays a task off.
LEMMA NoPaymentMeanwhile ==
  ASSUME ShapesInv, MinionOut, Rewarding, NEW c \in Calls
  PROVE  /\ ~PaysForSkip(c) /\ ~At(c, "drop")
         /\ ~\E t \in Tasks, m \in Monsters, n \in Quantities : AssignNewTask(c, t, m, n) /\ call[c].op = "new"
BY DEF MinionOut, FoundItFree, PaysForSkip, ShapesInv, CallShape, At, AssignNewTask

\* A handler finds an open task when no payment for it is under way, and none
\* comes up while it is at work.
LEMMA RewardStep ==
  ASSUME SlayerTypeOK, ShapesInv, MinionOut, RewardInv, SettledIsClosed, Moves
  PROVE  RewardInv'
<1>1. ASSUME NEW c \in Calls, CallSteps(c)
      PROVE  RewardInv'
  <2>1. trip' = trip
    BY <1>1, OthersStay
  <2>2. AtWork => settled' = settled
    BY <1>1, <2>1, SettledWrites, NoPaymentMeanwhile
    DEF AtWork, Rewarding, HandlerGivesPoints, SlayerTypeOK, TripState
  <2> QED
    BY <2>1, <2>2, BrokenGrows DEF RewardInv, AtWork, Unsettled
<1>2. ASSUME TripSteps
      PROVE  RewardInv'
  <2>1. CASE ~AtWork'
    BY <2>1 DEF RewardInv, AtWork
  <2>2. ASSUME NEW t \in Tasks \cup {NoTask}, NEW each \in KillsCount, HandlerFindsTask(t, each)
        PROVE  RewardInv'
    <3>1. CASE trip'.at = "over"
      BY <3>1 DEF RewardInv
    <3>2. CASE /\ t \in Tasks /\ Open(t) /\ trip'.task = t
               /\ trip'.at \in {"finished", "died", "counted"}
               /\ trip'.at = "finished" => trip'.left = 0
      <4>1. Unsettled(t)
        <5>1. trip.at = "out" /\ \A c \in Calls : ~At(c, "drop")
          BY <2>2 DEF HandlerFindsTask, FoundItFree, At, ShapesInv, CallShape
        <5>2. settled[t] \in Nat
          BY <3>2 DEF SlayerTypeOK
        <5> QED
          BY <3>2, <5>1, <5>2 DEF SettledIsClosed, Unsettled
      <4>2. Unsettled(t)'
        BY <2>2, <4>1 DEF Unsettled, HandlerFindsTask
      <4> QED
        BY <3>2, <4>2 DEF RewardInv, Unsettled
    <3> QED
      BY <2>2, <3>1, <3>2, HandlerFound
  <2>3. CASE HandlerRaisesStreak /\ trip'.task = trip.task /\ trip'.left = trip.left
    BY <2>3 DEF HandlerRaisesStreak, RewardInv, ghosts, Unsettled
  <2>4. CASE HandlerGivesPoints /\ trip'.task = trip.task /\ trip'.left = trip.left
    <3>1. trip'.at = "counted" /\ trip'.left = 0
      BY <2>4 DEF HandlerGivesPoints, RewardInv, SlayerTypeOK, TripState
    <3> QED
      BY <3>1 DEF RewardInv
  <2> QED
    BY <1>2, <2>1, <2>2, <2>3, <2>4, HandlerKeepsTask
<1> QED
  BY <1>1, <1>2 DEF Moves

\* Only an assignment opens a row, one that was not used.
LEMMA OpenedByAssigning ==
  ASSUME SlayerTypeOK, ShapesInv, MinionOut, WritesInv, Moves, NEW t \in Tasks, ~Open(t), Open(t)'
  PROVE  Unused(t) /\ \E c \in Calls, m \in Monsters, n \in Quantities : AssignNewTask(c, t, m, n)
<1>1. Unused(t)
  BY ClosedStep
<1>2. task'[t] # task[t]
  BY DEF Open
<1>3. ASSUME NEW s \in Tasks, ~Unused(s), task' = Skip(s)
      PROVE  FALSE
  BY <1>1, <1>2, <1>3 DEF Skip, SlayerTypeOK
<1>4. ASSUME NEW c, NEW s \in Tasks, NEW m, NEW n, AssignNewTask(c, s, m, n)
      PROVE  s = t
  BY <1>2, <1>4 DEF AssignNewTask, SlayerTypeOK
<1>5. ASSUME NEW c \in Calls, NEW n \in Quantities, Extends(c, n)
      PROVE  FALSE
  BY <1>1, <1>2, <1>5, ExtendedRow
<1>6. ~HandlerWritesTask
  BY <1>1, <1>2, HandlerRow
<1> QED
  BY <1>1, <1>2, <1>3, <1>4, <1>5, <1>6, RowWrites

\* A task that is marked as skipped is closed.
LEMMA SkipCloses ==
  ASSUME SlayerTypeOK, NEW t \in Tasks, task' = Skip(t)
  PROVE  ~Open(t)'
<1>1. task'[t].skipped
  BY DEF Skip, SlayerTypeOK, TaskRow
<1> QED
  BY <1>1 DEF Open

\* A call that has paid goes on to mark the task, or fails.
LEMMA LeavesDrop ==
  ASSUME SlayerTypeOK, ShapesInv, NEW c \in Calls, CallSteps(c), At(c, "drop")
  PROVE  DropsTask(c) \/ CallFails(c)
BY DEF ShapesInv, CallShape, At, PaysOff, CallSteps, BeginCall, BeginGated, FindsForNew, FindsForSkip,
       TuraelSkips, TuraelDeclined, ResetsStreak, AssignNewTask, Extends, PaysForSkip, PaysInShop, GivesItem, Unblocks

\* A handler that has counted the kills goes on to write them, or fails.
LEMMA LeavesCounted ==
  ASSUME TripSteps, trip.at = "counted"
  PROVE  HandlerWritesTask \/ HandlerFails
BY DEF TripSteps, MinionIsBusy, StartsTrip, HandlerFindsTask, HandlerRaisesStreak, HandlerGivesPoints,
       HandlerCancelsTask, HandlerEnds

\* A task that is settled and open has somebody at work on it, or was left open
\* by a failure.
LEMMA ClosedOnceSettled ==
  ASSUME SlayerTypeOK, ShapesInv, MinionOut, WritesInv, RewardInv, SettledIsClosed, Moves
  PROVE  SettledIsClosed'
<1> DEFINE written(t) ==
      \/ t \in broken
      \/ \E c \in Calls : At(c, "drop") /\ call[c].task = t
      \/ trip.at = "counted" /\ trip.task = t
<1> SUFFICES ASSUME NEW t \in Tasks, settled'[t] > 0, Open(t)'
             PROVE  written(t)'
  BY DEF SettledIsClosed
<1>0. settled[t] \in 0..2 /\ call \in [Calls -> CallState]
  BY DEF SlayerTypeOK
<1>1. CASE settled'[t] # settled[t]
  <2>1. CASE \E c \in Calls : PaysForSkip(c) /\ call[c].task = t
    <3>1. PICK c \in Calls : PaysForSkip(c) /\ call[c].task = t
      BY <2>1
    <3>2. At(c, "drop")' /\ call'[c].task = t
      BY <1>0, <3>1 DEF PaysForSkip, At, CallState
    <3> QED
      BY <3>2
  <2>2. CASE HandlerGivesPoints /\ trip.task = t
    BY <2>2 DEF HandlerGivesPoints, SlayerTypeOK, TripState
  <2> QED
    BY <1>1, <2>1, <2>2, SettledWrites
<1>2. CASE settled'[t] = settled[t]
  <2>1. settled[t] > 0 /\ ~Unused(t)
    BY <1>2 DEF ShapesInv
  <2>2. Open(t)
    BY <2>1, OpenedByAssigning
  <2>3. written(t)
    BY <2>1, <2>2 DEF SettledIsClosed
  <2>4. CASE t \in broken
    BY <2>4, BrokenGrows
  <2>5. ASSUME NEW c \in Calls, At(c, "drop"), call[c].task = t
        PROVE  written(t)'
    <3>1. CASE call'[c] = call[c]
      BY <2>5, <3>1 DEF At
    <3>2. CASE CallSteps(c)
      <4>1. ~DropsTask(c)
        BY <2>5, SkipCloses DEF DropsTask
      <4>2. CASE CallFails(c)
        BY <2>5, <4>2 DEF CallFails, Breaks
      <4> QED
        BY <2>5, <3>2, <4>1, <4>2, LeavesDrop
    <3> QED
      BY <3>1, <3>2, OthersStay, CallsStay DEF Moves
  <2>6. CASE trip.at = "counted" /\ trip.task = t
    <3>1. CASE trip' = trip
      BY <2>6, <3>1
    <3>2. CASE HandlerWritesTask
      <4>1. trip.left > 0
        BY <2>6, <3>2, HandlerRow DEF Open
      <4>2. t \in broken
        BY <2>1, <2>6, <4>1 DEF RewardInv, Unsettled
      <4> QED
        BY <4>2, BrokenGrows
    <3>3. CASE HandlerFails
      BY <2>1, <2>6, <3>3 DEF HandlerFails, Breaks
    <3> QED
      BY <2>6, <3>1, <3>2, <3>3, OthersStay, LeavesCounted DEF Moves
  <2> QED
    BY <2>3, <2>4, <2>5, <2>6
<1> QED
  BY <1>1, <1>2

-----------------------------------------------------------------------------
(* Assignments.                                                            *)

\* Who comes to assign, or to ask whether to.
LEMMA ComesToAssign ==
  ASSUME SlayerTypeOK, ShapesInv, NEW c \in Calls, CallSteps(c)
  PROVE  /\ At(c, "asked")' => \E t \in Tasks : FindsForNew(c, t) /\ Open(t) /\ call'[c].task = t
         /\ At(c, "reset")' => TuraelSkips(c)
         /\ At(c, "assign")' => ResetsStreak(c) \/ FindsForNew(c, NoTask)
<1> USE DEF SlayerTypeOK
<1> DEFINE step == call'[c].at
<1>1. ASSUME Ends(c) \/ \E op, new : Fetches(c, op, new)
      PROVE  step \notin {"asked", "reset", "assign"}
  BY <1>1 DEF Ends, Idle, Fetches
<1>2. ASSUME NEW t \in Tasks \cup {NoTask}, FindsForNew(c, t)
      PROVE  \/ step \notin {"asked", "reset", "assign"}
             \/ step = "assign" /\ t = NoTask
             \/ step = "asked" /\ t \in Tasks /\ Open(t) /\ call'[c].task = t
  <2>1. CASE t # NoTask /\ call' = [call EXCEPT ![c].at = "asked", ![c].task = t]
    <3>1. step = "asked" /\ call'[c].task = t
      BY <2>1, MovesTyped DEF CallState
    <3>2. t \in Tasks /\ Open(t)
      BY <1>2, <2>1 DEF FindsForNew, CurrentTask
    <3> QED
      BY <3>1, <3>2
  <2>2. CASE t = NoTask /\ call' = [call EXCEPT ![c].at = "assign", ![c].op = "new"]
    BY <2>2, MovesTyped DEF CallState
  <2> QED
    BY <1>1, <1>2, <2>1, <2>2 DEF FindsForNew
<1>3. ASSUME NEW t, FindsForSkip(c, t)
      PROVE  step \notin {"asked", "reset", "assign"}
  <2>1. CASE call' = [call EXCEPT ![c].at = "charge", ![c].task = t]
    BY <2>1, MovesTyped DEF CallState
  <2> QED
    BY <1>1, <1>3, <2>1 DEF FindsForSkip
<1>4. TuraelSkips(c) => step = "reset"
  BY MovesTyped DEF TuraelSkips, MoveTo, CallState
<1>5. ResetsStreak(c) => step = "assign"
  BY MovesTyped DEF ResetsStreak, MoveTo, CallState
<1>6. PaysForSkip(c) => step = "drop"
  BY MovesTyped DEF PaysForSkip, CallState
<1>7. ASSUME NEW t, NEW m, NEW n, AssignNewTask(c, t, m, n)
      PROVE  step \notin {"asked", "reset", "assign"}
  <2>1. CASE call' = [call EXCEPT ![c].at = "extend", ![c].task = t, ![c].blocked = {}]
    BY <2>1, MovesTyped DEF CallState
  <2> QED
    BY <1>1, <1>7, <2>1 DEF AssignNewTask
<1>8. PaysInShop(c) => step \notin {"asked", "reset", "assign"}
  BY <1>1, MovesTyped DEF PaysInShop, MoveTo, CallState
<1> QED
  BY <1>1, <1>2, <1>3, <1>4, <1>5, <1>6, <1>7, <1>8
  DEF At, CallSteps, BeginCall, BeginGated, TuraelDeclined, Extends, DropsTask, GivesItem, Unblocks, CallFails

\* It is remembered that two calls were about to assign.
LEMMA DoubledStays ==
  ASSUME SlayerTypeOK, Moves
  PROVE  /\ doubled => doubled'
         /\ \A c \in Calls, t \in Tasks \cup {NoTask} :
              FindsForNew(c, t) /\ Assigning(c)' /\ (\E d \in Calls \ {c} : Assigning(d)) => doubled'
<1>1. ASSUME NEW c \in Calls, CallSteps(c)
      PROVE  doubled' = doubled \/ \E t \in Tasks \cup {NoTask} : FindsForNew(c, t)
  BY <1>1 DEF CallSteps, ghosts, BeginCall, BeginGated, FindsForSkip, TuraelSkips, TuraelDeclined,
              ResetsStreak, AssignNewTask, Extends, PaysForSkip, DropsTask, PaysInShop, GivesItem, Unblocks, CallFails
<1>2. ASSUME TripSteps
      PROVE  doubled' = doubled
  BY <1>2 DEF TripSteps, ghosts, StartsTrip, HandlerFindsTask, HandlerRaisesStreak, HandlerGivesPoints,
              HandlerWritesTask, HandlerCancelsTask, HandlerEnds, HandlerFails
<1>3. ASSUME NEW c \in Calls, NEW t, FindsForNew(c, t)
      PROVE  /\ doubled => doubled'
             /\ Assigning(c)' /\ (\E d \in Calls \ {c} : Assigning(d)) => doubled'
  BY <1>3 DEF FindsForNew, SlayerTypeOK
<1> QED
  BY <1>1, <1>2, <1>3 DEF Moves

\* Whoever assigns has seen that no task is open, and nobody else opens one.
LEMMA AssignStep ==
  ASSUME SlayerTypeOK, ShapesInv, MinionOut, WritesInv, AssignInv, OneOpenTask, Moves
  PROVE  AssignInv' /\ OneOpenTask'
<1> SUFFICES ASSUME ~doubled'
             PROVE  /\ (\A c, d \in Calls : Assigning(c) /\ Assigning(d) => c = d)'
                    /\ (\A c \in Calls :
                         /\ At(c, "asked") => \A t \in Tasks : Open(t) => t = call[c].task
                         /\ call[c].at \in {"reset", "assign"} => \A t \in Tasks : ~Open(t))'
                    /\ (\A s, t \in Tasks : Open(s) /\ Open(t) => s = t)'
  BY DEF AssignInv, OneOpenTask
<1>0. ~doubled
  BY DoubledStays
<1>1. \A t \in Tasks : Open(t)' /\ ~Open(t) =>
        \E c \in Calls, m \in Monsters, n \in Quantities : AssignNewTask(c, t, m, n)
  BY OpenedByAssigning
<1>2. ASSUME NEW c \in Calls, NEW t \in Tasks, NEW m \in Monsters, NEW n \in Quantities,
             AssignNewTask(c, t, m, n)
      PROVE  /\ \A d \in Calls : ~Assigning(d)'
             /\ \A s \in Tasks : Open(s)' => s = t
  <2>1. CallSteps(c) /\ Assigning(c) /\ ~Assigning(c)'
    <3>1. CallSteps(c)
      BY <1>2 DEF CallSteps
    <3>2. ~At(c, "asked")' /\ ~At(c, "reset")'
      BY <1>2, <3>1, ComesToAssign DEF TuraelSkips, FindsForNew, AssignNewTask, At
    <3>3. ~At(c, "assign")'
      BY <1>2, <3>1, ComesToAssign DEF ResetsStreak, FindsForNew, AssignNewTask, At
    <3> QED
      BY <1>2, <3>1, <3>2, <3>3 DEF Assigning, At, AssignNewTask
  <2>2. \A d \in Calls \ {c} : ~Assigning(d) /\ call'[d] = call[d]
    BY <1>0, <2>1, OthersStay DEF AssignInv
  <2>3. \A s \in Tasks : s # t => ~Open(s) /\ task'[s] = task[s]
    BY <1>0, <1>2 DEF AssignInv, AssignNewTask, At, SlayerTypeOK
  <2> QED
    BY <2>1, <2>2, <2>3 DEF Assigning, Open
<1>3. CASE \E c \in Calls, t \in Tasks, m \in Monsters, n \in Quantities : AssignNewTask(c, t, m, n)
  <2>1. PICK t \in Tasks : /\ \A d \in Calls : ~Assigning(d)'
                           /\ \A s \in Tasks : Open(s)' => s = t
    BY <1>2, <1>3
  <2> QED
    BY <2>1 DEF Assigning, At
<1>4. CASE \A t \in Tasks : Open(t)' => Open(t)
  <2>1. (\A s, t \in Tasks : Open(s) /\ Open(t) => s = t)'
    BY <1>0, <1>4 DEF OneOpenTask
  <2>2. ASSUME NEW c \in Calls, call'[c] = call[c]
        PROVE  /\ At(c, "asked")' => \A t \in Tasks : Open(t)' => t = call'[c].task
               /\ call'[c].at \in {"reset", "assign"} => \A t \in Tasks : ~Open(t)'
    BY <1>0, <1>4, <2>2 DEF AssignInv, At
  <2>3. CASE call' = call
    BY <1>0, <2>1, <2>2, <2>3 DEF AssignInv, Assigning
  <2>4. ASSUME NEW c \in Calls, CallSteps(c)
        PROVE  /\ \A d \in Calls \ {c} : ~(Assigning(c)' /\ Assigning(d)')
               /\ At(c, "asked")' => \A t \in Tasks : Open(t)' => t = call'[c].task
               /\ call'[c].at \in {"reset", "assign"} => \A t \in Tasks : ~Open(t)'
    <3>1. \A d \in Calls \ {c} : call'[d] = call[d]
      BY <2>4, OthersStay
    <3>2. Assigning(c)' /\ ~Assigning(c) => \E t \in Tasks \cup {NoTask} : FindsForNew(c, t)
      BY <2>4, ComesToAssign DEF Assigning, At, TuraelSkips, ResetsStreak
    <3>3. \A d \in Calls \ {c} : ~(Assigning(c)' /\ Assigning(d)')
      BY <1>0, <3>1, <3>2, DoubledStays DEF AssignInv, Assigning
    <3>4. ASSUME At(c, "asked")'
          PROVE  \A t \in Tasks : Open(t)' => t = call'[c].task
      BY <1>0, <1>4, <2>4, <3>4, ComesToAssign DEF OneOpenTask
    <3>5. ASSUME TuraelSkips(c)
          PROVE  \A t \in Tasks : ~Open(t)'
      <4>1. call[c].task \in Tasks /\ \A t \in Tasks : Open(t) => t = call[c].task
        BY <1>0, <3>5 DEF AssignInv, TuraelSkips, ShapesInv, CallShape, At
      <4>2. \A t \in Tasks : t = call[c].task => ~Open(t)'
        BY <3>5, SkipCloses DEF TuraelSkips
      <4> QED
        BY <1>4, <4>1, <4>2
    <3>6. ASSUME ResetsStreak(c)
          PROVE  \A t \in Tasks : ~Open(t)'
      BY <1>0, <1>4, <3>6 DEF AssignInv, ResetsStreak, At
    <3>7. ASSUME FindsForNew(c, NoTask)
          PROVE  \A t \in Tasks : ~Open(t)'
      BY <1>4, <3>7, SlayerAssumption DEF FindsForNew, CurrentTask
    <3> QED
      BY <2>4, <3>3, <3>4, <3>5, <3>6, <3>7, ComesToAssign DEF At
  <2>5. ASSUME NEW c \in Calls, CallSteps(c)
        PROVE  (\A b, d \in Calls : Assigning(b) /\ Assigning(d) => b = d)'
    <3>1. \A d \in Calls \ {c} : call'[d] = call[d]
      BY <2>5, OthersStay
    <3>2. \A b, d \in Calls \ {c} : Assigning(b)' /\ Assigning(d)' => b = d
      BY <1>0, <3>1 DEF AssignInv, Assigning
    <3> QED
      BY <2>4, <2>5, <3>2
  <2> QED
    BY <2>1, <2>2, <2>3, <2>4, <2>5, OthersStay, CallsStay DEF Moves
<1> QED
  BY <1>1, <1>3, <1>4

-----------------------------------------------------------------------------
(* Points.                                                                 *)

\* Who comes to buy, or to pay a task off.
LEMMA ComesToPay ==
  ASSUME SlayerTypeOK, ShapesInv, NEW c \in Calls, CallSteps(c)
  PROVE  /\ call'[c].op = "buy" /\ At(c, "fetched")' => BeginGated(c, "buy")
         /\ PaysOff(call'[c].op) =>
              \/ \E op \in {"skip", "block"}, new \in BOOLEAN :
                   BeginCall(c, op, new) /\ call'[c].points = points /\ At(c, "fetched")'
              \/ PaysOff(call[c].op) /\ At(c, "drop")'
              \/ \E t \in Tasks : /\ FindsForSkip(c, t) /\ Open(t) /\ PaysOff(call[c].op) /\ At(c, "fetched")
                                  /\ call'[c] = [call[c] EXCEPT !.at = "charge", !.task = t]
                                  /\ call[c].points >= Cost(call[c].op)
<1> USE DEF SlayerTypeOK
<1> DEFINE op == call'[c].op
           Pays == (op = "buy" /\ At(c, "fetched")') \/ PaysOff(op)
<1>1. Ends(c) => ~Pays
  BY DEF Ends, Idle, PaysOff
<1>2. ASSUME NEW o \in Ops, NEW new, Fetches(c, o, new)
      PROVE  op = o /\ At(c, "fetched")' /\ (PaysOff(o) => call'[c].points = points)
  BY <1>2 DEF Fetches, At
<1>3. ASSUME NEW t, FindsForNew(c, t)
      PROVE  ~Pays
  <2>1. CASE call[c].op = "turael" /\ call' = [call EXCEPT ![c].at = "asked", ![c].task = t]
    BY <2>1, MovesTyped DEF CallState, PaysOff
  <2>2. CASE call' = [call EXCEPT ![c].at = "assign", ![c].op = "new"]
    BY <2>2, MovesTyped DEF CallState, PaysOff
  <2> QED
    BY <1>1, <1>3, <2>1, <2>2 DEF FindsForNew
<1>4. ASSUME NEW t \in Tasks \cup {NoTask}, FindsForSkip(c, t), Pays
      PROVE  /\ t \in Tasks /\ Open(t) /\ PaysOff(call[c].op) /\ At(c, "fetched")
             /\ call'[c] = [call[c] EXCEPT !.at = "charge", !.task = t]
             /\ call[c].points >= Cost(call[c].op)
             /\ op # "buy"
  <2>1. ~Ends(c) /\ ~Fetches(c, "new", FALSE)
    BY <1>1, <1>2, <1>4 DEF PaysOff, Ops
  <2>2. t # NoTask /\ call' = [call EXCEPT ![c].at = "charge", ![c].task = t]
          /\ call[c].points >= Cost(call[c].op) /\ PaysOff(call[c].op) /\ At(c, "fetched") /\ t \in CurrentTask
    BY <1>4, <2>1 DEF FindsForSkip
  <2>3. t \in Tasks /\ Open(t)
    BY <2>2 DEF CurrentTask
  <2>4. call'[c] = [call[c] EXCEPT !.at = "charge", !.task = t]
    BY <2>2
  <2>5. op = call[c].op
    BY <2>4, MovesTyped DEF CallState
  <2> QED
    BY <2>2, <2>3, <2>4, <2>5 DEF PaysOff
<1>5. TuraelSkips(c) \/ ResetsStreak(c) => ~Pays
  BY MovesTyped DEF TuraelSkips, ResetsStreak, MoveTo, At, ShapesInv, CallShape, CallState, PaysOff
<1>6. PaysForSkip(c) => At(c, "drop")' /\ PaysOff(call[c].op) /\ op = call[c].op
  BY MovesTyped DEF PaysForSkip, At, ShapesInv, CallShape, CallState
<1>7. ASSUME NEW t, NEW m, NEW n, AssignNewTask(c, t, m, n)
      PROVE  ~Pays
  <2>1. CASE call[c].op = "new" /\ call' = [call EXCEPT ![c].at = "extend", ![c].task = t, ![c].blocked = {}]
    BY <2>1, MovesTyped DEF CallState, PaysOff
  <2> QED
    BY <1>1, <1>7, <2>1 DEF AssignNewTask
<1>8. ASSUME NEW o \in Ops, NEW new, BeginCall(c, o, new)
      PROVE  op = o /\ At(c, "fetched")' /\ (PaysOff(o) => call'[c].points = points)
  BY <1>2, <1>8 DEF BeginCall
<1>9. DropsTask(c) => ~Pays
  BY <1>1, <1>2 DEF DropsTask, PaysOff, Ops
<1>10. TuraelDeclined(c) \/ PaysInShop(c) \/ GivesItem(c) \/ CallFails(c) => ~Pays
  <2>1. PaysInShop(c) /\ MoveTo(c, "give") => ~Pays
    BY MovesTyped DEF PaysInShop, MoveTo, At, CallState, PaysOff
  <2> QED
    BY <1>1, <2>1 DEF TuraelDeclined, PaysInShop, GivesItem, CallFails
<1>11. ASSUME NEW m, NEW n, Extends(c, n) \/ Unblocks(c, m)
       PROVE  ~Pays
  BY <1>1, <1>11 DEF Extends, Unblocks
<1>12. ASSUME NEW o \in {"buy", "unblock"}, BeginGated(c, o)
       PROVE  op = o
  <2>1. o \in Ops /\ BeginCall(c, o, FALSE)
    BY <1>12 DEF BeginGated, Ops
  <2> QED
    BY <1>8, <2>1
<1>13. ASSUME NEW o \in {"new", "turael"}, BeginCall(c, o, FALSE)
       PROVE  ~Pays
  BY <1>8, <1>13 DEF PaysOff, Ops
<1>14. ASSUME NEW o \in {"skip", "block"}, NEW new, BeginCall(c, o, new)
       PROVE  op = o /\ op # "buy" /\ call'[c].points = points /\ At(c, "fetched")'
  BY <1>8, <1>14 DEF PaysOff, Ops
<1> QED
  BY <1>3, <1>4, <1>5, <1>6, <1>7, <1>9, <1>10, <1>11, <1>12, <1>13, <1>14 DEF CallSteps, PaysOff

\* Who writes points.
LEMMA PointsWrites ==
  ASSUME Moves
  PROVE  \/ points' = points /\ ledger' = ledger
         \/ \E c \in Calls : CallSteps(c) /\ (PaysForSkip(c) \/ PaysInShop(c))
         \/ TripSteps /\ HandlerGivesPoints
<1>1. ASSUME NEW c \in Calls, CallSteps(c)
      PROVE  (points' = points /\ ledger' = ledger) \/ PaysForSkip(c) \/ PaysInShop(c)
  BY <1>1 DEF CallSteps, user, ghosts, BeginCall, BeginGated, FindsForNew, FindsForSkip, TuraelSkips,
              TuraelDeclined, ResetsStreak, AssignNewTask, Extends, DropsTask, GivesItem, Unblocks, CallFails
<1>2. ASSUME TripSteps
      PROVE  (points' = points /\ ledger' = ledger) \/ HandlerGivesPoints
  BY <1>2 DEF TripSteps, user, ghosts, StartsTrip, HandlerFindsTask, HandlerRaisesStreak,
              HandlerWritesTask, HandlerCancelsTask, HandlerEnds, HandlerFails
<1> QED
  BY <1>1, <1>2 DEF Moves

\* That a skip overlapped is remembered.
LEMMA RacedStays ==
  ASSUME SlayerTypeOK, Moves, raced
  PROVE  raced'
<1>1. ASSUME NEW c \in Calls, CallSteps(c)
      PROVE  raced' = raced \/ \E op, new : BeginCall(c, op, new)
  BY <1>1 DEF CallSteps, ghosts, BeginGated, FindsForNew, FindsForSkip, TuraelSkips, TuraelDeclined,
              ResetsStreak, AssignNewTask, Extends, PaysForSkip, DropsTask, PaysInShop, GivesItem, Unblocks, CallFails
<1>2. ASSUME TripSteps
      PROVE  raced' = raced \/ \E t, each : HandlerFindsTask(t, each)
  BY <1>2 DEF TripSteps, ghosts, StartsTrip, HandlerRaisesStreak, HandlerGivesPoints,
              HandlerWritesTask, HandlerCancelsTask, HandlerEnds, HandlerFails
<1> QED
  BY <1>1, <1>2 DEF Moves, BeginCall, HandlerFindsTask

\* Without a race a skip writes the points as they are, less its cost.
LEMMA LedgerStep ==
  ASSUME SlayerTypeOK, ShapesInv, RaceInv, PointsAreKept, Moves, ~raced'
  PROVE  points' = ledger'
<1>0. ~raced /\ points = ledger /\ points \in Int
  BY RacedStays DEF PointsAreKept, SlayerTypeOK
<1>1. ASSUME NEW c \in Calls, PaysForSkip(c)
      PROVE  points' = ledger'
  <2>1. call[c].points = points /\ Cost(call[c].op) \in Int
    BY <1>0, <1>1 DEF PaysForSkip, RaceInv, ShapesInv, CallShape, At, Cost
  <2> QED
    BY <1>0, <1>1, <2>1 DEF PaysForSkip, Enter
<1>2. ASSUME NEW c \in Calls, PaysInShop(c)
      PROVE  points' = ledger'
  BY <1>0, <1>2, SlayerAssumption DEF PaysInShop, Enter
<1>3. CASE HandlerGivesPoints
  <2>1. PointsFor(trip.streak) \in Nat
    BY SlayerAssumption DEF PointsFor
  <2> QED
    BY <1>0, <1>3, <2>1 DEF HandlerGivesPoints, Enter
<1> QED
  BY <1>0, <1>1, <1>2, <1>3, PointsWrites

\* Sets of calls can be counted.
LEMMA BuyingFinite ==
  /\ IsFiniteSet(Buying) /\ Cardinality(Buying) \in Nat
  /\ \A S \in SUBSET Buying : IsFiniteSet(S) /\ Cardinality(S) \in Nat /\ Cardinality(S) <= Cardinality(Buying)
<1>1. Buying \subseteq Calls /\ IsFiniteSet(Calls)
  BY SlayerAssumption DEF Buying
<1>2. IsFiniteSet(Buying)
  BY <1>1, FS_Subset
<1> QED
  BY <1>2, FS_Subset, FS_CardinalityType

\* A smaller number of purchases costs less, and one more costs one price more.
LEMMA Costs ==
  ASSUME NEW m \in Nat, NEW n \in Nat, m <= n
  PROVE  /\ m * ItemCost <= n * ItemCost /\ m * ItemCost \in Nat
         /\ (n + 1) * ItemCost = n * ItemCost + ItemCost
BY SlayerAssumption

\* A purchase begins when there are points for it and no more others are under
\* way than the player was freed.
LEMMA BuyStep ==
  ASSUME SlayerTypeOK, ShapesInv, RaceInv, BuyInv, Moves
  PROVE  BuyInv'
<1> SUFFICES ASSUME ~raced'
             PROVE  points' + freed' * ItemCost >= Cardinality(Buying') * ItemCost
  BY DEF BuyInv, Buying
<1> DEFINE n == Cardinality(Buying)
<1>0. /\ points \in Int /\ freed \in Nat /\ freed' = freed /\ ItemCost \in Nat /\ n \in Nat
      /\ freed * ItemCost \in Nat /\ n * ItemCost \in Nat
      /\ ~raced /\ points + freed * ItemCost >= n * ItemCost
  <2>1. freed' = freed
    <3>1. ASSUME NEW c \in Calls, CallSteps(c)
          PROVE  freed' = freed
      BY <3>1 DEF CallSteps, user, BeginCall, BeginGated, FindsForNew, FindsForSkip, TuraelSkips, TuraelDeclined,
             ResetsStreak, AssignNewTask, Extends, PaysForSkip, DropsTask, PaysInShop, GivesItem, Unblocks,
             CallFails
    <3>2. TripSteps => freed' = freed
      BY DEF TripSteps, user, StartsTrip, HandlerFindsTask, HandlerRaisesStreak, HandlerGivesPoints,
             HandlerWritesTask, HandlerCancelsTask, HandlerEnds, HandlerFails
    <3> QED
      BY <3>1, <3>2 DEF Moves
  <2> QED
    BY <2>1, RacedStays, BuyingFinite, Costs, SlayerAssumption DEF SlayerTypeOK, BuyInv
<1> HIDE DEF n
<1>1. ASSUME points' \in Int, points' >= points, Buying' \subseteq Buying
      PROVE  points' + freed' * ItemCost >= Cardinality(Buying') * ItemCost
  <2>1. Cardinality(Buying') \in Nat /\ Cardinality(Buying') <= n
    BY <1>1, BuyingFinite DEF n
  <2>2. Cardinality(Buying') * ItemCost <= n * ItemCost /\ Cardinality(Buying') * ItemCost \in Nat
    BY <1>0, <2>1, Costs
  <2> QED
    BY <1>0, <1>1, <2>2
<1>2. ASSUME NEW c \in Calls, BeginGated(c, "buy"), Buying' \subseteq Buying \cup {c}
      PROVE  points' + freed' * ItemCost >= Cardinality(Buying') * ItemCost
  <2>1. points' = points /\ points >= ItemCost /\ GateLetsIn
    BY <1>2 DEF BeginGated, BeginCall, user
  <2>2. n <= freed
    <3> DEFINE G == {d \in Calls : call[d].op \in {"buy", "unblock"}}
    <3>1. Buying \subseteq G /\ G \subseteq Calls
      BY DEF Buying
    <3>2. IsFiniteSet(G) /\ Cardinality(G) \in Nat /\ n <= Cardinality(G)
      BY <3>1, SlayerAssumption, FS_Subset, FS_CardinalityType DEF n
    <3>3. Cardinality(G) <= freed
      BY <2>1 DEF GateLetsIn
    <3> HIDE DEF G
    <3> QED
      BY <1>0, <3>2, <3>3
  <2>3. Cardinality(Buying') \in Nat /\ Cardinality(Buying') <= n + 1
    <3>1. IsFiniteSet(Buying \cup {c}) /\ Cardinality(Buying \cup {c}) <= n + 1
      BY <1>0, BuyingFinite, FS_AddElement DEF n
    <3>2. Cardinality(Buying \cup {c}) \in Nat /\ Cardinality(Buying') \in Nat
             /\ Cardinality(Buying') <= Cardinality(Buying \cup {c})
      BY <1>2, <3>1, FS_Subset, FS_CardinalityType
    <3> QED
      BY <1>0, <3>1, <3>2
  <2>4. n * ItemCost <= freed * ItemCost
    BY <1>0, <2>2, Costs
  <2>5. Cardinality(Buying') * ItemCost <= n * ItemCost + ItemCost /\ Cardinality(Buying') * ItemCost \in Nat
    <3>1. n + 1 \in Nat
      BY <1>0
    <3>2. Cardinality(Buying') * ItemCost <= (n + 1) * ItemCost /\ Cardinality(Buying') * ItemCost \in Nat
      BY <2>3, <3>1, Costs
    <3>3. (n + 1) * ItemCost = n * ItemCost + ItemCost
      BY <1>0, Costs
    <3> QED
      BY <3>2, <3>3
  <2> QED
    BY <1>0, <2>1, <2>4, <2>5
<1>3. ASSUME NEW c \in Calls, PaysInShop(c), Buying' \subseteq Buying \ {c}
      PROVE  points' + freed' * ItemCost >= Cardinality(Buying') * ItemCost
  <2>1. points' = points - ItemCost /\ c \in Buying
    BY <1>3 DEF PaysInShop, Buying
  <2>2. Cardinality(Buying \ {c}) = n - 1 /\ IsFiniteSet(Buying \ {c})
    BY <2>1, BuyingFinite, FS_RemoveElement DEF n
  <2>3. n - 1 \in Nat /\ Cardinality(Buying') \in Nat /\ Cardinality(Buying') <= n - 1
    BY <1>3, <2>2, FS_Subset, FS_CardinalityType
  <2>4. Cardinality(Buying') * ItemCost <= (n - 1) * ItemCost /\ Cardinality(Buying') * ItemCost \in Nat
    BY <2>3, Costs
  <2>5. ((n - 1) + 1) * ItemCost = (n - 1) * ItemCost + ItemCost /\ (n - 1) + 1 = n
        /\ (n - 1) * ItemCost \in Nat
    BY <1>0, <2>3, Costs
  <2>6. n * ItemCost = (n - 1) * ItemCost + ItemCost
    BY <2>5
  <2> QED
    BY <1>0, <2>1, <2>4, <2>5, <2>6
<1>4. ASSUME NEW c \in Calls, PaysForSkip(c), Buying' \subseteq Buying
      PROVE  points' + freed' * ItemCost >= Cardinality(Buying') * ItemCost
  <2>1. PaysOff(call[c].op) /\ call[c].points >= Cost(call[c].op) /\ call[c].points = points
    BY <1>0, <1>4 DEF PaysForSkip, RaceInv, ShapesInv, CallShape, At
  <2>2. Buying = {}
    <3> SUFFICES ASSUME NEW d \in Buying PROVE FALSE
      OBVIOUS
    <3>1. d \in Calls /\ WritesPoints(d) /\ call[d].op = "buy"
      BY DEF Buying, WritesPoints
    <3>2. d = c
      BY <1>0, <2>1, <3>1 DEF RaceInv
    <3> QED
      BY <2>1, <3>1, <3>2 DEF PaysOff
  <2>3. Cardinality(Buying') = 0
    BY <1>4, <2>2, FS_EmptySet
  <2>4. points' \in Int /\ points' >= 0
    BY <1>0, <1>4, <2>1 DEF PaysForSkip, Cost
  <2>5. Cardinality(Buying') * ItemCost = 0
    BY <1>0, <2>3
  <2>6. freed' * ItemCost \in Nat
    BY <1>0
  <2> QED
    BY <2>4, <2>5, <2>6
<1>5. ASSUME NEW c \in Calls, CallSteps(c)
      PROVE  points' + freed' * ItemCost >= Cardinality(Buying') * ItemCost
  <2>1. \A d \in Calls \ {c} : d \in Buying' => d \in Buying
    BY <1>5, OthersStay DEF Buying, At
  <2>2. c \in Buying' => BeginGated(c, "buy")
    BY <1>5, ComesToPay DEF Buying, At
  <2>3. Buying' \subseteq Calls
    BY DEF Buying
  <2>4. CASE BeginGated(c, "buy")
    BY <1>2, <2>1, <2>3, <2>4
  <2>5. CASE ~BeginGated(c, "buy") /\ PaysInShop(c)
    BY <1>3, <2>1, <2>2, <2>3, <2>5
  <2>6. CASE ~BeginGated(c, "buy") /\ PaysForSkip(c)
    BY <1>4, <2>1, <2>2, <2>3, <2>6
  <2>7. CASE ~BeginGated(c, "buy") /\ ~PaysInShop(c) /\ ~PaysForSkip(c)
    <3>1. points' = points
      BY <1>5, <2>7 DEF CallSteps, user, BeginCall, BeginGated, FindsForNew, FindsForSkip, TuraelSkips,
         TuraelDeclined, ResetsStreak, AssignNewTask, Extends, DropsTask, GivesItem, Unblocks, CallFails
    <3>2. Buying' \subseteq Buying
      BY <2>1, <2>2, <2>3, <2>7
    <3> QED
      BY <1>0, <1>1, <3>1, <3>2
  <2> QED
    BY <2>4, <2>5, <2>6, <2>7
<1>6. ASSUME TripSteps
      PROVE  points' + freed' * ItemCost >= Cardinality(Buying') * ItemCost
  <2>1. Buying' = Buying
    BY <1>6, CallsStay DEF Buying, At
  <2>2. points' = points \/ HandlerGivesPoints
    BY <1>6 DEF TripSteps, user, StartsTrip, HandlerFindsTask, HandlerRaisesStreak, HandlerWritesTask,
                HandlerCancelsTask, HandlerEnds, HandlerFails
  <2>3. PointsFor(trip.streak) \in Nat
    BY SlayerAssumption DEF PointsFor
  <2>4. points' \in Int /\ points' >= points
    BY <1>0, <2>2, <2>3 DEF HandlerGivesPoints
  <2> QED
    BY <1>1, <2>1, <2>4
<1> QED
  BY <1>5, <1>6 DEF Moves

\* So the points are never below what the purchases let in twice can take.
LEMMA PointsBound == SlayerTypeOK /\ BuyInv /\ ~raced => points >= -(freed * ItemCost)
<1> SUFFICES ASSUME SlayerTypeOK, BuyInv, ~raced
             PROVE  points >= -(freed * ItemCost)
  OBVIOUS
<1>1. Cardinality(Buying) * ItemCost \in Nat /\ freed * ItemCost \in Nat /\ points \in Int
  BY BuyingFinite, Costs DEF SlayerTypeOK
<1> QED
  BY <1>1 DEF BuyInv

LEMMA PointsBoundNext == (SlayerTypeOK /\ BuyInv /\ ~raced => points >= -(freed * ItemCost))'
BY PointsBound, PTL

\* Without a race only a task that was left open by a failure is settled twice.
LEMMA SettledStep ==
  ASSUME SlayerTypeOK, ShapesInv, RewardInv, RaceInv, SettledOnce, Moves
  PROVE  SettledOnce'
<1> SUFFICES ASSUME ~raced', NEW t \in Tasks, settled'[t] > 1
             PROVE  t \in broken'
  BY DEF SettledOnce
<1>0. ~raced /\ broken \subseteq broken' /\ settled[t] \in 0..2
  BY RacedStays, BrokenGrows DEF SlayerTypeOK
<1>1. ASSUME Settle(t), Unsettled(t)
      PROVE  t \in broken
  BY <1>0, <1>1 DEF Settle, Unsettled, SlayerTypeOK
<1>2. CASE settled'[t] = settled[t]
  BY <1>0, <1>2 DEF SettledOnce
<1>3. ASSUME NEW c \in Calls, PaysForSkip(c), call[c].task = t
      PROVE  t \in broken
  BY <1>0, <1>1, <1>3 DEF PaysForSkip, RaceInv
<1>4. ASSUME HandlerGivesPoints, trip.task = t
      PROVE  t \in broken
  BY <1>1, <1>4 DEF HandlerGivesPoints, RewardInv
<1> QED
  BY <1>0, <1>2, <1>3, <1>4, SettledWrites

\* A skip that begins beside another writer of points is a race; so none does.
LEMMA RaceCallStep ==
  ASSUME SlayerTypeOK, ShapesInv, RaceInv, SettledIsClosed, NEW c \in Calls, CallSteps(c)
  PROVE  RaceInv'
<1>0. /\ Moves /\ trip' = trip /\ call[c] \in CallState
      /\ \A d \in Calls \ {c} : call'[d] = call[d]
  BY OthersStay, MovesTyped DEF Moves
<1> DEFINE begins == \E op \in {"skip", "block"}, new \in BOOLEAN :
                       BeginCall(c, op, new) /\ call'[c].points = points /\ At(c, "fetched")'
           finds(t) == /\ FindsForSkip(c, t) /\ Open(t) /\ PaysOff(call[c].op) /\ At(c, "fetched")
                       /\ call'[c] = [call[c] EXCEPT !.at = "charge", !.task = t]
                       /\ call[c].points >= Cost(call[c].op)
<1>1. /\ call'[c].op = "buy" /\ At(c, "fetched")' => BeginGated(c, "buy")
      /\ PaysOff(call'[c].op) => begins \/ PaysOff(call[c].op)
      /\ PaysOff(call'[c].op) => begins \/ At(c, "drop")' \/ \E t \in Tasks : finds(t)
  BY <1>0, ComesToPay
<1> SUFFICES ASSUME ~raced'
             PROVE  /\ (\A b, d \in Calls : PaysOff(call[b].op) /\ WritesPoints(d) => b = d)'
                    /\ (Rewarding => \A d \in Calls : ~PaysOff(call[d].op))'
                    /\ (\A d \in Calls :
                         /\ PaysOff(call[d].op) /\ call[d].at \in {"fetched", "charge"} => call[d].points = points
                         /\ At(d, "charge") => call[d].points >= Cost(call[d].op) /\ Unsettled(call[d].task))'
  BY DEF RaceInv
<1>3. ~raced
  BY <1>0, RacedStays
<1>4. /\ begins => ~Rewarding /\ \A d \in Calls : ~WritesPoints(d)
      /\ BeginGated(c, "buy") => \A d \in Calls : ~PaysOff(call[d].op)
  BY <1>3 DEF BeginCall, BeginGated, BeginsToRace, PaysOff
<1>5. \A d \in Calls \ {c} : WritesPoints(d)' <=> WritesPoints(d)
  BY <1>0 DEF WritesPoints, At
<1>6. /\ WritesPoints(c)' => begins \/ BeginGated(c, "buy") \/ PaysOff(call[c].op)
      /\ PaysOff(call[c].op) => WritesPoints(c)
  BY <1>1 DEF WritesPoints, At
<1>7. (\A b, d \in Calls : PaysOff(call[b].op) /\ WritesPoints(d) => b = d)'
  BY <1>0, <1>1, <1>3, <1>4, <1>5, <1>6 DEF RaceInv, WritesPoints
<1>8. (Rewarding => \A d \in Calls : ~PaysOff(call[d].op))'
  BY <1>0, <1>1, <1>3, <1>4 DEF RaceInv, Rewarding
<1>9. ASSUME NEW d \in Calls \ {c}
      PROVE  PaysOff(call[d].op) => points' = points /\ \A t \in Tasks : settled'[t] = settled[t]
  <2>1. PaysOff(call[d].op) => ~PaysForSkip(c)
    BY <1>3, <1>0 DEF PaysForSkip, RaceInv, ShapesInv, CallShape, At, WritesPoints
  <2>2. PaysOff(call[d].op) => ~PaysInShop(c)
    BY <1>3, <1>0 DEF PaysInShop, RaceInv, WritesPoints
  <2>3. points' = points \/ PaysForSkip(c) \/ PaysInShop(c)
    BY DEF CallSteps, user, BeginCall, BeginGated, FindsForNew, FindsForSkip, TuraelSkips,
              TuraelDeclined, ResetsStreak, AssignNewTask, Extends, DropsTask, GivesItem, Unblocks, CallFails
  <2>4. settled' = settled \/ PaysForSkip(c)
    BY DEF CallSteps, ghosts, BeginCall, BeginGated, FindsForNew, FindsForSkip, TuraelSkips,
              TuraelDeclined, ResetsStreak, AssignNewTask, Extends, DropsTask, PaysInShop, GivesItem, Unblocks, CallFails
  <2> QED
    BY <2>1, <2>2, <2>3, <2>4
<1>10. ASSUME NEW d \in Calls \ {c}
       PROVE  (/\ PaysOff(call[d].op) /\ call[d].at \in {"fetched", "charge"} => call[d].points = points
               /\ At(d, "charge") => call[d].points >= Cost(call[d].op) /\ Unsettled(call[d].task))'
  <2>1. call'[d] = call[d] /\ broken \subseteq broken'
    BY <1>0, BrokenGrows
  <2>2. At(d, "charge") => PaysOff(call[d].op) /\ call[d].task \in Tasks
    BY DEF ShapesInv, CallShape, At
  <2>3. Unsettled(call[d].task) /\ At(d, "charge") => Unsettled(call[d].task)'
    BY <1>9, <2>1, <2>2 DEF Unsettled
  <2> QED
    BY <1>3, <1>9, <2>1, <2>2, <2>3 DEF RaceInv, At, WritesPoints
<1>11. ASSUME NEW t \in Tasks, finds(t)
       PROVE  /\ call'[c].points = points' /\ call'[c].points >= Cost(call'[c].op)
              /\ call'[c].task = t /\ Unsettled(t)'
  <2>1. call[c].points = points /\ points' = points /\ settled' = settled /\ broken' = broken
    BY <1>3, <1>11 DEF RaceInv, FindsForSkip, user, ghosts, At
  <2>2. trip.at # "counted"
    BY <1>3, <1>11 DEF RaceInv, Rewarding
  <2>3. \A d \in Calls : ~At(d, "drop")
    BY <1>3, <1>11 DEF RaceInv, WritesPoints, ShapesInv, CallShape, At
  <2>4. Unsettled(t)
    BY <1>11, <2>2, <2>3 DEF SettledIsClosed, Unsettled, SlayerTypeOK
  <2>5. /\ call'[c].points = call[c].points /\ call'[c].op = call[c].op /\ call'[c].task = t
    BY <1>0, <1>11 DEF CallState, PaysOff
  <2> QED
    BY <1>11, <2>1, <2>4, <2>5 DEF Unsettled
<1>12. (/\ PaysOff(call[c].op) /\ call[c].at \in {"fetched", "charge"} => call[c].points = points
        /\ At(c, "charge") => call[c].points >= Cost(call[c].op) /\ Unsettled(call[c].task))'
  <2>1. CASE ~PaysOff(call'[c].op)
    <3>1. ~At(c, "charge")'
      BY <1>0, <2>1, ShapesStep DEF ShapesInv, CallShape, At
    <3> QED
      BY <1>1, <1>4, <2>1, <3>1
  <2>2. CASE PaysOff(call'[c].op) /\ begins
    <3>1. points' = points /\ call'[c].points = points /\ At(c, "fetched")'
      BY <2>2 DEF BeginCall, user
    <3> QED
      BY <2>2, <3>1 DEF At, PaysOff
  <2>3. CASE PaysOff(call'[c].op) /\ At(c, "drop")'
    BY <2>3 DEF At, PaysOff
  <2>4. CASE PaysOff(call'[c].op) /\ \E t \in Tasks : finds(t)
    <3>1. PICK t \in Tasks : finds(t)
      BY <2>4
    <3>2. Unsettled(call[c].task)'
      BY <1>11, <3>1 DEF Unsettled
    <3> QED
      BY <1>11, <3>1, <3>2
  <2> QED
    BY <1>1, <2>1, <2>2, <2>3, <2>4
<1> QED
  BY <1>7, <1>8, <1>10, <1>12 DEF At

LEMMA RaceStep ==
  ASSUME SlayerTypeOK, ShapesInv, RaceInv, SettledIsClosed, Moves
  PROVE  RaceInv'
<1>1. ASSUME TripSteps
      PROVE  RaceInv'
  <2>0. call' = call /\ broken \subseteq broken'
    BY <1>1, CallsStay, BrokenGrows
  <2> SUFFICES ASSUME ~raced'
               PROVE  RaceInv'
    BY DEF RaceInv
  <2>2. ~raced
    BY RacedStays
  <2>3. Rewarding' => Rewarding \/ \A c \in Calls : ~PaysOff(call[c].op)
    <3>1. ASSUME NEW t, NEW each, HandlerFindsTask(t, each)
          PROVE  \A c \in Calls : ~PaysOff(call[c].op)
      BY <3>1 DEF HandlerFindsTask
    <3>2. ASSUME NEW t, NEW kind, NEW m, NEW n, StartsTrip(t, kind, m, n)
          PROVE  ~Rewarding'
      BY <3>2 DEF StartsTrip, Rewarding, NoTrip
    <3> QED
      BY <1>1, <3>1, <3>2 DEF TripSteps, Rewarding, HandlerRaisesStreak, HandlerGivesPoints,
         HandlerWritesTask, HandlerCancelsTask, HandlerEnds, HandlerFails
  <2>4. \A c \in Calls : PaysOff(call[c].op) => ~HandlerGivesPoints
    BY <2>2 DEF RaceInv, Rewarding, HandlerGivesPoints
  <2>5. settled' = settled \/ HandlerGivesPoints
    BY <1>1 DEF TripSteps, ghosts, StartsTrip, HandlerFindsTask, HandlerRaisesStreak, HandlerWritesTask,
                HandlerCancelsTask, HandlerEnds, HandlerFails
  <2>6. points' = points \/ HandlerGivesPoints
    BY <1>1 DEF TripSteps, user, StartsTrip, HandlerFindsTask, HandlerRaisesStreak, HandlerWritesTask,
                HandlerCancelsTask, HandlerEnds, HandlerFails
  <2>7. \A c \in Calls : At(c, "charge") => PaysOff(call[c].op)
    BY DEF ShapesInv, CallShape, At
  <2>8. \A c \in Calls : At(c, "charge") => Unsettled(call[c].task)'
    BY <2>0, <2>2, <2>4, <2>5, <2>7 DEF RaceInv, Unsettled
  <2>9. \A c \in Calls : PaysOff(call[c].op) => points' = points
    BY <2>4, <2>6
  <2> QED
    BY <2>0, <2>2, <2>3, <2>7, <2>8, <2>9 DEF RaceInv, WritesPoints, At
<1> QED
  BY <1>1, RaceCallStep DEF Moves

-----------------------------------------------------------------------------
(* The block list.                                                         *)

\* Sets of blocked monsters, as they shrink and grow.
LEMMA FewerBlocks ==
  ASSUME NEW S, FewBlocks(S), NEW T, T \subseteq S
  PROVE  FewBlocks(T)
<1>1. IsFiniteSet(S) /\ IsFiniteSet(T) /\ Cardinality(T) <= Cardinality(S)
  BY FS_Subset DEF FewBlocks
<1>2. Cardinality(S) \in Nat /\ Cardinality(T) \in Nat
  BY <1>1, FS_CardinalityType
<1> QED
  BY <1>1, <1>2, SlayerAssumption DEF FewBlocks

LEMMA NoBlocks == FewBlocks({})
BY FS_EmptySet, SlayerAssumption DEF FewBlocks

LEMMA OneMoreBlock ==
  ASSUME NEW S, FewBlocks(S), Cardinality(S) < MaxBlocks, NEW m \in Monsters
  PROVE  FewBlocks(S \cup {m})
<1>1. IsFiniteSet(S) /\ Cardinality(S) \in Nat
  BY FS_CardinalityType DEF FewBlocks
<1>2. IsFiniteSet(S \cup {m}) /\ Cardinality(S \cup {m}) <= Cardinality(S) + 1
  BY <1>1, FS_AddElement
<1>3. Cardinality(S \cup {m}) \in Nat
  BY <1>2, FS_CardinalityType
<1> QED
  BY <1>1, <1>2, <1>3, SlayerAssumption DEF FewBlocks

\* The lists that calls have in mind.
LEMMA ListsStep ==
  ASSUME SlayerTypeOK, ShapesInv, BlockInv, NEW c \in Calls, CallSteps(c)
  PROVE  /\ FewBlocks(call'[c].blocked)
         /\ At(c, "charge")' /\ call'[c].op = "block" => Cardinality(call'[c].blocked) < MaxBlocks
<1> USE DEF SlayerTypeOK
<1> DEFINE fine == /\ FewBlocks(call'[c].blocked)
                   /\ At(c, "charge")' /\ call'[c].op = "block" => Cardinality(call'[c].blocked) < MaxBlocks
<1>0. FewBlocks(blocked) /\ FewBlocks(call[c].blocked) /\ FewBlocks({})
  BY NoBlocks DEF BlockInv
<1>1. ASSUME Ends(c) PROVE fine
  <2>1. call'[c].blocked = {} /\ ~At(c, "charge")'
    BY <1>1 DEF Ends, Idle, At
  <2> QED
    BY <1>0, <2>1
<1>2. ASSUME NEW op, NEW new, Fetches(c, op, new) PROVE fine
  <2>1. call'[c].blocked \in {{}, blocked} /\ ~At(c, "charge")'
    BY <1>2 DEF Fetches, At
  <2> QED
    BY <1>0, <2>1
<1>3. ASSUME NEW t, NEW step, call' = [call EXCEPT ![c].at = step, ![c].task = t],
             step # "charge" \/ call[c].op # "block" \/ HasBlocksLeft(c)
      PROVE  fine
  <2>1. call'[c].blocked = call[c].blocked /\ call'[c].op = call[c].op /\ call'[c].at = step
    BY <1>3, MovesTyped DEF CallState
  <2> QED
    BY <1>0, <1>3, <2>1 DEF At, HasBlocksLeft
<1>4. ASSUME NEW step, step # "charge", MoveTo(c, step) PROVE fine
  <2>1. call'[c].blocked = call[c].blocked /\ call'[c].at = step
    BY <1>4, MovesTyped DEF MoveTo, CallState
  <2> QED
    BY <1>0, <1>4, <2>1 DEF At
<1>5. ASSUME NEW t, FindsForNew(c, t) PROVE fine
  <2>1. CASE call' = [call EXCEPT ![c].at = "assign", ![c].op = "new"]
    <3>1. call'[c].blocked = call[c].blocked /\ ~At(c, "charge")'
      BY <2>1, MovesTyped DEF CallState, At
    <3> QED
      BY <1>0, <3>1
  <2> QED
    BY <1>1, <1>3, <1>5, <2>1 DEF FindsForNew
<1>6. ASSUME NEW t, FindsForSkip(c, t) PROVE fine
  BY <1>1, <1>2, <1>3, <1>6 DEF FindsForSkip
<1>7. ASSUME NEW t, NEW m, NEW n, AssignNewTask(c, t, m, n) PROVE fine
  <2>1. CASE call' = [call EXCEPT ![c].at = "extend", ![c].task = t, ![c].blocked = {}]
    <3>1. call'[c].blocked = {} /\ ~At(c, "charge")'
      BY <2>1, MovesTyped DEF CallState, At
    <3> QED
      BY <1>0, <3>1
  <2> QED
    BY <1>1, <1>7, <2>1 DEF AssignNewTask
<1>8. ASSUME PaysForSkip(c) PROVE fine
  <2>1. call'[c].blocked = {} /\ ~At(c, "charge")'
    BY <1>8, MovesTyped DEF PaysForSkip, CallState, At
  <2> QED
    BY <1>0, <2>1
<1> QED
  BY <1>1, <1>2, <1>4, <1>5, <1>6, <1>7, <1>8
  DEF CallSteps, BeginCall, BeginGated, TuraelSkips, TuraelDeclined, ResetsStreak, Extends, DropsTask,
      PaysInShop, GivesItem, Unblocks, CallFails

\* A call adds one monster to a list that it has seen to be below the limit.
LEMMA BlockStep ==
  ASSUME SlayerTypeOK, ShapesInv, BlockInv, Moves
  PROVE  BlockInv'
<1>1. ASSUME NEW c \in Calls, PaysForSkip(c)
      PROVE  FewBlocks(blocked')
  <2>1. CASE call[c].op = "block"
    <3>1. FewBlocks(call[c].blocked) /\ Cardinality(call[c].blocked) < MaxBlocks
      BY <1>1, <2>1 DEF PaysForSkip, BlockInv, HasBlocksLeft
    <3>2. task[call[c].task].monster \in Monsters
      BY <1>1 DEF PaysForSkip, At, ShapesInv, CallShape
    <3> QED
      BY <1>1, <2>1, <3>1, <3>2, OneMoreBlock DEF PaysForSkip
  <2>2. CASE call[c].op # "block"
    BY <1>1, <2>2 DEF PaysForSkip, BlockInv
  <2> QED
    BY <2>1, <2>2
<1>2. ASSUME NEW c \in Calls, NEW m, Unblocks(c, m)
      PROVE  FewBlocks(blocked')
  BY <1>2, FewerBlocks DEF Unblocks, BlockInv
<1>3. ASSUME NEW c \in Calls, CallSteps(c)
      PROVE  FewBlocks(blocked')
  <2>1. blocked' = blocked \/ PaysForSkip(c) \/ \E m : Unblocks(c, m)
    BY <1>3 DEF CallSteps, user, BeginCall, BeginGated, FindsForNew, FindsForSkip, TuraelSkips,
       TuraelDeclined, ResetsStreak, AssignNewTask, Extends, DropsTask, PaysInShop, GivesItem, CallFails
  <2> QED
    BY <1>1, <1>2, <2>1 DEF BlockInv
<1>4. ASSUME NEW c \in Calls, CallSteps(c)
      PROVE  BlockInv'
  BY <1>3, <1>4, ListsStep, OthersStay DEF BlockInv, HasBlocksLeft, At
<1>5. ASSUME TripSteps
      PROVE  BlockInv'
  <2>1. blocked' = blocked
    BY <1>5 DEF TripSteps, user, StartsTrip, HandlerFindsTask, HandlerRaisesStreak, HandlerGivesPoints,
       HandlerWritesTask, HandlerCancelsTask, HandlerEnds, HandlerFails
  <2> QED
    BY <1>5, <2>1, CallsStay DEF BlockInv, HasBlocksLeft, At
<1> QED
  BY <1>4, <1>5 DEF Moves

-----------------------------------------------------------------------------
(* The theorems.                                                           *)

\* The parts of the inductive invariant belong together: what a late write
\* does to a row depends on who can be at work on it, and that on who found
\* the minion free.
SlayerInv ==
  /\ SlayerTypeOK /\ ShapesInv /\ MinionOut /\ WritesInv /\ RewardInv /\ SettledIsClosed
  /\ AssignInv /\ OneOpenTask
  /\ RaceInv /\ BuyInv /\ PointsAreKept /\ SettledOnce
  /\ BlockInv

LEMMA SlayerInvInit == SlayerInit => SlayerInv
<1> SUFFICES ASSUME SlayerInit PROVE SlayerInv
  OBVIOUS
<1>1. SlayerTypeOK
  BY SlayerInitTyped
<1>2. /\ \A t \in Tasks : Unused(t) /\ ~Open(t) /\ settled[t] = 0
      /\ \A c \in Calls : call[c] = Idle
      /\ trip = NoTrip /\ blocked = {} /\ points = ledger /\ points \in Nat /\ freed = 0
  BY SlayerAssumption DEF SlayerInit, Unused, Open, NoRow
<1>3. ShapesInv
  BY <1>2 DEF ShapesInv, CallShape, AtWork, Idle, NoTrip, PaysOff
<1>4. MinionOut /\ WritesInv /\ RewardInv
  BY <1>2 DEF MinionOut, Rewarding, WritesInv, RewardInv, Idle, NoTrip, At
<1>5. SettledIsClosed /\ OneOpenTask /\ SettledOnce
  BY <1>2 DEF SettledIsClosed, OneOpenTask, SettledOnce
<1>6. AssignInv
  BY <1>2 DEF AssignInv, Assigning, At, Idle
<1>7. RaceInv
  BY <1>2 DEF RaceInv, Rewarding, Idle, NoTrip, At, PaysOff
<1>8. BlockInv
  BY <1>2, NoBlocks DEF BlockInv, Idle, At
<1>9. BuyInv
  <2>1. Buying = {}
    BY <1>2 DEF Buying, Idle
  <2>2. Cardinality(Buying) = 0 /\ 0 * ItemCost = 0
    BY <2>1, FS_EmptySet, SlayerAssumption
  <2> QED
    BY <1>2, <2>2 DEF BuyInv
<1>10. PointsAreKept
  BY <1>1, <1>2, <1>9, PointsBound DEF PointsAreKept
<1> QED
  BY <1>1, <1>3, <1>4, <1>5, <1>6, <1>7, <1>8, <1>9, <1>10 DEF SlayerInv

LEMMA SlayerInvStep == SlayerInv /\ [SlayerNext]_slayerVars => SlayerInv'
<1> SUFFICES ASSUME SlayerInv, [SlayerNext]_slayerVars PROVE SlayerInv'
  OBVIOUS
<1>1. CASE Moves
  <2> USE <1>1 DEF SlayerInv
  <2>1. SlayerTypeOK'
    BY CallsTyped, TripsTyped DEF Moves
  <2>2. ShapesInv' /\ MinionOut' /\ WritesInv' /\ RewardInv'
    BY ShapesStep, MinionStep, WritesStep, RewardStep
  <2>3. SettledIsClosed' /\ AssignInv' /\ OneOpenTask'
    BY ClosedOnceSettled, AssignStep
  <2>4. RaceInv' /\ BuyInv' /\ SettledOnce' /\ BlockInv'
    BY RaceStep, BuyStep, SettledStep, BlockStep
  <2>5. PointsAreKept'
    <3>1. ~raced' => (points >= -(freed * ItemCost))'
      BY <2>1, <2>4, PointsBoundNext
    <3> QED
      BY <3>1, LedgerStep DEF PointsAreKept
  <2> QED
    BY <2>1, <2>2, <2>3, <2>4, <2>5
<1>2. CASE Frees \/ UNCHANGED slayerVars
  <2> USE DEF SlayerInv, ghosts, Unused, Open, At
  <2>0. /\ UNCHANGED <<task, points, streak, blocked, call, trip, begun, ghosts>>
        /\ freed' \in Nat /\ freed' >= freed
    BY <1>2 DEF Frees, slayerVars, user, SlayerTypeOK
  <2> USE <2>0
  <2>1. SlayerTypeOK'
    BY DEF SlayerTypeOK
  <2>2. ShapesInv' /\ MinionOut' /\ WritesInv' /\ RewardInv'
    BY DEF ShapesInv, CallShape, AtWork, MinionOut, Rewarding, FoundItFree, WritesInv, StillClosed,
           RewardInv, Unsettled
  <2>3. SettledIsClosed' /\ AssignInv' /\ OneOpenTask'
    BY DEF SettledIsClosed, AssignInv, Assigning, OneOpenTask
  <2>4. RaceInv' /\ SettledOnce' /\ BlockInv'
    BY DEF RaceInv, WritesPoints, Rewarding, Unsettled, SettledOnce, BlockInv, HasBlocksLeft
  <2>5. BuyInv'
    <3>1. Buying' = Buying
      BY DEF Buying
    <3>2. freed * ItemCost <= freed' * ItemCost /\ freed * ItemCost \in Nat /\ freed' * ItemCost \in Nat
      BY Costs DEF SlayerTypeOK
    <3>3. Cardinality(Buying) * ItemCost \in Nat /\ points \in Int
      BY BuyingFinite, Costs DEF SlayerTypeOK
    <3> QED
      BY <3>1, <3>2, <3>3 DEF BuyInv
  <2>6. PointsAreKept'
    <3>1. ~raced' => (points >= -(freed * ItemCost))'
      BY <2>1, <2>5, PointsBoundNext
    <3> QED
      BY <3>1 DEF PointsAreKept
  <2> QED
    BY <2>1, <2>2, <2>3, <2>4, <2>5, <2>6
<1> QED
  BY <1>1, <1>2 DEF Moves, SlayerNext

LEMMA SlayerInvAlways == SlayerSpec => []SlayerInv
BY SlayerInvInit, SlayerInvStep, PTL DEF SlayerSpec

\* Rows, calls, trips and the user stay within their types, whatever overlaps.
THEOREM SlayerTypeCorrect == SlayerSpec => []SlayerTypeOK
<1>1. SlayerInv => SlayerTypeOK
  BY DEF SlayerInv
<1> QED
  BY <1>1, SlayerInvAlways, PTL

\* A second open task comes about only when two calls were about to assign
\* one at the same time, for any number of calls, rows and monsters
\* (slayerUtil.ts:254-263, slayerTaskCommand.ts:292, 343).
THEOREM OneOpenTaskCorrect == SlayerSpec => []OneOpenTask
<1>1. SlayerInv => OneOpenTask
  BY DEF SlayerInv
<1> QED
  BY <1>1, SlayerInvAlways, PTL

\* Unless a skip overlapped, the points are what was earned less what was
\* charged (slayerTaskCommand.ts:425-443); and they are negative by no more than
\* one purchase for each time that the gate was opened to a player at work
\* (slayerShopCommand.ts:40, settings.ts:173-183).
THEOREM PointsAreKeptCorrect == SlayerSpec => []PointsAreKept
<1>1. SlayerInv => PointsAreKept
  BY DEF SlayerInv
<1> QED
  BY <1>1, SlayerInvAlways, PTL

\* Unless a skip overlapped or a write after the payment failed, a task is
\* rewarded or paid off once.
THEOREM SettledOnceCorrect == SlayerSpec => []SettledOnce
<1>1. SlayerInv => SettledOnce
  BY DEF SlayerInv
<1> QED
  BY <1>1, SlayerInvAlways, PTL

\* Whatever overlaps, a task that was rewarded or paid off is closed as soon
\* as the call or handler at work on it has written it
\* (monsterActivity.ts:122-151, slayerTaskCommand.ts:443-452).
THEOREM SettledIsClosedCorrect == SlayerSpec => []SettledIsClosed
<1>1. SlayerInv => SettledIsClosed
  BY DEF SlayerInv
<1> QED
  BY <1>1, SlayerInvAlways, PTL

\* The block list stays within any limit, although every call writes back the
\* list it has read (slayerTaskCommand.ts:402-441).
THEOREM BlocksWithinLimitCorrect == SlayerSpec => []BlocksWithinLimit
<1>1. SlayerInv => BlocksWithinLimit
  BY DEF SlayerInv, BlockInv, FewBlocks, BlocksWithinLimit
<1> QED
  BY <1>1, SlayerInvAlways, PTL

\* A task that is over is not opened again: neither by the handler of a trip,
\* which writes what is left of the task it found, nor by a call that extends
\* the task it assigned.
THEOREM ClosedStaysClosedCorrect == SlayerSpec => ClosedStaysClosed
<1>1. SlayerInv /\ [SlayerNext]_slayerVars
        => [\A t \in Tasks : ~Unused(t) /\ ~Open(t) => ~Open(t)']_slayerVars
  <2>1. Frees => \A t \in Tasks : ~Open(t) => ~Open(t)'
    BY DEF Frees, Open
  <2> QED
    BY <2>1, ClosedStep DEF SlayerInv, SlayerNext, Moves
<1> QED
  BY <1>1, SlayerInvAlways, PTL DEF SlayerSpec, ClosedStaysClosed
=============================================================================
