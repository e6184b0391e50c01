-------------------------------- MODULE Parties --------------------------------
(***************************************************************************)
(* Parties: setupParty and the commands that wait for it.                  *)
(*                                                                         *)
(* A leader's command posts a message with buttons and waits.  A click is  *)
(* first filtered, which awaits the database, and then handled in one      *)
(* turn; the library emits it even if the collector has ended meanwhile.   *)
(* The collector ends after two minutes, when the message is deleted, when *)
(* enough users have clicked, or when the leader starts or cancels; then   *)
(* the message is deleted, the members are read and fetched, and the       *)
(* command gets them, leaves behind whoever is on a trip by now and sends  *)
(* the others off.  A set of locks keeps a user from joining twice; it is  *)
(* shared by all parties and emptied every twenty minutes.                 *)
(*                                                                         *)
(* A trip outlasts the instance: who went stays busy.                      *)
(***************************************************************************)
EXTENDS Integers, FiniteSets

CONSTANTS
  Users,    \* discord users
  Lobbies,  \* slots for calls of setupParty
  MaxClicks,  \* a bound on the clicks of an instance
  Hosts,    \* who may lead each party: a bound on the instance
  NoUser,   \* the leader of an unused slot
  MinSize,  \* options.minSize
  MaxSize,  \* options.maxSize
  Sliced    \* the parties whose command takes the first MaxSize only (tob)

ASSUME PartyAssumption ==
  /\ IsFiniteSet(Users)
  /\ Hosts \in [Lobbies -> SUBSET Users]
  /\ NoUser \notin Users
  /\ MinSize \in Nat
  /\ MaxClicks \in Nat
  /\ MaxSize \in Nat /\ MaxSize >= 2
  /\ Sliced \subseteq Lobbies

VARIABLES
  partyLockCache,     \* users who may not join
  phase,              \* how far each call of setupParty is
  leader,             \* options.leader
  usersWhoConfirmed,  \* the members, in an array the handlers write
  clicked,            \* the users the collector has counted, while it collects
  partyCancelled,     \* the leader has cancelled
  promise,            \* what setupParty returned to its command
  fetched,            \* the members startTrip read
  trip,               \* how far the command is with the trip
  team,               \* whom the command takes along
  clicks,             \* the clicks the filter or the handler still has to look at
  arrived,            \* the clicks so far, for the bound
  late,               \* ghost: users who joined after the collector had ended
  unlocked            \* ghost: guests of an open party who lost their lock

clickVars == <<clicks, arrived>>
collectorVars == <<leader, partyCancelled, promise, fetched>>
tripVars == <<trip, team>>
partyVars ==
  <<partyLockCache, phase, usersWhoConfirmed, clicked, clickVars, late, unlocked,
    collectorVars, tripVars>>

-----------------------------------------------------------------------------
Buttons == {"join", "leave", "cancel", "start"}

\* "open": the collector collects; "ended": the timer of 250 ms runs;
\* "deleting" and "fetching": the awaits of startTrip; "lost": it threw.
PartyPhases == {"none", "sending", "open", "ended", "deleting", "fetching", "done", "lost"}

TripPhases == {"none", "leaving", "gone", "refused"}

Click == [at : {"filter", "passed"}, user : Users, lobby : Lobbies, button : Buttons]

PartyTypeOK ==
  /\ partyLockCache \subseteq Users
  /\ phase \in [Lobbies -> PartyPhases]
  /\ leader \in [Lobbies -> Users \cup {NoUser}]
  /\ usersWhoConfirmed \in [Lobbies -> SUBSET Users]
  /\ clicked \in [Lobbies -> SUBSET Users]
  /\ partyCancelled \in [Lobbies -> BOOLEAN]
  /\ promise \in [Lobbies -> {"pending", "resolved", "rejected"}]
  /\ fetched \in [Lobbies -> SUBSET Users]
  /\ trip \in [Lobbies -> TripPhases]
  /\ team \in [Lobbies -> SUBSET Users]
  /\ clicks \subseteq Click
  /\ arrived \in 0..MaxClicks
  /\ late \in [Lobbies -> SUBSET Users]
  /\ unlocked \subseteq Users

\* The users who joined l by a click.
Guests(l) == usersWhoConfirmed[l] \ {leader[l]}

Collecting(l) == phase[l] = "open"

\* user.minionIsBusy
OnTrip == UNION {team[l] : l \in {m \in Lobbies : trip[m] = "gone"}}

\* The command that waits for party l has returned.
CommandOver(l) == promise[l] = "rejected" \/ trip[l] \in {"gone", "refused"}

\* A slip: the last place is not the last.
IsFullLate(members) == Cardinality(members) > MaxSize

IsFull(members) == Cardinality(members) >= MaxSize

-----------------------------------------------------------------------------
PartyInit ==
  /\ partyLockCache = {}
  /\ phase = [l \in Lobbies |-> "none"]
  /\ leader = [l \in Lobbies |-> NoUser]
  /\ usersWhoConfirmed = [l \in Lobbies |-> {}]
  /\ clicked = [l \in Lobbies |-> {}]
  /\ partyCancelled = [l \in Lobbies |-> FALSE]
  /\ promise = [l \in Lobbies |-> "pending"]
  /\ fetched = [l \in Lobbies |-> {}]
  /\ trip = [l \in Lobbies |-> "none"]
  /\ team = [l \in Lobbies |-> {}]
  /\ clicks = {}
  /\ arrived = 0
  /\ late = [l \in Lobbies |-> {}]
  /\ unlocked = {}

(* A command, of which the gate lets a user run one at a time, calls       *)
(* setupParty, which sends the message.                                    *)
SetsUp(l, u) ==
  /\ phase[l] = "none"
  /\ u \notin OnTrip
  /\ \A m \in Lobbies : leader[m] = u => CommandOver(m)
  /\ phase' = [phase EXCEPT ![l] = "sending"]
  /\ leader' = [leader EXCEPT ![l] = u]
  /\ usersWhoConfirmed' = [usersWhoConfirmed EXCEPT ![l] = {u}]
  /\ UNCHANGED <<partyLockCache, clicked, partyCancelled, promise, fetched, clickVars, late,
                 unlocked, tripVars>>

MessageSent(l) ==
  /\ phase[l] = "sending"
  /\ phase' = [phase EXCEPT ![l] = "open"]
  /\ UNCHANGED <<partyLockCache, usersWhoConfirmed, clicked, clickVars, late, unlocked,
                 collectorVars, tripVars>>

SendingFails(l) ==
  /\ phase[l] = "sending"
  /\ phase' = [phase EXCEPT ![l] = "done"]
  /\ promise' = [promise EXCEPT ![l] = "rejected"]
  /\ UNCHANGED <<partyLockCache, leader, usersWhoConfirmed, clicked, partyCancelled, fetched,
                 clickVars, late, unlocked, tripVars>>

-----------------------------------------------------------------------------
(* What an instance lets a user press.  The clicks left out are answered,  *)
(* and counted, like those kept: a leader's join or leave, and the cancel  *)
(* or start of others, like the leave of who never joined.                 *)
MayPress(l, u) == IF u = leader[l] THEN {"cancel", "start"} ELSE {"join", "leave"}

(* A click on an open party; the filter awaits the user's row.             *)
ClickArrives(l, u, b) ==
  /\ arrived < MaxClicks
  /\ Collecting(l)
  /\ b \in MayPress(l, u)
  /\ arrived' = arrived + 1
  /\ clicks' = clicks \cup {[at |-> "filter", user |-> u, lobby |-> l, button |-> b]}
  /\ UNCHANGED <<partyLockCache, phase, usersWhoConfirmed, clicked, late, unlocked,
                 collectorVars, tripVars>>

(* The minion is busy, an ironman, not bought or not fit, or a query threw *)
(* - for the leader's own clicks too.                                      *)
FilterDenies(k) ==
  /\ k.at = "filter"
  /\ clicks' = clicks \ {k}
  /\ UNCHANGED <<partyLockCache, phase, usersWhoConfirmed, clicked, arrived, late, unlocked,
                 collectorVars, tripVars>>

Fit(k) == k.at = "filter" /\ k.user \notin OnTrip

(* For a join, the filter goes on to await the command's own check.        *)
JoinPassesBusy(k) ==
  /\ Fit(k)
  /\ k.button = "join"
  /\ clicks' = (clicks \ {k}) \cup {[k EXCEPT !.at = "passed"]}
  /\ UNCHANGED <<partyLockCache, phase, usersWhoConfirmed, clicked, arrived, late, unlocked,
                 collectorVars, tripVars>>

-----------------------------------------------------------------------------
\* A slip: the end leaves the locks behind.
UnlocksNobody(members, locks) == locks

(* The locks of the members of a party go, the leader's included, whoever  *)
(* set them.                                                               *)
Unlocks(members, locks) == locks \ members

\* The guests of open parties who have lost their lock, by now or before.
MarksUnlocked ==
  unlocked' = {u \in unlocked \cup (partyLockCache \ partyLockCache') :
                 \E m \in Lobbies : phase'[m] = "open" /\ u \in usersWhoConfirmed'[m] \ {leader[m]}}

(* The handler of a click runs in one turn and leaves members and locks    *)
(* behind.  The collector then stops, if it still collects, when the       *)
(* handler says so (next tells where startTrip is by then) or when as many *)
(* users as there are places have clicked, whatever they clicked.          *)
Settles(k, members, locks, stops, next) ==
  LET l == k.lobby
      counted == clicked[l] \cup {k.user}
      ends == Collecting(l) /\ (stops \/ IsFull(counted))
  IN /\ clicks' = clicks \ {k}
     /\ usersWhoConfirmed' = [usersWhoConfirmed EXCEPT ![l] = members]
     /\ clicked' = [clicked EXCEPT ![l] = IF Collecting(l) /\ ~ends THEN counted ELSE {}]
     /\ partyLockCache' = IF ends THEN Unlocks(members, locks) ELSE locks
     /\ phase' = [phase EXCEPT ![l] = IF ends \/ @ = "ended" THEN next ELSE @]
     /\ MarksUnlocked
     /\ UNCHANGED <<arrived, tripVars>>

(* The handler only replies.                                               *)
OnlyReplies(k) ==
  /\ Settles(k, usersWhoConfirmed[k.lobby], partyLockCache, FALSE, "ended")
  /\ UNCHANGED <<late, collectorVars>>

\* A slip: the locks are not looked at.
MayJoinTwice(l, u) == u \notin usersWhoConfirmed[l]

MayJoin(l, u) == u \notin usersWhoConfirmed[l] /\ u \notin partyLockCache

JoinRefused(k) ==
  /\ k.at = "passed"
  /\ ~MayJoin(k.lobby, k.user)
  /\ OnlyReplies(k)

(* The message may be gone by then: nobody looks whether it is.            *)
JoinHandled(k) ==
  LET l == k.lobby
      u == k.user
      members == usersWhoConfirmed[l] \cup {u}
  IN /\ k.at = "passed"
     /\ MayJoin(l, u)
     /\ Settles(k, members, partyLockCache \cup {u}, IsFull(members), "ended")
     /\ late' = [late EXCEPT ![l] = IF Collecting(l) THEN @ ELSE @ \cup {u}]
     /\ UNCHANGED collectorVars

Pressed(k, b) == Fit(k) /\ k.button = b

LeaveHandled(k) ==
  LET l == k.lobby
      u == k.user
  IN /\ Pressed(k, "leave")
     /\ u \in Guests(l)
     /\ UNCHANGED <<late, collectorVars>>
     /\ Settles(k, usersWhoConfirmed[l] \ {u}, partyLockCache \ {u}, FALSE, "ended")

(* A leave of no guest, a cancel or a start of no leader.                  *)
Refused(k) ==
  LET l == k.lobby
  IN /\ Fit(k)
     /\ \/ k.button = "leave" /\ k.user \notin Guests(l)
        \/ k.button \in {"cancel", "start"} /\ k.user # leader[l]
     /\ OnlyReplies(k)

\* A promise is settled once.
Answer(l, answer) ==
  promise' = [promise EXCEPT ![l] = IF @ = "pending" THEN answer ELSE @]

CancelHandled(k) ==
  LET l == k.lobby
  IN /\ Pressed(k, "cancel")
     /\ k.user = leader[l]
     /\ partyCancelled' = [partyCancelled EXCEPT ![l] = TRUE]
     /\ Answer(l, "rejected")
     /\ Settles(k, usersWhoConfirmed[l], partyLockCache, TRUE, "ended")
     /\ UNCHANGED <<leader, fetched, late>>

(* startTrip begins at once; the timer will find it begun.                 *)
StartHandled(k) ==
  LET l == k.lobby
  IN /\ Pressed(k, "start")
     /\ k.user = leader[l]
     /\ Settles(k, usersWhoConfirmed[l], partyLockCache, TRUE, "deleting")
     /\ UNCHANGED <<late, collectorVars>>

-----------------------------------------------------------------------------
(* Two minutes, or somebody deletes the message.                           *)
TimesUp(l) ==
  /\ Collecting(l)
  /\ phase' = [phase EXCEPT ![l] = "ended"]
  /\ partyLockCache' = Unlocks(usersWhoConfirmed[l], partyLockCache)
  /\ clicked' = [clicked EXCEPT ![l] = {}]
  /\ UNCHANGED <<usersWhoConfirmed, clickVars, late, collectorVars, tripVars>>
  /\ MarksUnlocked

(* 250 ms after the end.                                                   *)
TimerFires(l) ==
  /\ phase[l] = "ended"
  /\ phase' = [phase EXCEPT ![l] = "deleting"]
  /\ UNCHANGED <<partyLockCache, usersWhoConfirmed, clicked, clickVars, late, unlocked,
                 collectorVars, tripVars>>

\* A slip: a party departs with whoever came.
TooFewNever(l) == FALSE

TooFew(l) == ~partyCancelled[l] /\ Cardinality(usersWhoConfirmed[l]) < MinSize

\* A slip: the message says so, and the command is left waiting.
DeletedWithFewUnanswered(l) ==
  /\ phase[l] = "deleting"
  /\ TooFew(l)
  /\ phase' = [phase EXCEPT ![l] = "done"]
  /\ UNCHANGED <<partyLockCache, usersWhoConfirmed, clicked, clickVars, late, unlocked,
                 collectorVars, tripVars>>

(* The message is deleted, or could not be.                                *)
DeletedWithFew(l) ==
  /\ phase[l] = "deleting"
  /\ TooFew(l)
  /\ Answer(l, "rejected")
  /\ phase' = [phase EXCEPT ![l] = "done"]
  /\ UNCHANGED <<partyLockCache, leader, usersWhoConfirmed, clicked, partyCancelled, fetched,
                 clickVars, late, unlocked, tripVars>>

DeletedAndReads(l) ==
  /\ phase[l] = "deleting"
  /\ ~TooFew(l)
  /\ fetched' = [fetched EXCEPT ![l] = usersWhoConfirmed[l]]
  /\ phase' = [phase EXCEPT ![l] = "fetching"]
  /\ UNCHANGED <<partyLockCache, leader, usersWhoConfirmed, clicked, partyCancelled, promise,
                 clickVars, late, unlocked, tripVars>>

Fetched(l) ==
  /\ phase[l] = "fetching"
  /\ Answer(l, "resolved")
  /\ phase' = [phase EXCEPT ![l] = "done"]
  /\ UNCHANGED <<partyLockCache, leader, usersWhoConfirmed, clicked, partyCancelled, fetched,
                 clickVars, late, unlocked, tripVars>>

(* Nobody catches what startTrip throws.                                   *)
FetchFails(l) ==
  /\ phase[l] = "fetching"
  /\ phase' = [phase EXCEPT ![l] = "lost"]
  /\ UNCHANGED <<partyLockCache, usersWhoConfirmed, clicked, clickVars, late, unlocked,
                 collectorVars, tripVars>>

(* Every twenty minutes.                                                   *)
LocksClear ==
  /\ partyLockCache' = {}
  /\ UNCHANGED <<phase, usersWhoConfirmed, clicked, clickVars, late, collectorVars, tripVars>>
  /\ MarksUnlocked

-----------------------------------------------------------------------------
\* The members who are on no trip by now.
Available(l) == fetched[l] \ OnTrip

(* The command has its members; the raid takes the first MaxSize.          *)
TakesAlong(l) ==
  /\ promise[l] = "resolved"
  /\ trip[l] = "none"
  /\ trip' = [trip EXCEPT ![l] = "leaving"]
  /\ \E users \in SUBSET Available(l) :
       /\ IF l \in Sliced /\ Cardinality(Available(l)) > MaxSize
            THEN Cardinality(users) = MaxSize
            ELSE users = Available(l)
       /\ team' = [team EXCEPT ![l] = users]
  /\ UNCHANGED <<partyLockCache, phase, usersWhoConfirmed, clicked, clickVars, late, unlocked,
                 collectorVars>>

(* The team's requirements, its supplies, or a failing query.              *)
TripRefused(l) ==
  /\ trip[l] = "leaving"
  /\ trip' = [trip EXCEPT ![l] = "refused"]
  /\ team' = [team EXCEPT ![l] = {}]
  /\ UNCHANGED <<partyLockCache, phase, usersWhoConfirmed, clicked, clickVars, late, unlocked,
                 collectorVars>>

(* The row is created and the members' activities are synced.              *)
TripDeparts(l) ==
  /\ trip[l] = "leaving"
  /\ trip' = [trip EXCEPT ![l] = "gone"]
  /\ UNCHANGED <<partyLockCache, phase, usersWhoConfirmed, clicked, clickVars, late, unlocked,
                 collectorVars, team>>

-----------------------------------------------------------------------------
CollectorStep(l) ==
  \/ TimesUp(l) \/ TimerFires(l)
  \/ DeletedWithFew(l) \/ DeletedAndReads(l)
  \/ Fetched(l) \/ FetchFails(l)

CommandStep(l) ==
  \/ MessageSent(l) \/ SendingFails(l)
  \/ TakesAlong(l) \/ TripRefused(l) \/ TripDeparts(l)
  \/ \E u \in Hosts[l] : SetsUp(l, u)

ClickStep(k) ==
  \/ FilterDenies(k) \/ JoinPassesBusy(k)
  \/ JoinRefused(k) \/ JoinHandled(k)
  \/ LeaveHandled(k) \/ Refused(k)
  \/ CancelHandled(k) \/ StartHandled(k)

PartyNext ==
  \/ LocksClear
  \/ \E l \in Lobbies : CommandStep(l) \/ CollectorStep(l)
  \/ \E l \in Lobbies, u \in Users, b \in Buttons : ClickArrives(l, u, b)
  \/ \E k \in clicks : ClickStep(k)

PartySpec == PartyInit /\ [][PartyNext]_partyVars

(* Discord and the database answer, and the timers fire; nobody has to     *)
(* click.                                                                  *)
PartyFairSpec ==
  /\ PartySpec
  /\ \A l \in Lobbies : WF_partyVars(CollectorStep(l))

-----------------------------------------------------------------------------
(* What the locks are for: a user is a guest of one open party at a time,  *)
(* unless his lock was taken away under him: by the twenty-minute clear,   *)
(* by the end of a party he leads or has joined late, or by a leave of a   *)
(* party that is over, all of which drop the lock of another party.        *)
OneParty ==
  \A l, m \in Lobbies :
    l # m /\ Collecting(l) /\ Collecting(m) => Guests(l) \cap Guests(m) \subseteq unlocked

(* Nobody stays locked out: a locked user is in an open party, or joined   *)
(* one that was over, where nothing releases him before the next clear.    *)
LocksAreReleased ==
  \A u \in partyLockCache :
    \E l \in Lobbies : u \in (IF Collecting(l) THEN Guests(l) ELSE late[l])

(* A trip is no larger than its command allows, but for the members who    *)
(* joined after the end; a command that slices leaves those behind too.    *)
TeamFits ==
  \A l \in Lobbies :
    /\ Cardinality(team[l] \ late[l]) <= MaxSize
    /\ l \in Sliced => Cardinality(team[l]) <= MaxSize

\* The message is out, and the command waits for what comes of it.
Waiting(l) == phase[l] \notin {"none", "sending", "lost"} /\ promise[l] = "pending"

(* A command that waits for a party gets its answer, unless a member       *)
(* cannot be fetched, which leaves it waiting for ever: as every lobby is  *)
(* used once, again and again none is waiting.                             *)
LobbiesSettle == []<>(\A l \in Lobbies : ~Waiting(l))

(* The promise of setupParty, and how its variables stand for Gathering's: *)
(* once the members are read, the party is what was read.                  *)
Party(l) ==
  IF promise[l] = "rejected" THEN {}
  ELSE IF fetched[l] # {} THEN fetched[l] ELSE usersWhoConfirmed[l]

Outcome(l) ==
  IF promise[l] = "rejected" THEN "off"
  ELSE IF promise[l] = "resolved" THEN "departed"
  ELSE IF phase[l] = "none" THEN "none" ELSE "gathering"

G == INSTANCE Gathering WITH
       host <- leader,
       party <- [l \in Lobbies |-> Party(l)],
       outcome <- [l \in Lobbies |-> Outcome(l)]

(* setupParty is a gathering: the leader stays in, a party departs once    *)
(* and with enough members or is called off, and neither a late click nor  *)
(* a late cancel changes a party that has departed.                        *)
ImplementsGathering == G!GatheringSpec
=============================================================================
