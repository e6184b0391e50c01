----------------------------- MODULE MinionTrips -----------------------------
(***************************************************************************)
(* Trips of the minions: from the command that starts one, through the     *)
(* activity table and the in-memory activity cache, to the ticker that     *)
(* pays its loot, with cancellations, team trips, the moderators' unlock   *)
(* and restarts of the process.                                            *)
(*                                                                         *)
(* Every command that touches a trip is an invocation of CommandGate; this *)
(* module gives its body.  The database survives a restart, the cache and  *)
(* everything else does not.                                               *)
(***************************************************************************)
EXTENDS CommandGate

CONSTANTS
  EntryKinds,   \* how each user starts commands in this instance
  Parties,      \* the parties that can gather around a leader
  Trips,        \* the ids of the activity table: a bound on the rows it ever gets
  MaxRestarts,  \* bound: restarts of the process
  NoTrip        \* no entry in the cache

ASSUME TripAssumption ==
  /\ IsFiniteSet(Users)
  /\ EntryKinds \in [Users -> SUBSET Kinds]
  /\ Parties \subseteq SUBSET Users
  /\ MaxRestarts \in Nat
  /\ NoTrip \notin Trips

VARIABLES
  row,       \* the activity table, by id
  due,       \* rows whose finish date has passed
  cache,     \* minionActivityCache
  body,      \* how far the body of each command is
  found,     \* the activities the running ticker fetched and has not finished
  marked,    \* the ticker has marked them completed
  paying,    \* activities whose handler has not given its loot yet
  cancelled, \* ghost: the trips whose cancellation was confirmed and carried out
  crossed,   \* ghost: users who got on two trips at once, or were unlocked amid
             \* something, and everyone who travelled with them
  paid,      \* ghost: how often the loot of a trip was given
  restarts   \* restarts so far

tripOnlyVars == <<row, due, cache, body, found, marked, paying, cancelled, crossed, paid, restarts>>
tripVars == <<gateVars, tripOnlyVars>>

-----------------------------------------------------------------------------
RowStates == {"unused", "open", "completed", "deleted"}
Rows == [state : RowStates, owner : Users \cup {NoUser}, team : SUBSET Users]
NoRow == [state |-> "unused", owner |-> NoUser, team |-> {}]

Operations == {"start", "team", "cancel", "unlock", "other"}
Steps == {"begin", "charged", "created", "asked", "deleted", "done"}
Bodies ==
  [op : Operations \cup {"none"}, at : Steps, trip : Trips \cup {NoTrip},
   with : SUBSET Users]
NoBody == [op |-> "none", at |-> "done", trip |-> NoTrip, with |-> {}]

TripTypeOK ==
  /\ TypeOK
  /\ row \in [Trips -> Rows]
  /\ due \subseteq Trips
  /\ cache \in [Users -> Trips \cup {NoTrip}]
  /\ body \in [Commands -> Bodies]
  /\ found \subseteq Trips
  /\ marked \in BOOLEAN
  /\ paying \subseteq found
  /\ cancelled \subseteq Trips
  /\ crossed \subseteq Users
  /\ paid \in [Trips -> 0..2]
  /\ restarts \in 0..MaxRestarts

\* What a command started in some way can go on to do.
OperationsOf(k) ==
  CASE k = "slash"  -> {"start", "team", "cancel", "other"}
    [] k = "button" -> {"start", "cancel", "other"}
    [] k = "nested" -> {"start"}
    [] k = "repeat" -> {"start"}
    [] k = "casket" -> {"other"}
    [] k = "admin"  -> {"unlock", "other"}

Free(u) == cache[u] = NoTrip

\* A slip: the query forgets "completed: false".
OpenOrCompleted(t) == row[t].state \in {"open", "completed"}

Open(t) == row[t].state = "open"

OpenRowsOf(u) == {t \in Trips : Open(t) /\ row[t].owner = u}

Unused(t) == row[t].state = "unused"

TripOf(u) == {t \in found : row[t].owner = u}

\* The insert of t by c has not returned yet.
Creating(c, t) == body[c].at = "created" /\ body[c].trip = t

\* The trips that are under way, being created or being completed; those
\* the cache still names, too.
Current == {t \in Trips : Open(t) \/ t \in found \/ \E c \in Commands : Creating(c, t)}
Known == Current \cup {t \in Trips : \E u \in Users : cache[u] = t}

\* Who is on trip t, or leads it.
Aboard(t) == {u \in Users : u \in row[t].team \/ u = row[t].owner}

\* The users of S, everyone who is on a trip with one of them, and so on.
TripMates(S) ==
  LET Together(M) == \A t \in Known : Aboard(t) \cap M # {} => Aboard(t) \subseteq M
  IN  {u \in Users : \A M \in SUBSET Users : S \subseteq M /\ Together(M) => u \in M}

\* A command of u runs, or a trip of his is being completed.
Midway(u) == Credit(u) # 0 \/ \E t \in found : u \in row[t].team

At(c, op, step) == cmd[c].phase = "run" /\ body[c].op = op /\ body[c].at = step

Advance(c, step, trip, with) ==
  body' = [body EXCEPT ![c] = [op |-> body[c].op, at |-> step, trip |-> trip, with |-> with]]

MoveTo(c, step) == Advance(c, step, body[c].trip, body[c].with)

\* A slip: the cache entry outlives the trip.
ForgetNothing(entries, u) == entries

\* A slip: the whole cache is cleared.
ForgetEverybody(entries, u) == [v \in Users |-> NoTrip]

\* minionActivityCacheDelete: the entry of u goes, and with it the entries
\* of everyone in the trip that entry names.
Forget(entries, u) ==
  IF entries[u] = NoTrip
    THEN entries
    ELSE [v \in Users |-> IF v \in row[entries[u]].team THEN NoTrip ELSE entries[v]]

\* deleteMany on the open rows of u.
DeleteOpenRows(u) ==
  row' = [t \in Trips |-> IF t \in OpenRowsOf(u) THEN [row[t] EXCEPT !.state = "deleted"] ELSE row[t]]

-----------------------------------------------------------------------------
TripInit ==
  /\ GateInit
  /\ row = [t \in Trips |-> NoRow]
  /\ due = {}
  /\ cache = [u \in Users |-> NoTrip]
  /\ body = [c \in Commands |-> NoBody]
  /\ found = {}
  /\ marked = FALSE
  /\ paying = {}
  /\ cancelled = {}
  /\ crossed = {}
  /\ paid = [t \in Trips |-> 0]
  /\ restarts = 0

(* The parts of the gate that know nothing of trips.                       *)
GateOnly ==
  /\ \/ \E c \in Commands, u \in Users :
          \/ \E k \in SlashKinds \cap EntryKinds[u] : SlashArrives(c, u, k)
          \/ \E k \in HookedKinds \cap EntryKinds[u] : ButtonArrives(c, u, k)
          \/ \E k \in DirectKinds \cap EntryKinds[u] : RunCommandDirectly(c, u, k)
     \/ \E c \in Commands :
          \/ HookRefuses(c) \/ HookAnswers(c) \/ HookPasses(c)
          \/ PreCommandRefuses(c) \/ PreCommandThrows(c) \/ PreCommandAcquires(c)
          \/ InhibitorRefuses(c)
     \/ \E u \in Users : CooldownExpires(u) \/ ReleaseFires(u)
  /\ UNCHANGED tripOnlyVars

(* The last inhibitor lets the command through.  One that starts a trip    *)
(* needs its user's minion to be free.                                     *)
BodyBegins(c) ==
  /\ CommandRuns(c)
  /\ \E op \in OperationsOf(cmd[c].kind) :
       /\ op \in {"start", "team"} => Free(cmd[c].user)
       /\ body' = [body EXCEPT ![c] =
                     [op |-> op, at |-> "begin", trip |-> NoTrip, with |-> {}]]
  /\ UNCHANGED <<row, due, cache, found, marked, paying, cancelled, crossed, paid, restarts>>

(* A command returns, refuses or throws between its effects.               *)
BodyEnds(c) ==
  /\ CommandEnds(c)
  /\ body[c].at \in {"begin", "asked", "done"}
  /\ body' = [body EXCEPT ![c] = NoBody]
  /\ UNCHANGED <<row, due, cache, found, marked, paying, cancelled, crossed, paid, restarts>>

-----------------------------------------------------------------------------
(* Starting a trip: the items are taken from the bank first.               *)
TakeItems(c) ==
  /\ At(c, "start", "begin")
  /\ Advance(c, "charged", NoTrip, {cmd[c].user})
  /\ UNCHANGED <<gateVars, row, due, cache, found, marked, paying, cancelled, crossed, paid, restarts>>

(* A team trip: the party has gathered, members whose minion got busy are  *)
(* dropped, the items of the others are taken.                             *)
PartyDeparts(c) ==
  /\ At(c, "team", "begin")
  /\ \E party \in Parties :
       /\ cmd[c].user \in party
       /\ \E v \in party : Free(v)
       /\ Advance(c, "charged", NoTrip, {v \in party : Free(v)})
  /\ UNCHANGED <<gateVars, row, due, cache, found, marked, paying, cancelled, crossed, paid, restarts>>

Charged(c) == At(c, "start", "charged") \/ At(c, "team", "charged")

\* Two commands of a user run, and it is not the gate that let them.
PastTheGate(c, d) == debt[cmd[c].user] # 0 \/ ~({cmd[c].kind, cmd[d].kind} \subseteq GatedKinds)

\* The prompt of a cancellation by u is out, or was confirmed.
CancelsDuring(c, u) ==
  \E d \in Commands :
    /\ cmd[d].user = u
    /\ At(d, "cancel", "asked") \/ At(d, "cancel", "deleted")
    /\ u = cmd[c].user => PastTheGate(c, d)

\* The leader was busy when his party left, and is free again: then he is
\* not of it.  Or somebody is on another trip by now, leads or cancels one,
\* or is about to be freed from one by its handler.
Mixed(c) ==
  \/ cmd[c].user \notin body[c].with
  \/ \E u \in body[c].with \cup {cmd[c].user} :
       \/ ~Free(u) \/ u \in crossed \/ CancelsDuring(c, u)
       \/ \E t \in Current : u \in Aboard(t)

(* addSubTaskToActivityTask asks the cache about its user only, then       *)
(* inserts; the table holds one open row per user.                         *)
CreateRow(c, t) ==
  LET u == cmd[c].user IN
  /\ Charged(c)
  /\ Unused(t)
  /\ Free(u)
  /\ OpenRowsOf(u) = {}
  /\ row' = [row EXCEPT ![t] = [state |-> "open", owner |-> u, team |-> body[c].with]]
  /\ Advance(c, "created", t, body[c].with)
  /\ crossed' = IF Mixed(c) THEN crossed \cup TripMates(body[c].with \cup {u}) ELSE crossed
  /\ UNCHANGED <<gateVars, due, cache, found, marked, paying, cancelled, paid, restarts>>

(* The cached activity, the unique index or a failing database refuses the *)
(* trip after its items were taken; nothing gives them back.               *)
StartFails(c) ==
  /\ Charged(c)
  /\ CommandEnds(c)
  /\ body' = [body EXCEPT ![c] = NoBody]
  /\ UNCHANGED <<row, due, cache, found, marked, paying, cancelled, crossed, paid, restarts>>

(* activitySync, once the insert has returned.                             *)
SyncActivity(c) ==
  /\ cmd[c].phase = "run"
  /\ body[c].at = "created"
  /\ cache' = [v \in Users |-> IF v \in row[body[c].trip].team THEN body[c].trip ELSE cache[v]]
  /\ MoveTo(c, "done")
  /\ UNCHANGED <<gateVars, row, due, found, marked, paying, cancelled, crossed, paid, restarts>>

(* Time passes; trips last minutes, so none is over before its own insert  *)
(* has returned.                                                           *)
TripFinishes(t) ==
  /\ Open(t)
  /\ \A c \in Commands : body[c].at = "created" => body[c].trip # t
  /\ t \notin due
  /\ due' = due \cup {t}
  /\ UNCHANGED <<gateVars, row, cache, body, found, marked, paying, cancelled, crossed, paid, restarts>>

-----------------------------------------------------------------------------
\* A slip: the team check is missing.
AskToCancelAnyTrip(c) ==
  LET t == cache[cmd[c].user] IN
  /\ At(c, "cancel", "begin")
  /\ t # NoTrip
  /\ Advance(c, "asked", t, {})
  /\ UNCHANGED <<gateVars, row, due, cache, found, marked, paying, cancelled, crossed, paid, restarts>>

(* Cancelling: not while in a team; then a prompt of up to 15 seconds.     *)
AskToCancel(c) ==
  LET t == cache[cmd[c].user] IN
  /\ At(c, "cancel", "begin")
  /\ t # NoTrip
  /\ Cardinality(row[t].team) <= 1
  /\ Advance(c, "asked", t, {})
  /\ UNCHANGED <<gateVars, row, due, cache, found, marked, paying, cancelled, crossed, paid, restarts>>

(* Confirmed: cancelTask deletes whatever open row the user has by now,    *)
(* one that is still being created too, if the gate let both in.           *)
CancelRows(c) ==
  LET u == cmd[c].user IN
  /\ At(c, "cancel", "asked")
  /\ DeleteOpenRows(u)
  /\ cancelled' = cancelled \cup {body[c].trip}
  /\ crossed' = IF \E d \in Commands : body[d].at = "created" /\ cmd[d].user = u
                  THEN crossed \cup TripMates({u}) ELSE crossed
  /\ MoveTo(c, "deleted")
  /\ UNCHANGED <<gateVars, due, cache, found, marked, paying, paid, restarts>>

CancelCache(c) ==
  /\ At(c, "cancel", "deleted")
  /\ cache' = [cache EXCEPT ![cmd[c].user] = NoTrip]
  /\ MoveTo(c, "done")
  /\ UNCHANGED <<gateVars, row, due, found, marked, paying, cancelled, crossed, paid, restarts>>

(* /admin cancel_task on user u.                                           *)
AdminDeletesRows(c, u) ==
  /\ At(c, "unlock", "begin")
  /\ DeleteOpenRows(u)
  /\ Advance(c, "deleted", NoTrip, {u})
  /\ crossed' = IF Midway(u) THEN crossed \cup TripMates({u}) ELSE crossed
  /\ UNCHANGED <<gateVars, due, cache, found, marked, paying, cancelled, paid, restarts>>

(* cancelTask drops the user's cache entry, then the busy counter goes,    *)
(* then minionActivityCacheDelete looks the entry up.                      *)
AdminFrees(c, u) ==
  /\ At(c, "unlock", "deleted")
  /\ body[c].with = {u}
  /\ AdminUnlocks(c, u)
  /\ cache' = Forget([cache EXCEPT ![u] = NoTrip], u)
  /\ MoveTo(c, "done")
  /\ crossed' = IF Midway(u) \/ \E t \in Current : u \in row[t].team
                  THEN crossed \cup TripMates({u}) ELSE crossed
  /\ UNCHANGED <<row, due, found, marked, paying, cancelled, paid, restarts>>

AdminStopsBot(c) ==
  /\ restarts < MaxRestarts
  /\ At(c, "other", "begin")
  /\ AdminReboots(c)
  /\ UNCHANGED tripOnlyVars

-----------------------------------------------------------------------------
(* The minion_activities ticker: fetch the due rows ...                    *)
TickFinds ==
  /\ TickerStarts
  /\ found' = {t \in due : Open(t)}
  /\ marked' = FALSE
  /\ UNCHANGED <<row, due, cache, body, paying, cancelled, crossed, paid, restarts>>

(* ... mark them completed, those that are still there ...                 *)
TickMarks ==
  /\ ticking /\ ~marked /\ completing = {} /\ found # {}
  /\ row' = [t \in Trips |->
               IF t \in found /\ Open(t) THEN [row[t] EXCEPT !.state = "completed"] ELSE row[t]]
  /\ marked' = TRUE
  /\ UNCHANGED <<gateVars, due, cache, body, found, paying, cancelled, crossed, paid, restarts>>

(* ... and hand every fetched row to completeActivity in one turn.         *)
TickCompletes ==
  /\ marked /\ paying = {}
  /\ CompletionsBegin({row[t].owner : t \in found})
  /\ paying' = found
  /\ UNCHANGED <<row, due, cache, body, found, marked, cancelled, crossed, paid, restarts>>

(* Nothing was due, or a query failed and the ticker tries again later.    *)
TickEnds ==
  /\ ~marked
  /\ NothingDue
  /\ found' = {}
  /\ UNCHANGED <<row, due, cache, body, marked, paying, cancelled, crossed, paid, restarts>>

(* The task's handler gives the loot, unless it throws first.              *)
HandlerPays(t) ==
  /\ t \in paying
  /\ row[t].owner \in completing
  /\ paying' = paying \ {t}
  /\ paid' = [paid EXCEPT ![t] = IF @ < 2 THEN @ + 1 ELSE @]
  /\ UNCHANGED <<gateVars, row, due, cache, body, found, marked, cancelled, crossed, restarts>>

(* completeActivity's finally block.                                       *)
HandlerEnds(u) ==
  /\ CompletionEnds(u)
  /\ cache' = Forget(cache, u)
  /\ found' = found \ TripOf(u)
  /\ paying' = paying \ TripOf(u)
  /\ marked' = (completing # {u})
  /\ UNCHANGED <<row, due, body, cancelled, crossed, paid, restarts>>

-----------------------------------------------------------------------------
\* syncActivityCache: every open row, for its owner and its team.
CacheOf(u) ==
  LET mine == {t \in Trips : Open(t) /\ u \in row[t].team}
  IN  IF mine = {} THEN {NoTrip} ELSE mine

(* The process dies anywhere and comes back; the cache is read from the    *)
(* open rows before it logs in.                                            *)
ProcessRestarts ==
  /\ restarts < MaxRestarts
  /\ restarts' = restarts + 1
  /\ GateRestarts
  /\ body' = [c \in Commands |-> NoBody]
  /\ found' = {}
  /\ marked' = FALSE
  /\ paying' = {}
  /\ cache' \in [Users -> Trips \cup {NoTrip}]
  /\ \A u \in Users : cache'[u] \in CacheOf(u)
  /\ UNCHANGED <<row, due, cancelled, crossed, paid>>

-----------------------------------------------------------------------------
BodySteps(c) ==
  \/ TakeItems(c)
  \/ PartyDeparts(c)
  \/ \E t \in Trips : CreateRow(c, t)
  \/ StartFails(c)
  \/ SyncActivity(c)
  \/ AskToCancel(c)
  \/ CancelRows(c)
  \/ CancelCache(c)
  \/ \E u \in Users : AdminDeletesRows(c, u) \/ AdminFrees(c, u)

TripNext ==
  \/ GateOnly
  \/ \E c \in Commands : BodyBegins(c) \/ BodyEnds(c) \/ BodySteps(c) \/ AdminStopsBot(c)
  \/ \E t \in Trips : TripFinishes(t) \/ HandlerPays(t)
  \/ \E u \in Users : HandlerEnds(u)
  \/ TickFinds
  \/ TickMarks
  \/ TickCompletes
  \/ TickEnds
  \/ ProcessRestarts

TripSafety == TripInit /\ [][TripNext]_tripVars

\* The ticker runs every five seconds and a query does not fail for ever;
\* handlers, inserts and deletes return; a process told to reboot exits.
TripFairness ==
  /\ WF_tripVars(TickFinds)
  /\ SF_tripVars(TickMarks)
  /\ WF_tripVars(TickCompletes)
  /\ WF_tripVars(found = {} /\ TickEnds)
  /\ \A u \in Users : WF_tripVars(HandlerEnds(u))
  /\ \A c \in Commands, u \in Users : WF_tripVars(AdminFrees(c, u))
  /\ \A t \in Trips : WF_tripVars(TripFinishes(t))
  /\ \A c \in Commands : WF_tripVars(SyncActivity(c)) /\ WF_tripVars(CancelCache(c))
  /\ WF_tripVars(shuttingDown /\ ProcessRestarts)

TripSpec == TripSafety /\ TripFairness

-----------------------------------------------------------------------------
(* The loot of a trip is given at most once, whatever crashes, cancels and *)
(* ticker runs come in between (tickers.ts:118-141, Task.ts:177-198).      *)
PaidAtMostOnce == \A t \in Trips : paid[t] <= 1

\* The trips somebody on which got on another one too, because a party asks
\* whether its members are busy before it is charged, and gates its leader
\* only, or because the ticker had fetched the trip he cancelled; or was
\* unlocked amid something.
Tangled(t) == row[t].team \cap crossed # {}

(* Everyone on an open trip is marked busy in the cache with that trip,    *)
(* from the moment the insert returned: nothing frees a minion or puts     *)
(* another trip in its place, but for a tangled team.                      *)
OpenRowCached ==
  \A t \in Trips : Open(t) =>
    \/ \A u \in row[t].team : cache[u] = t
    \/ \E c \in Commands : body[c].at = "created" /\ body[c].trip = t
    \/ Tangled(t)

\* A command is between deleting the rows of u and dropping his entry.
BeingFreed(u) ==
  \E c \in Commands :
    \/ At(c, "cancel", "deleted") /\ cmd[c].user = u
    \/ At(c, "unlock", "deleted") /\ body[c].with = {u}

(* Nobody is stranded with a trip that will never be paid: it is open or   *)
(* being completed, or its entry is about to go.  Only a moderator who     *)
(* cancels a team's trip strands the other members: its leader's entry is  *)
(* gone when the members are looked up in it (admin.ts:604-611).           *)
NobodyIsStranded ==
  \A u \in Users :
    LET t == cache[u] IN
      ~Free(u) =>
        \/ Open(t) \/ t \in found
        \/ BeingFreed(row[t].owner)
        \/ row[t].state = "deleted" /\ u # row[t].owner
        \/ Tangled(t)

(* A command that took the items of a trip can start it: its minion is     *)
(* still free and the table has no open row of its user - unless another   *)
(* leader's party has taken him along, or he was unlocked amid something.  *)
ChargedCanStart ==
  \A c \in Commands :
    LET u == cmd[c].user
        takenAlong == \E t \in Trips : cache[u] = t /\ row[t].owner # u
    IN
      Charged(c) => \/ Free(u) /\ OpenRowsOf(u) = {}
                    \/ takenAlong \/ u \in crossed

(* A confirmed cancellation deletes no other trip than the one its prompt  *)
(* named, unless somebody on it got on two (cancelTaskCommand.ts:38-47,    *)
(* settings.ts:63-66).                                                     *)
CancelsWhatItAsked ==
  [][\A c \in Commands, t \in Trips :
       CancelRows(c) /\ Open(t) /\ ~Open(t)' /\ ~Tangled(t) => body[c].trip = t]_tripVars

(* The end of a trip's handler frees no minion from another trip, again    *)
(* but for users who got on two trips (Task.ts:187-197,                    *)
(* settings.ts:53-61).                                                     *)
HandlerFreesOwnTrip ==
  [][\A u, v \in Users :
       /\ HandlerEnds(u)
       /\ {u, v} \cap crossed = {}
       /\ cache'[v] # cache[v]
       => cache[v] \in TripOf(u)]_tripVars

(* A due trip does not stay open.                                          *)
DueTripSettles == \A t \in Trips : (t \in due /\ Open(t)) ~> ~Open(t)

(* A minion does not stay busy with the same trip for ever, but for the    *)
(* members of a team whose trip a moderator cancelled (see                 *)
(* NobodyIsStranded): those wait for a restart.                            *)
MinionGetsFree ==
  \A u \in Users, t \in Trips :
    cache[u] = t ~> \/ cache[u] # t
                    \/ row[t].state = "deleted" /\ u # row[t].owner
                    \/ Tangled(t)

(* "you won't receive any loot from this trip if you cancel it"            *)
(* (cancelTaskCommand.ts:43): a trip whose cancellation was confirmed and  *)
(* reported as done is not paid.                                           *)
CancelledIsNotPaid == \A t \in cancelled : paid[t] = 0
=============================================================================
