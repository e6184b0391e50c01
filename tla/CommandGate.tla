----------------------------- MODULE CommandGate -----------------------------
(***************************************************************************)
(* The busy counter that keeps a user from running two commands at once.   *)
(*                                                                         *)
(* The bot is one Node process.  Every command invocation is a chain of    *)
(* awaits; what happens between two awaits is atomic.  preCommand adds one *)
(* to the user's counter, postCommand starts a one second timer that takes *)
(* it off again, and the completion of a trip adds and removes one around  *)
(* the trip's handler.  A command that finds the counter positive is       *)
(* refused, unless it bypasses the inhibitors or is the admin command.     *)
(***************************************************************************)
EXTENDS Integers, FiniteSets

CONSTANTS
  Users,          \* discord users
  Commands,       \* slots for the command invocations in flight
  NoUser,         \* the user of an unused slot
  MaxOutstanding  \* bound: calls in flight, timers and lost credit of one user

ASSUME GateAssumption ==
  /\ IsFiniteSet(Commands)
  /\ NoUser \notin Users
  /\ MaxOutstanding \in Nat

VARIABLES
  busy,          \* busyCounterCache, 0 when the user has no entry
  cmd,           \* what each invocation slot is doing
  timers,        \* release timers of postCommand that have not fired
  completing,    \* users whose trip completeActivity is handling
  ticking,       \* the minion_activities ticker is between start and end
  cooldown,      \* users on the three second button cooldown
  shuttingDown,  \* globalClient.isShuttingDown
  debt           \* ghost: releases that no acquisition pays for

gateVars == <<busy, cmd, timers, completing, ticking, cooldown, shuttingDown, debt>>

-----------------------------------------------------------------------------
(* How a command can be started.                                           *)

SlashKinds   == {"slash", "admin"}      \* typed by the user, run by the command library
HookedKinds  == {"button", "casket"}    \* buttons interactionHook checks first
DirectKinds  == {"nested", "repeat"}    \* runCommand without any check before it
Kinds        == SlashKinds \cup HookedKinds \cup DirectKinds

\* The calls of runCommand: its finally block runs postCommand whatever happened.
RunCommandKinds == HookedKinds \cup DirectKinds

\* The invocations that are refused while the user is busy.
GatedKinds == {"slash", "casket", "repeat"}

Phases == {"idle", "hook", "fetch", "inhibit", "run"}

Idle == [phase |-> "idle", user |-> NoUser, kind |-> "none"]

CommandState ==
  [phase : Phases, user : Users \cup {NoUser}, kind : Kinds \cup {"none"}]

TypeOK ==
  /\ busy \in [Users -> Int]
  /\ cmd \in [Commands -> CommandState]
  /\ \A c \in Commands : cmd[c].phase # "idle" => cmd[c].user \in Users /\ cmd[c].kind \in Kinds
  /\ timers \in [Users -> Nat]
  /\ completing \subseteq Users
  /\ ticking \in BOOLEAN
  /\ cooldown \subseteq Users
  /\ shuttingDown \in BOOLEAN
  /\ debt \in [Users -> Nat]

-----------------------------------------------------------------------------
\* The invocations of u that preCommand let through and that have not ended.
Holding(u) == {c \in Commands : cmd[c].user = u /\ cmd[c].phase \in {"inhibit", "run"}}

InFlight(u) == {c \in Commands : cmd[c].user = u /\ cmd[c].phase # "idle"}

Completions(u) == IF u \in completing THEN 1 ELSE 0

\* Everything that will take one off the counter of u.
Credit(u) == Cardinality(Holding(u)) + timers[u] + Completions(u)

\* Bounds the arrivals of a model-checked instance.
Room(u) == Cardinality(InFlight(u)) + timers[u] + debt[u] < MaxOutstanding

\* A slip: the first acquisition goes unnoticed.
IsBusyTwice(u) == busy[u] > 1

IsBusy(u) == busy[u] > 0

Add(u, amount) == busy' = [busy EXCEPT ![u] = @ + amount]

Become(c, u, k, phase) == cmd' = [cmd EXCEPT ![c] = [phase |-> phase, user |-> u, kind |-> k]]

Proceed(c, phase) == cmd' = [cmd EXCEPT ![c].phase = phase]

Ends(c) == cmd' = [cmd EXCEPT ![c] = Idle]

\* Slips: the release is never scheduled; a timer is cleared instead of set.
PostCommandForgotten(u) == UNCHANGED timers
PostCommandClears(u) == timers' = [timers EXCEPT ![u] = @ - 1]

\* postCommand: the counter goes down when the timer fires, not before.
PostCommand(u) == timers' = [timers EXCEPT ![u] = @ + 1]

Unpaid(u) == debt' = [debt EXCEPT ![u] = @ + 1]

-----------------------------------------------------------------------------
GateInit ==
  /\ busy = [u \in Users |-> 0]
  /\ cmd = [c \in Commands |-> Idle]
  /\ timers = [u \in Users |-> 0]
  /\ completing = {}
  /\ ticking = FALSE
  /\ cooldown = {}
  /\ shuttingDown = FALSE
  /\ debt = [u \in Users |-> 0]

(* A typed command enters preCommand.  While the bot shuts down it is      *)
(* refused before anything is counted, and its postCommand is not run.     *)
SlashArrives(c, u, k) ==
  /\ k \in SlashKinds
  /\ cmd[c].phase = "idle"
  /\ Room(u)
  /\ ~shuttingDown
  /\ Become(c, u, k, "fetch")
  /\ UNCHANGED <<busy, timers, completing, ticking, cooldown, shuttingDown, debt>>

(* A button click; interactionHook awaits the user's row first.            *)
ButtonArrives(c, u, k) ==
  /\ k \in HookedKinds
  /\ cmd[c].phase = "idle"
  /\ Room(u)
  /\ Become(c, u, k, "hook")
  /\ UNCHANGED <<busy, timers, completing, ticking, cooldown, shuttingDown, debt>>

HookRefuses(c) ==
  /\ cmd[c].phase = "hook"
  /\ \/ IsBusy(cmd[c].user)
     \/ shuttingDown
     \/ cmd[c].user \in cooldown
  /\ Ends(c)
  /\ UNCHANGED <<busy, timers, completing, ticking, cooldown, shuttingDown, debt>>

HookOpens(c) ==
  /\ cmd[c].phase = "hook"
  /\ ~IsBusy(cmd[c].user)
  /\ ~shuttingDown
  /\ cmd[c].user \notin cooldown
  /\ cooldown' = cooldown \cup {cmd[c].user}

(* The hook's checks hold, but the minion is busy or the button answers by *)
(* itself: nothing is counted.                                             *)
HookAnswers(c) ==
  /\ HookOpens(c)
  /\ Ends(c)
  /\ UNCHANGED <<busy, timers, completing, ticking, shuttingDown, debt>>

(* The hook's checks hold; runCommand enters preCommand in the same turn.  *)
HookPasses(c) ==
  /\ HookOpens(c)
  /\ Proceed(c, "fetch")
  /\ UNCHANGED <<busy, timers, completing, ticking, shuttingDown, debt>>

CooldownExpires(u) ==
  /\ u \in cooldown
  /\ cooldown' = cooldown \ {u}
  /\ UNCHANGED <<busy, cmd, timers, completing, ticking, shuttingDown, debt>>

(* runCommand called from a command, a collector or a repeat button.       *)
RunCommandDirectly(c, u, k) ==
  /\ k \in DirectKinds
  /\ cmd[c].phase = "idle"
  /\ Room(u)
  /\ IF shuttingDown
       THEN /\ PostCommand(u)
            /\ Unpaid(u)
            /\ UNCHANGED cmd
       ELSE /\ Become(c, u, k, "fetch")
            /\ UNCHANGED <<timers, debt>>
  /\ UNCHANGED <<busy, completing, ticking, cooldown, shuttingDown>>

-----------------------------------------------------------------------------
Refused(c) ==
  /\ cmd[c].phase = "fetch"
  /\ IsBusy(cmd[c].user)
  /\ cmd[c].kind \in GatedKinds

Ungated(c) == cmd[c].phase = "fetch" /\ ~Refused(c)

(* A refusal asks for no postCommand.  The command library grants that;    *)
(* runCommand runs postCommand all the same.                               *)
PreCommandRefuses(c) ==
  /\ Refused(c)
  /\ Ends(c)
  /\ IF cmd[c].kind \in RunCommandKinds
       THEN PostCommand(cmd[c].user) /\ Unpaid(cmd[c].user)
       ELSE UNCHANGED <<timers, debt>>
  /\ UNCHANGED <<busy, completing, ticking, cooldown, shuttingDown>>

(* Fetching the user's row throws inside runCommand, before the counter    *)
(* was raised; the finally block lowers it.                                *)
PreCommandThrows(c) ==
  /\ cmd[c].phase = "fetch"
  /\ cmd[c].kind \in RunCommandKinds
  /\ Ends(c)
  /\ PostCommand(cmd[c].user)
  /\ Unpaid(cmd[c].user)
  /\ UNCHANGED <<busy, completing, ticking, cooldown, shuttingDown>>

(* Check and increment are one turn of the event loop.                     *)
PreCommandAcquires(c) ==
  /\ Ungated(c)
  /\ Add(cmd[c].user, 1)
  /\ Proceed(c, "inhibit")
  /\ UNCHANGED <<timers, completing, ticking, cooldown, shuttingDown, debt>>

(* The inhibitors await too; one of them may refuse or throw.              *)
InhibitorRefuses(c) ==
  /\ cmd[c].phase = "inhibit"
  /\ Ends(c)
  /\ PostCommand(cmd[c].user)
  /\ UNCHANGED <<busy, completing, ticking, cooldown, shuttingDown, debt>>

CommandRuns(c) ==
  /\ cmd[c].phase = "inhibit"
  /\ Proceed(c, "run")
  /\ UNCHANGED <<busy, timers, completing, ticking, cooldown, shuttingDown, debt>>

CommandEnds(c) ==
  /\ cmd[c].phase = "run"
  /\ Ends(c)
  /\ PostCommand(cmd[c].user)
  /\ UNCHANGED <<busy, completing, ticking, cooldown, shuttingDown, debt>>

ReleaseFires(u) ==
  /\ timers[u] > 0
  /\ timers' = [timers EXCEPT ![u] = @ - 1]
  /\ Add(u, -1)
  /\ UNCHANGED <<cmd, completing, ticking, cooldown, shuttingDown, debt>>

-----------------------------------------------------------------------------
(* The ticker checks the shutdown flag once, then awaits two queries.      *)
TickerStarts ==
  /\ ~ticking
  /\ ~shuttingDown
  /\ ticking' = TRUE
  /\ UNCHANGED <<busy, cmd, timers, completing, cooldown, shuttingDown, debt>>

\* A slip: completeActivity pays a trip without raising the counter.
CompletionsUncounted(S) ==
  /\ ticking /\ completing = {} /\ S # {}
  /\ completing' = S
  /\ UNCHANGED <<busy, cmd, timers, ticking, cooldown, shuttingDown, debt>>

(* Every completeActivity of the batch S starts in one turn.               *)
CompletionsBegin(S) ==
  /\ ticking
  /\ completing = {}
  /\ S # {}
  /\ completing' = S
  /\ busy' = [u \in Users |-> IF u \in S THEN busy[u] + 1 ELSE busy[u]]
  /\ UNCHANGED <<cmd, timers, ticking, cooldown, shuttingDown, debt>>

(* The finally block of completeActivity; the last one ends the tick.      *)
CompletionEnds(u) ==
  /\ u \in completing
  /\ completing' = completing \ {u}
  /\ ticking' = (completing # {u})
  /\ Add(u, -1)
  /\ UNCHANGED <<cmd, timers, cooldown, shuttingDown, debt>>

\* A slip: the early return leaves the ticker locked.
NothingDueKeepsTicking == ticking /\ completing = {} /\ UNCHANGED gateVars

NothingDue ==
  /\ ticking
  /\ completing = {}
  /\ ticking' = FALSE
  /\ UNCHANGED <<busy, cmd, timers, completing, cooldown, shuttingDown, debt>>

-----------------------------------------------------------------------------
RunsAdmin(c) == cmd[c].phase = "run" /\ cmd[c].kind = "admin"

(* /admin cancel_task drops the counter's entry, whoever holds it.         *)
AdminUnlocks(c, u) ==
  /\ RunsAdmin(c)
  /\ busy' = [busy EXCEPT ![u] = 0]
  /\ debt' = [debt EXCEPT ![u] = Credit(u)]
  /\ cooldown' = cooldown \ {u}
  /\ UNCHANGED <<cmd, timers, completing, ticking, shuttingDown>>

(* /admin reboot: commands are refused for twenty seconds, then exit.      *)
AdminReboots(c) ==
  /\ RunsAdmin(c)
  /\ shuttingDown' = TRUE
  /\ UNCHANGED <<busy, cmd, timers, completing, ticking, cooldown, debt>>

(* The process exits, or crashes, and comes back with empty maps.          *)
GateRestarts ==
  /\ busy' = [u \in Users |-> 0]
  /\ cmd' = [c \in Commands |-> Idle]
  /\ timers' = [u \in Users |-> 0]
  /\ completing' = {}
  /\ ticking' = FALSE
  /\ cooldown' = {}
  /\ shuttingDown' = FALSE
  /\ debt' = [u \in Users |-> 0]

-----------------------------------------------------------------------------
Arrives(c, u) ==
  \/ \E k \in SlashKinds : SlashArrives(c, u, k)
  \/ \E k \in HookedKinds : ButtonArrives(c, u, k)
  \/ \E k \in DirectKinds : RunCommandDirectly(c, u, k)

\* A step that answers an await of c before its body runs.
EntersOrEnds(c) ==
  \/ HookRefuses(c)
  \/ HookAnswers(c)
  \/ HookPasses(c)
  \/ PreCommandRefuses(c)
  \/ PreCommandThrows(c)
  \/ PreCommandAcquires(c)
  \/ InhibitorRefuses(c)
  \/ CommandRuns(c)

GateNext ==
  \/ \E c \in Commands, u \in Users : Arrives(c, u)
  \/ \E c \in Commands : EntersOrEnds(c)
  \/ \E c \in Commands : CommandEnds(c)
  \/ \E u \in Users : CooldownExpires(u)
  \/ \E u \in Users : ReleaseFires(u)
  \/ TickerStarts
  \/ \E S \in SUBSET Users : CompletionsBegin(S)
  \/ \E u \in Users : CompletionEnds(u)
  \/ NothingDue
  \/ \E c \in Commands, u \in Users : AdminUnlocks(c, u)
  \/ \E c \in Commands : AdminReboots(c)
  \/ GateRestarts

\* Awaited calls return, prompts time out, timers fire.
GateFairness ==
  /\ \A c \in Commands : WF_gateVars(EntersOrEnds(c)) /\ WF_gateVars(CommandEnds(c))
  /\ \A u \in Users : WF_gateVars(ReleaseFires(u)) /\ WF_gateVars(CompletionEnds(u))

GateSafety == GateInit /\ [][GateNext]_gateVars

GateSpec == GateSafety /\ GateFairness

-----------------------------------------------------------------------------
(* The counter of a user is what will still be taken off it, less what was *)
(* taken off without having been put on: no path through preCommand,       *)
(* postCommand and completeActivity forgets or repeats a release.          *)
Accounting == \A u \in Users : busy[u] = Credit(u) - debt[u]

(* While nobody was released without an acquisition, at most one gated     *)
(* command of a user is past preCommand (preCommand.ts:75-78).             *)
OneGatedCommand ==
  \A u \in Users : debt[u] = 0 =>
    \A c, d \in Holding(u) :
      cmd[c].kind \in GatedKinds /\ cmd[d].kind \in GatedKinds => c = d

(* While nobody was released without an acquisition, a gated command gets  *)
(* past preCommand only when no other command of the user is running, none *)
(* ended within the last second and no trip of the user is being paid.     *)
GatedStartsAlone ==
  \A c \in Commands :
    LET u == cmd[c].user IN
      cmd[c].phase = "fetch" /\ cmd'[c].phase = "inhibit" /\ cmd[c].kind \in GatedKinds
        /\ debt[u] = 0
        => Credit(u) = 0

GatedStartsAloneAlways == [][GatedStartsAlone]_gateVars

(* A user none of whose commands is in flight and none of whose trips is   *)
(* being paid for good is eventually not busy: nothing leaves the counter  *)
(* raised.                                                                 *)
Quiet(u) == InFlight(u) = {} /\ u \notin completing
FreedWhenQuiet == \A u \in Users : <>[]Quiet(u) => <>[](busy[u] <= 0)

(* "You cannot use a command right now." (preCommand.ts:76): a user runs    *)
(* no second command, whatever he clicks while he runs one.                *)
BusyUsersAreRefused ==
  \A u \in Users : \A c, d \in Holding(u) :
    cmd[c].kind \in GatedKinds /\ cmd[d].kind \in GatedKinds => c = d
=============================================================================
