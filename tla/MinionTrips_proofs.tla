------------------------- MODULE MinionTrips_proofs -------------------------
(***************************************************************************)
(* I.  The gate, for any users and any finite number of concurrent         *)
(* invocations: its accounting and its mutual exclusion.  Nothing of the   *)
(* trips is used here.                                                     *)
(* II. The trips of any number of users, over any table and any party, run *)
(* their commands through the gate, pay the loot of a trip at most once,   *)
(* and keep the activity table and the activity cache together.            *)
(***************************************************************************)
EXTENDS MinionTrips, FiniteSetTheorems, TLAPS

-----------------------------------------------------------------------------
(* I. The gate (CommandGate).                                              *)

(* The invocations of a user are finitely many, so they can be counted.    *)
LEMMA HoldingFinite ==
  ASSUME NEW u \in Users
  PROVE  IsFiniteSet(Holding(u)) /\ Cardinality(Holding(u)) \in Nat
<1>1. Holding(u) \subseteq Commands
  BY DEF Holding
<1>2. IsFiniteSet(Commands)
  BY GateAssumption
<1>3. IsFiniteSet(Holding(u))
  BY <1>1, <1>2, FS_Subset
<1> QED
  BY <1>3, FS_CardinalityType

(* What a user owes is never negative.                                     *)
LEMMA CreditNat ==
  ASSUME TypeOK, NEW u \in Users
  PROVE  Credit(u) \in Nat
<1>1. timers[u] \in Nat
  BY DEF TypeOK
<1>2. Completions(u) \in Nat
  BY DEF Completions
<1> QED
  BY <1>1, <1>2, HoldingFinite DEF Credit

(* An unused slot is well typed.                                           *)
LEMMA IdleTyped == Idle \in CommandState /\ Idle.phase = "idle"
BY DEF Idle, CommandState, Phases

(* Every step keeps the variables in their types.                          *)
LEMMA TypeStep == TypeOK /\ [GateNext]_gateVars => TypeOK'
<1> SUFFICES ASSUME TypeOK, [GateNext]_gateVars
             PROVE  TypeOK'
  OBVIOUS
<1> USE DEF TypeOK, CommandState, Phases, Kinds, SlashKinds, HookedKinds, DirectKinds, RunCommandKinds
<1>1. ASSUME NEW c \in Commands, NEW u \in Users, Arrives(c, u)
      PROVE  TypeOK'
  <2>1. ASSUME NEW k \in SlashKinds, SlashArrives(c, u, k)
        PROVE  TypeOK'
    BY <2>1 DEF SlashArrives, Become
  <2>2. ASSUME NEW k \in HookedKinds, ButtonArrives(c, u, k)
        PROVE  TypeOK'
    BY <2>2 DEF ButtonArrives, Become
  <2>3. ASSUME NEW k \in DirectKinds, RunCommandDirectly(c, u, k)
        PROVE  TypeOK'
    BY <2>3 DEF RunCommandDirectly, Become, PostCommand, Unpaid
  <2> QED
    BY <1>1, <2>1, <2>2, <2>3 DEF Arrives
<1>2. ASSUME NEW c \in Commands, EntersOrEnds(c)
      PROVE  TypeOK'
  <2>1. CASE HookRefuses(c)
    BY <2>1 DEF HookRefuses, Ends, Idle
  <2>0. CASE HookAnswers(c)
    BY <2>0 DEF HookAnswers, HookOpens, Ends, Idle
  <2>2. CASE HookPasses(c)
    BY <2>2 DEF HookPasses, HookOpens, Proceed
  <2>3. CASE PreCommandRefuses(c)
    BY <2>3 DEF PreCommandRefuses, Refused, Ends, Idle, PostCommand, Unpaid
  <2>4. CASE PreCommandThrows(c)
    BY <2>4 DEF PreCommandThrows, Ends, Idle, PostCommand, Unpaid
  <2>5. CASE PreCommandAcquires(c)
    BY <2>5 DEF PreCommandAcquires, Ungated, Add, Proceed
  <2>6. CASE InhibitorRefuses(c)
    BY <2>6 DEF InhibitorRefuses, Ends, Idle, PostCommand
  <2>7. CASE CommandRuns(c)
    BY <2>7 DEF CommandRuns, Proceed
  <2> QED
    BY <1>2, <2>0, <2>1, <2>2, <2>3, <2>4, <2>5, <2>6, <2>7 DEF EntersOrEnds
<1>3. ASSUME NEW c \in Commands, CommandEnds(c)
      PROVE  TypeOK'
  BY <1>3 DEF CommandEnds, Ends, Idle, PostCommand
<1>4. ASSUME NEW u \in Users, CooldownExpires(u)
      PROVE  TypeOK'
  BY <1>4 DEF CooldownExpires
<1>5. ASSUME NEW u \in Users, ReleaseFires(u)
      PROVE  TypeOK'
  BY <1>5 DEF ReleaseFires, Add
<1>6. CASE TickerStarts
  BY <1>6 DEF TickerStarts
<1>7. ASSUME NEW S \in SUBSET Users, CompletionsBegin(S)
      PROVE  TypeOK'
  BY <1>7 DEF CompletionsBegin
<1>8. ASSUME NEW u \in Users, CompletionEnds(u)
      PROVE  TypeOK'
  BY <1>8 DEF CompletionEnds, Add
<1>9. CASE NothingDue
  BY <1>9 DEF NothingDue
<1>10. ASSUME NEW c \in Commands, NEW u \in Users, AdminUnlocks(c, u)
       PROVE  TypeOK'
  BY <1>10, CreditNat DEF AdminUnlocks
<1>11. ASSUME NEW c \in Commands, AdminReboots(c)
       PROVE  TypeOK'
  BY <1>11 DEF AdminReboots
<1>12. CASE GateRestarts
  <2>1. /\ cmd' \in [Commands -> CommandState]
        /\ \A c \in Commands : cmd'[c].phase = "idle"
    BY <1>12, IdleTyped DEF GateRestarts
  <2>2. completing' \subseteq Users /\ cooldown' \subseteq Users
    BY <1>12 DEF GateRestarts
  <2>3. ticking' \in BOOLEAN /\ shuttingDown' \in BOOLEAN
    BY <1>12 DEF GateRestarts
  <2>4. busy' \in [Users -> Int]
    BY <1>12 DEF GateRestarts
  <2>5. timers' \in [Users -> Nat] /\ debt' \in [Users -> Nat]
    BY <1>12 DEF GateRestarts
  <2> QED
    BY <2>1, <2>2, <2>3, <2>4, <2>5 DEF TypeOK
<1>13. CASE UNCHANGED gateVars
  BY <1>13 DEF gateVars
<1> QED
  BY <1>1, <1>2, <1>3, <1>4, <1>5, <1>6, <1>7, <1>8, <1>9, <1>10, <1>11, <1>12, <1>13
  DEF GateNext

(* The initial state is typed.                                             *)
LEMMA InitTyped == GateInit => TypeOK
<1> SUFFICES ASSUME GateInit
             PROVE  TypeOK
  OBVIOUS
<1>1. /\ cmd \in [Commands -> CommandState]
      /\ \A c \in Commands : cmd[c].phase = "idle"
  BY IdleTyped DEF GateInit
<1>2. completing \subseteq Users /\ cooldown \subseteq Users
  BY DEF GateInit
<1>3. ticking \in BOOLEAN /\ shuttingDown \in BOOLEAN
  BY DEF GateInit
<1>4. busy \in [Users -> Int]
  BY DEF GateInit
<1>5. timers \in [Users -> Nat] /\ debt \in [Users -> Nat]
  BY DEF GateInit
<1> QED
  BY <1>1, <1>2, <1>3, <1>4, <1>5 DEF TypeOK

(* The types hold in every reachable state.                                *)
THEOREM TypeCorrect == GateSafety => []TypeOK
BY InitTyped, TypeStep, PTL DEF GateSafety

-----------------------------------------------------------------------------
(* An invocation that gets past preCommand adds one to what its user owes. *)
LEMMA HoldingGrows ==
  ASSUME NEW u \in Users, NEW c \in Commands, c \notin Holding(u),
         Holding(u)' = Holding(u) \cup {c}
  PROVE  Cardinality(Holding(u)') = Cardinality(Holding(u)) + 1
BY HoldingFinite, FS_AddElement

(* An invocation that ends takes one off.                                  *)
LEMMA HoldingShrinks ==
  ASSUME NEW u \in Users, NEW c \in Commands, c \in Holding(u),
         Holding(u)' = Holding(u) \ {c}
  PROVE  Cardinality(Holding(u)') = Cardinality(Holding(u)) - 1
BY HoldingFinite, FS_RemoveElement

(* A command that ends moves its one from its slot to a release timer.     *)
LEMMA EndingKeepsAccounts ==
  ASSUME TypeOK, Accounting, NEW c \in Commands,
         cmd[c].phase \in {"inhibit", "run"},
         Ends(c), PostCommand(cmd[c].user),
         UNCHANGED <<busy, completing, debt>>
  PROVE  Accounting'
<1>1. PICK u \in Users : u = cmd[c].user
  BY DEF TypeOK
<1>2. c \in Holding(u)
  BY <1>1 DEF Holding
<1>3. Holding(u)' = Holding(u) \ {c}
  BY <1>1 DEF TypeOK, Holding, Ends, Idle
<1>4. Cardinality(Holding(u)') = Cardinality(Holding(u)) - 1
  BY <1>1, <1>2, <1>3, HoldingShrinks
<1>5. \A v \in Users \ {u} : Holding(v)' = Holding(v)
  BY <1>1, GateAssumption DEF TypeOK, Holding, Ends, Idle
<1>6. timers' = [timers EXCEPT ![u] = @ + 1]
  BY <1>1 DEF PostCommand
<1>7. \A v \in Users : timers[v] \in Nat /\ Cardinality(Holding(v)) \in Nat
  BY HoldingFinite DEF TypeOK
<1>8. \A v \in Users : Completions(v)' = Completions(v) /\ Completions(v) \in Nat
  BY DEF Completions
<1>9. \A v \in Users : Credit(v)' = Credit(v)
  <2> SUFFICES ASSUME NEW v \in Users
               PROVE  Credit(v)' = Credit(v)
    OBVIOUS
  <2>1. CASE v = u
    BY <1>1, <1>4, <1>6, <1>7, <1>8, <2>1 DEF Credit, TypeOK
  <2>2. CASE v # u
    BY <1>5, <1>6, <1>7, <1>8, <2>2 DEF Credit, TypeOK
  <2> QED
    BY <2>1, <2>2
<1> QED
  BY <1>9 DEF Accounting

(* A release nobody paid for is entered as debt.                           *)
LEMMA UnpaidKeepsAccounts ==
  ASSUME TypeOK, Accounting, NEW u \in Users,
         \A v \in Users : Holding(v)' = Holding(v),
         PostCommand(u), Unpaid(u),
         UNCHANGED <<busy, completing>>
  PROVE  Accounting'
<1>1. \A v \in Users : /\ timers[v] \in Nat /\ debt[v] \in Nat
                       /\ Cardinality(Holding(v)) \in Nat
                       /\ Completions(v) \in Nat /\ Completions(v)' = Completions(v)
  BY HoldingFinite DEF TypeOK, Completions
<1>2. \A v \in Users : Credit(v)' - debt'[v] = Credit(v) - debt[v]
  BY <1>1 DEF Credit, PostCommand, Unpaid, TypeOK
<1> QED
  BY <1>2 DEF Accounting

(* A step that touches neither counters nor holders keeps the accounts.    *)
LEMMA QuietKeepsAccounts ==
  ASSUME Accounting,
         \A v \in Users : Holding(v)' = Holding(v),
         UNCHANGED <<busy, timers, completing, debt>>
  PROVE  Accounting'
BY DEF Accounting, Credit, Completions

(* Every step keeps the accounts.                                          *)
LEMMA AccountingStep == TypeOK /\ Accounting /\ [GateNext]_gateVars => Accounting'
<1> SUFFICES ASSUME TypeOK, Accounting, [GateNext]_gateVars
             PROVE  Accounting'
  OBVIOUS
<1>1. ASSUME NEW c \in Commands, NEW u \in Users, Arrives(c, u)
      PROVE  Accounting'
  <2>1. ASSUME NEW k \in SlashKinds, SlashArrives(c, u, k)
        PROVE  Accounting'
    <3>1. \A v \in Users : Holding(v)' = Holding(v)
      BY <2>1 DEF SlashArrives, Become, Holding, TypeOK
    <3> QED
      BY <2>1, <3>1, QuietKeepsAccounts DEF SlashArrives
  <2>2. ASSUME NEW k \in HookedKinds, ButtonArrives(c, u, k)
        PROVE  Accounting'
    <3>1. \A v \in Users : Holding(v)' = Holding(v)
      BY <2>2 DEF ButtonArrives, Become, Holding, TypeOK
    <3> QED
      BY <2>2, <3>1, QuietKeepsAccounts DEF ButtonArrives
  <2>3. ASSUME NEW k \in DirectKinds, RunCommandDirectly(c, u, k)
        PROVE  Accounting'
    <3>1. \A v \in Users : Holding(v)' = Holding(v)
      BY <2>3 DEF RunCommandDirectly, Become, Holding, TypeOK
    <3>2. CASE shuttingDown
      BY <2>3, <3>1, <3>2, UnpaidKeepsAccounts DEF RunCommandDirectly
    <3>3. CASE ~shuttingDown
      BY <2>3, <3>1, <3>3, QuietKeepsAccounts DEF RunCommandDirectly
    <3> QED
      BY <3>2, <3>3
  <2> QED
    BY <1>1, <2>1, <2>2, <2>3 DEF Arrives
<1>2. ASSUME NEW c \in Commands, EntersOrEnds(c)
      PROVE  Accounting'
  <2>1. CASE HookRefuses(c)
    <3>1. \A v \in Users : Holding(v)' = Holding(v)
      BY <2>1 DEF HookRefuses, Ends, Idle, Holding, TypeOK
    <3> QED
      BY <2>1, <3>1, QuietKeepsAccounts DEF HookRefuses
  <2>0. CASE HookAnswers(c)
    <3>1. \A v \in Users : Holding(v)' = Holding(v)
      BY <2>0 DEF HookAnswers, HookOpens, Ends, Idle, Holding, TypeOK
    <3> QED
      BY <2>0, <3>1, QuietKeepsAccounts DEF HookAnswers
  <2>2. CASE HookPasses(c)
    <3>1. \A v \in Users : Holding(v)' = Holding(v)
      BY <2>2 DEF HookPasses, HookOpens, Proceed, Holding, TypeOK
    <3> QED
      BY <2>2, <3>1, QuietKeepsAccounts DEF HookPasses
  <2>3. CASE PreCommandRefuses(c)
    <3>1. \A v \in Users : Holding(v)' = Holding(v)
      BY <2>3 DEF PreCommandRefuses, Refused, Ends, Idle, Holding, TypeOK
    <3>2. cmd[c].user \in Users
      BY <2>3 DEF PreCommandRefuses, Refused, TypeOK
    <3>3. CASE cmd[c].kind \in RunCommandKinds
      BY <2>3, <3>1, <3>2, <3>3, UnpaidKeepsAccounts DEF PreCommandRefuses
    <3>4. CASE cmd[c].kind \notin RunCommandKinds
      BY <2>3, <3>1, <3>4, QuietKeepsAccounts DEF PreCommandRefuses
    <3> QED
      BY <3>3, <3>4
  <2>4. CASE PreCommandThrows(c)
    <3>1. \A v \in Users : Holding(v)' = Holding(v)
      BY <2>4 DEF PreCommandThrows, Ends, Idle, Holding, TypeOK
    <3>2. cmd[c].user \in Users
      BY <2>4 DEF PreCommandThrows, TypeOK
    <3> QED
      BY <2>4, <3>1, <3>2, UnpaidKeepsAccounts DEF PreCommandThrows
  <2>5. CASE PreCommandAcquires(c)
    <3>0. PICK u \in Users : u = cmd[c].user
      BY <2>5 DEF PreCommandAcquires, Ungated, TypeOK
    <3>1. cmd[c].phase = "fetch" /\ u = cmd[c].user
      BY <3>0, <2>5 DEF PreCommandAcquires, Ungated, TypeOK
    <3>2. c \notin Holding(u) /\ Holding(u)' = Holding(u) \cup {c}
      BY <2>5, <3>1 DEF PreCommandAcquires, Proceed, Holding, TypeOK, CommandState
    <3>3. Cardinality(Holding(u)') = Cardinality(Holding(u)) + 1
      BY <3>1, <3>2, HoldingGrows
    <3>4. \A v \in Users \ {u} : Holding(v)' = Holding(v)
      BY <2>5, <3>1 DEF PreCommandAcquires, Proceed, Holding, TypeOK, CommandState
    <3>5. busy' = [busy EXCEPT ![u] = @ + 1] /\ UNCHANGED <<timers, completing, debt>>
      BY <2>5, <3>1 DEF PreCommandAcquires, Add
    <3>6. \A v \in Users : /\ timers[v] \in Nat /\ debt[v] \in Nat /\ busy[v] \in Int
                           /\ Cardinality(Holding(v)) \in Nat
                           /\ Completions(v) \in Nat /\ Completions(v)' = Completions(v)
      BY <3>5, HoldingFinite DEF TypeOK, Completions
    <3>7. ASSUME NEW v \in Users
          PROVE  busy'[v] = Credit(v)' - debt'[v]
      <4>1. CASE v = u
        BY <3>1, <3>3, <3>5, <3>6, <4>1 DEF Accounting, Credit, TypeOK
      <4>2. CASE v # u
        BY <3>4, <3>5, <3>6, <4>2 DEF Accounting, Credit, TypeOK
      <4> QED
        BY <4>1, <4>2
    <3> QED
      BY <3>7 DEF Accounting
  <2>6. CASE InhibitorRefuses(c)
    BY <2>6, EndingKeepsAccounts DEF InhibitorRefuses
  <2>7. CASE CommandRuns(c)
    <3>1. \A v \in Users : Holding(v)' = Holding(v)
      BY <2>7 DEF CommandRuns, Proceed, Holding, TypeOK, CommandState
    <3> QED
      BY <2>7, <3>1, QuietKeepsAccounts DEF CommandRuns
  <2> QED
    BY <1>2, <2>0, <2>1, <2>2, <2>3, <2>4, <2>5, <2>6, <2>7 DEF EntersOrEnds
<1>3. ASSUME NEW c \in Commands, CommandEnds(c)
      PROVE  Accounting'
  BY <1>3, EndingKeepsAccounts DEF CommandEnds
<1>4. ASSUME NEW u \in Users, CooldownExpires(u)
      PROVE  Accounting'
  BY <1>4, QuietKeepsAccounts DEF CooldownExpires, Holding
<1>5. ASSUME NEW u \in Users, ReleaseFires(u)
      PROVE  Accounting'
  <2>1. \A v \in Users : /\ Holding(v)' = Holding(v)
                         /\ Completions(v)' = Completions(v)
                         /\ timers[v] \in Nat /\ debt[v] \in Nat /\ busy[v] \in Int
                         /\ Cardinality(Holding(v)) \in Nat /\ Completions(v) \in Nat
    BY <1>5, HoldingFinite DEF ReleaseFires, Holding, Completions, TypeOK
  <2> QED
    BY <1>5, <2>1 DEF ReleaseFires, Add, Accounting, Credit, TypeOK
<1>6. CASE TickerStarts
  BY <1>6, QuietKeepsAccounts DEF TickerStarts, Holding
<1>7. ASSUME NEW S \in SUBSET Users, CompletionsBegin(S)
      PROVE  Accounting'
  <2>1. \A v \in Users : /\ Holding(v)' = Holding(v)
                         /\ Completions(v) = 0
                         /\ Completions(v)' = (IF v \in S THEN 1 ELSE 0)
                         /\ timers[v] \in Nat /\ debt[v] \in Nat /\ busy[v] \in Int
                         /\ Cardinality(Holding(v)) \in Nat
    BY <1>7, HoldingFinite DEF CompletionsBegin, Holding, Completions, TypeOK
  <2> QED
    BY <1>7, <2>1 DEF CompletionsBegin, Accounting, Credit
<1>8. ASSUME NEW u \in Users, CompletionEnds(u)
      PROVE  Accounting'
  <2>1. \A v \in Users : /\ Holding(v)' = Holding(v)
                         /\ Completions(v)' = (IF v = u THEN 0 ELSE Completions(v))
                         /\ timers[v] \in Nat /\ debt[v] \in Nat /\ busy[v] \in Int
                         /\ Cardinality(Holding(v)) \in Nat /\ Completions(v) \in Nat
    BY <1>8, HoldingFinite DEF CompletionEnds, Holding, Completions, TypeOK
  <2>2. Completions(u) = 1
    BY <1>8 DEF CompletionEnds, Completions
  <2> QED
    BY <1>8, <2>1, <2>2 DEF CompletionEnds, Add, Accounting, Credit, TypeOK
<1>9. CASE NothingDue
  BY <1>9, QuietKeepsAccounts DEF NothingDue, Holding
<1>10. ASSUME NEW c \in Commands, NEW u \in Users, AdminUnlocks(c, u)
       PROVE  Accounting'
  <2>1. \A v \in Users : /\ Credit(v)' = Credit(v)
                         /\ Credit(v) \in Nat
    BY <1>10, CreditNat DEF AdminUnlocks, Credit, Holding, Completions
  <2> QED
    BY <1>10, <2>1 DEF AdminUnlocks, Accounting, TypeOK
<1>11. ASSUME NEW c \in Commands, AdminReboots(c)
       PROVE  Accounting'
  BY <1>11, QuietKeepsAccounts DEF AdminReboots, Holding
<1>12. CASE GateRestarts
  <2>1. \A v \in Users : Holding(v)' = {}
    BY <1>12 DEF GateRestarts, Holding, Idle
  <2>2. \A v \in Users : Cardinality(Holding(v)') = 0 /\ Completions(v)' = 0
    BY <1>12, <2>1, FS_EmptySet DEF GateRestarts, Completions
  <2>3. \A v \in Users : busy'[v] = 0 /\ timers'[v] = 0 /\ debt'[v] = 0
    BY <1>12 DEF GateRestarts
  <2> QED
    BY <2>2, <2>3 DEF Accounting, Credit
<1>13. CASE UNCHANGED gateVars
  BY <1>13, QuietKeepsAccounts DEF gateVars, Holding
<1> QED
  BY <1>1, <1>2, <1>3, <1>4, <1>5, <1>6, <1>7, <1>8, <1>9, <1>10, <1>11, <1>12, <1>13
  DEF GateNext

(* The counter always equals what will be taken off it less the debt.      *)
THEOREM AccountingCorrect == GateSafety => []Accounting
<1>1. GateInit => Accounting
  <2> SUFFICES ASSUME GateInit
               PROVE  Accounting
    OBVIOUS
  <2>1. \A v \in Users : Holding(v) = {}
    BY DEF GateInit, Holding, Idle
  <2>2. \A v \in Users : Cardinality(Holding(v)) = 0 /\ Completions(v) = 0
    BY <2>1, FS_EmptySet DEF GateInit, Completions
  <2>3. \A v \in Users : busy[v] = 0 /\ timers[v] = 0 /\ debt[v] = 0
    BY DEF GateInit
  <2> QED
    BY <2>2, <2>3 DEF Accounting, Credit
<1> QED
  BY <1>1, AccountingStep, TypeCorrect, PTL DEF GateSafety

\* The counter goes below zero by no more than was released unpaid, and a
\* user with nothing in flight, nothing being paid and no release pending is
\* not busy: his next command is not refused.
NothingOwedMeansFree ==
  \A u \in Users : /\ busy[u] >= 0 - debt[u]
                   /\ Quiet(u) /\ timers[u] = 0 => ~IsBusy(u)

(* Nothing leaves the counter raised: whatever interleaves, who is owed    *)
(* nothing is free (busyCounterCache.ts:3-11, preCommand.ts:75-78).        *)
THEOREM NothingOwedMeansFreeCorrect == GateSafety => []NothingOwedMeansFree
<1>1. ASSUME TypeOK, Accounting, NEW u \in Users
      PROVE  /\ busy[u] >= 0 - debt[u]
             /\ Quiet(u) /\ timers[u] = 0 => ~IsBusy(u)
  <2>1. busy[u] = Credit(u) - debt[u] /\ Credit(u) \in Nat /\ debt[u] \in Nat
    BY <1>1, CreditNat DEF Accounting, TypeOK
  <2>2. ASSUME Quiet(u), timers[u] = 0
        PROVE  Credit(u) = 0
    <3>1. Holding(u) = {}
      BY <2>2 DEF Quiet, InFlight, Holding
    <3>2. Cardinality(Holding(u)) = 0
      BY <3>1, FS_EmptySet
    <3> QED
      BY <2>2, <3>2 DEF Credit, Completions, Quiet
  <2> QED
    BY <2>1, <2>2 DEF IsBusy
<1>2. TypeOK /\ Accounting => NothingOwedMeansFree
  BY <1>1 DEF NothingOwedMeansFree
<1> QED
  BY <1>2, TypeCorrect, AccountingCorrect, PTL

-----------------------------------------------------------------------------
(* With no debt, a counter that is not positive means nobody is holding.   *)
LEMMA NotBusyHoldsNothing ==
  ASSUME TypeOK, Accounting, NEW u \in Users, debt[u] = 0, ~IsBusy(u)
  PROVE  Holding(u) = {} /\ Credit(u) = 0
<1>1. busy[u] = Credit(u) /\ busy[u] <= 0 /\ Credit(u) \in Nat
  BY CreditNat DEF Accounting, IsBusy, TypeOK
<1>2. Credit(u) = 0
  BY <1>1
<1>3. Cardinality(Holding(u)) = 0
  BY <1>2, HoldingFinite DEF Credit, Completions, TypeOK
<1> QED
  BY <1>2, <1>3, HoldingFinite, FS_EmptySet

(* A gated command acquires only while nothing else of its user runs, is   *)
(* about to be released or is being paid.                                  *)
LEMMA AcquiresAlone == TypeOK /\ Accounting /\ [GateNext]_gateVars => GatedStartsAlone
<1> SUFFICES ASSUME TypeOK, Accounting, [GateNext]_gateVars, NEW c \in Commands,
                    cmd[c].phase = "fetch", cmd'[c].phase = "inhibit",
                    cmd[c].kind \in GatedKinds, debt[cmd[c].user] = 0
             PROVE  Credit(cmd[c].user) = 0
  BY DEF GatedStartsAlone
<1>1. \E d \in Commands : PreCommandAcquires(d) /\ d = c
  <2>1. ASSUME NEW d \in Commands, NEW u \in Users, Arrives(d, u)
        PROVE  FALSE
    BY <2>1 DEF Arrives, SlashArrives, ButtonArrives, RunCommandDirectly, Become, TypeOK
  <2>2. ASSUME NEW d \in Commands, EntersOrEnds(d)
        PROVE  PreCommandAcquires(d) /\ d = c
    BY <2>2 DEF EntersOrEnds, HookRefuses, HookAnswers, HookOpens, HookPasses, PreCommandRefuses, Refused, Ungated,
                PreCommandThrows, PreCommandAcquires, InhibitorRefuses, CommandRuns,
                Ends, Idle, Proceed, TypeOK, CommandState
  <2>3. ASSUME NEW d \in Commands, CommandEnds(d)
        PROVE  FALSE
    BY <2>3 DEF CommandEnds, Ends, Idle, TypeOK
  <2>4. CASE cmd' = cmd
    BY <2>4
  <2>5. CASE GateRestarts
    BY <2>5 DEF GateRestarts, Idle
  <2> QED
    BY <2>1, <2>2, <2>3, <2>4, <2>5
    DEF GateNext, gateVars, CooldownExpires, ReleaseFires, TickerStarts, CompletionsBegin,
        CompletionEnds, NothingDue, AdminUnlocks, AdminReboots
<1>2. ~IsBusy(cmd[c].user) /\ cmd[c].user \in Users
  BY <1>1 DEF PreCommandAcquires, Ungated, Refused, TypeOK
<1> QED
  BY <1>2, NotBusyHoldsNothing

(* In every behaviour a gated command starts alone unless its user was     *)
(* released without an acquisition before.                                 *)
THEOREM GatedStartsAloneCorrect == GateSafety => GatedStartsAloneAlways
<1>1. TypeOK /\ Accounting /\ [GateNext]_gateVars => [GatedStartsAlone]_gateVars
  BY AcquiresAlone
<1> QED
  BY <1>1, TypeCorrect, AccountingCorrect, PTL DEF GateSafety, GatedStartsAloneAlways

-----------------------------------------------------------------------------
(* A step that lets no one past preCommand and forgives no debt.           *)
LEMMA NoNewHolder ==
  ASSUME OneGatedCommand,
         \A v \in Users : Holding(v)' \subseteq Holding(v),
         \A v \in Users : \A c \in Holding(v)' : cmd'[c].kind = cmd[c].kind,
         \A v \in Users : debt'[v] = 0 => debt[v] = 0
  PROVE  OneGatedCommand'
BY DEF OneGatedCommand

(* A step that leaves the slots alone and forgives no debt.                *)
LEMMA SameHolders ==
  ASSUME OneGatedCommand, UNCHANGED <<cmd, debt>>
  PROVE  OneGatedCommand'
BY DEF OneGatedCommand, Holding

(* A command that ends leaves one holder less.                             *)
LEMMA EndingKeepsExclusion ==
  ASSUME TypeOK, OneGatedCommand, NEW c \in Commands, Ends(c),
         \A v \in Users : debt'[v] = 0 => debt[v] = 0
  PROVE  OneGatedCommand'
<1>1. \A v \in Users : Holding(v)' \subseteq Holding(v)
  BY DEF Ends, Idle, Holding, TypeOK
<1>2. \A v \in Users : \A d \in Holding(v)' : cmd'[d].kind = cmd[d].kind
  BY DEF Ends, Idle, Holding, TypeOK
<1> QED
  BY <1>1, <1>2, NoNewHolder

(* At most one gated command per user past preCommand is inductive, given  *)
(* the accounts.                                                           *)
LEMMA ExclusionStep ==
  TypeOK /\ Accounting /\ OneGatedCommand /\ [GateNext]_gateVars => OneGatedCommand'
<1> SUFFICES ASSUME TypeOK, Accounting, OneGatedCommand, [GateNext]_gateVars
             PROVE  OneGatedCommand'
  OBVIOUS
<1>1. ASSUME NEW c \in Commands, NEW u \in Users, Arrives(c, u)
      PROVE  OneGatedCommand'
  <2>1. \A v \in Users : Holding(v)' \subseteq Holding(v)
    BY <1>1 DEF Arrives, SlashArrives, ButtonArrives, RunCommandDirectly, Become, Holding, TypeOK
  <2>2. \A v \in Users : \A d \in Holding(v)' : cmd'[d].kind = cmd[d].kind
    BY <1>1 DEF Arrives, SlashArrives, ButtonArrives, RunCommandDirectly, Become, Holding, TypeOK
  <2>3. \A v \in Users : debt'[v] = 0 => debt[v] = 0
    BY <1>1 DEF Arrives, SlashArrives, ButtonArrives, RunCommandDirectly, Unpaid, TypeOK
  <2> QED
    BY <2>1, <2>2, <2>3, NoNewHolder
<1>2. ASSUME NEW c \in Commands, EntersOrEnds(c)
      PROVE  OneGatedCommand'
  <2>1. CASE HookRefuses(c)
    BY <2>1, EndingKeepsExclusion DEF HookRefuses
  <2>0. CASE HookAnswers(c)
    BY <2>0, EndingKeepsExclusion DEF HookAnswers, HookOpens
  <2>2. CASE HookPasses(c)
    <3>1. \A v \in Users : Holding(v)' = Holding(v)
      BY <2>2 DEF HookPasses, HookOpens, Proceed, Holding, TypeOK, CommandState
    <3>2. \A d \in Commands : cmd'[d].kind = cmd[d].kind
      BY <2>2 DEF HookPasses, HookOpens, Proceed, TypeOK, CommandState
    <3> QED
      BY <2>2, <3>1, <3>2, NoNewHolder DEF HookPasses, HookOpens, Holding
  <2>3. CASE PreCommandRefuses(c)
    <3>1. \A v \in Users : debt'[v] = 0 => debt[v] = 0
      BY <2>3 DEF PreCommandRefuses, Unpaid, TypeOK
    <3> QED
      BY <2>3, <3>1, EndingKeepsExclusion DEF PreCommandRefuses
  <2>4. CASE PreCommandThrows(c)
    <3>1. \A v \in Users : debt'[v] = 0 => debt[v] = 0
      BY <2>4 DEF PreCommandThrows, Unpaid, TypeOK
    <3> QED
      BY <2>4, <3>1, EndingKeepsExclusion DEF PreCommandThrows
  <2>5. CASE PreCommandAcquires(c)
    <3>1. PICK u \in Users : u = cmd[c].user
      BY <2>5 DEF PreCommandAcquires, Ungated, TypeOK
    <3>2. \A d \in Commands : cmd'[d].kind = cmd[d].kind /\ cmd'[d].user = cmd[d].user
      BY <2>5 DEF PreCommandAcquires, Proceed, TypeOK, CommandState
    <3>3. \A v \in Users \ {u} : Holding(v)' = Holding(v)
      BY <2>5, <3>1 DEF PreCommandAcquires, Proceed, Holding, TypeOK, CommandState
    <3>4. Holding(u)' = Holding(u) \cup {c}
      BY <2>5, <3>1 DEF PreCommandAcquires, Proceed, Holding, TypeOK, CommandState
    <3>5. debt' = debt
      BY <2>5 DEF PreCommandAcquires
    <3>6. ASSUME cmd[c].kind \in GatedKinds, debt[u] = 0
          PROVE  Holding(u) = {}
      <4>1. ~IsBusy(u)
        BY <2>5, <3>1, <3>6 DEF PreCommandAcquires, Ungated, Refused
      <4> QED
        BY <3>1, <3>6, <4>1, NotBusyHoldsNothing
    <3>7. ASSUME NEW v \in Users, debt'[v] = 0, NEW a \in Holding(v)', NEW b \in Holding(v)',
                 cmd'[a].kind \in GatedKinds, cmd'[b].kind \in GatedKinds
          PROVE  a = b
      <4>1. a \in Commands /\ b \in Commands
        BY <3>7 DEF Holding
      <4>2. CASE v # u
        BY <3>2, <3>3, <3>5, <3>7, <4>1, <4>2 DEF OneGatedCommand
      <4>3. CASE v = u /\ cmd[c].kind \in GatedKinds
        BY <3>4, <3>5, <3>6, <3>7, <4>3
      <4>4. CASE v = u /\ cmd[c].kind \notin GatedKinds
        <5>1. a \in Holding(u) /\ b \in Holding(u)
          BY <3>2, <3>4, <3>7, <4>1, <4>4
        <5> QED
          BY <3>2, <3>5, <3>7, <4>1, <4>4, <5>1 DEF OneGatedCommand
      <4> QED
        BY <4>2, <4>3, <4>4
    <3> QED
      BY <3>7 DEF OneGatedCommand
  <2>6. CASE InhibitorRefuses(c)
    BY <2>6, EndingKeepsExclusion DEF InhibitorRefuses
  <2>7. CASE CommandRuns(c)
    <3>1. \A v \in Users : Holding(v)' = Holding(v)
      BY <2>7 DEF CommandRuns, Proceed, Holding, TypeOK, CommandState
    <3>2. \A d \in Commands : cmd'[d].kind = cmd[d].kind
      BY <2>7 DEF CommandRuns, Proceed, TypeOK, CommandState
    <3> QED
      BY <2>7, <3>1, <3>2, NoNewHolder DEF CommandRuns, Holding
  <2> QED
    BY <1>2, <2>0, <2>1, <2>2, <2>3, <2>4, <2>5, <2>6, <2>7 DEF EntersOrEnds
<1>3. ASSUME NEW c \in Commands, CommandEnds(c)
      PROVE  OneGatedCommand'
  BY <1>3, EndingKeepsExclusion DEF CommandEnds
<1>4. ASSUME NEW c \in Commands, NEW u \in Users, AdminUnlocks(c, u)
      PROVE  OneGatedCommand'
  <2>1. \A v \in Users : Holding(v)' = Holding(v) /\ (v # u => debt'[v] = debt[v])
    BY <1>4 DEF AdminUnlocks, Holding, TypeOK
  <2>2. cmd' = cmd /\ debt'[u] = Credit(u)
    BY <1>4 DEF AdminUnlocks, TypeOK
  <2>3. ASSUME debt'[u] = 0
        PROVE  Holding(u) = {}
    <3>1. Cardinality(Holding(u)) = 0
      BY <2>2, <2>3, HoldingFinite DEF Credit, Completions, TypeOK
    <3> QED
      BY <3>1, HoldingFinite, FS_EmptySet
  <2> QED
    BY <2>1, <2>2, <2>3 DEF OneGatedCommand
<1>5. CASE GateRestarts
  <2>1. \A v \in Users : Holding(v)' = {}
    BY <1>5 DEF GateRestarts, Holding, Idle
  <2> QED
    BY <2>1 DEF OneGatedCommand
<1>6. CASE UNCHANGED <<cmd, debt>>
  BY <1>6, SameHolders
<1> QED
  BY <1>1, <1>2, <1>3, <1>4, <1>5, <1>6
  DEF GateNext, gateVars, CooldownExpires, ReleaseFires, TickerStarts, CompletionsBegin,
      CompletionEnds, NothingDue, AdminReboots

(* No user has two gated commands past preCommand, unless the user was     *)
(* released without an acquisition before.                                 *)
THEOREM OneGatedCommandCorrect == GateSafety => []OneGatedCommand
<1>1. GateInit => OneGatedCommand
  BY DEF GateInit, OneGatedCommand, Holding, Idle
<1> QED
  BY <1>1, ExclusionStep, TypeCorrect, AccountingCorrect, PTL DEF GateSafety

-----------------------------------------------------------------------------
(* II. The trips.                                                          *)

(* The types, and what they do not say: a row that exists has an owner,    *)
(* the ticker fetched rows that exist, a prompt names a row, and the loot  *)
(* of a trip is given while completeActivity runs for its owner.           *)
TripTyped ==
  /\ TripTypeOK
  /\ \A t \in Trips : ~Unused(t) => row[t].owner \in Users
  /\ \A t \in found : ~Unused(t)
  /\ \A t \in paying : row[t].owner \in completing
  /\ \A c \in Commands : body[c].at = "asked" => body[c].trip \in Trips

-----------------------------------------------------------------------------
(* Every step of the trips is a step of the gate, or leaves it alone.      *)
LEMMA StepOfGate == TripTyped /\ [TripNext]_tripVars => [GateNext]_gateVars
<1> SUFFICES ASSUME TripTyped, [TripNext]_tripVars
             PROVE  [GateNext]_gateVars
  OBVIOUS
<1>1. CASE GateOnly
  BY <1>1 DEF GateOnly, GateNext, Arrives, EntersOrEnds
<1>2. ASSUME NEW c \in Commands, BodyBegins(c)
      PROVE  GateNext
  BY <1>2 DEF BodyBegins, GateNext, EntersOrEnds
<1>3. ASSUME NEW c \in Commands, BodyEnds(c)
      PROVE  GateNext
  BY <1>3 DEF BodyEnds, GateNext
<1>4. ASSUME NEW c \in Commands, BodySteps(c)
      PROVE  [GateNext]_gateVars
  <2>1. CASE StartFails(c)
    BY <2>1 DEF StartFails, GateNext
  <2>2. ASSUME NEW u \in Users, AdminFrees(c, u)
        PROVE  GateNext
    BY <2>2 DEF AdminFrees, GateNext
  <2>3. CASE \/ TakeItems(c) \/ PartyDeparts(c) \/ SyncActivity(c)
             \/ AskToCancel(c) \/ CancelRows(c) \/ CancelCache(c)
             \/ \E t \in Trips : CreateRow(c, t)
             \/ \E u \in Users : AdminDeletesRows(c, u)
    BY <2>3 DEF TakeItems, PartyDeparts, SyncActivity, AskToCancel, CancelRows, CancelCache,
                CreateRow, AdminDeletesRows
  <2> QED
    BY <1>4, <2>1, <2>2, <2>3 DEF BodySteps
<1>5. ASSUME NEW c \in Commands, AdminStopsBot(c)
      PROVE  GateNext
  BY <1>5 DEF AdminStopsBot, GateNext
<1>6. ASSUME NEW t \in Trips, TripFinishes(t) \/ HandlerPays(t)
      PROVE  UNCHANGED gateVars
  BY <1>6 DEF TripFinishes, HandlerPays
<1>7. ASSUME NEW u \in Users, HandlerEnds(u)
      PROVE  GateNext
  BY <1>7 DEF HandlerEnds, GateNext
<1>8. CASE TickFinds
  BY <1>8 DEF TickFinds, GateNext
<1>9. CASE TickMarks
  BY <1>9 DEF TickMarks
<1>10. CASE TickCompletes
  <2>1. {row[t].owner : t \in found} \in SUBSET Users
    BY DEF TripTyped, TripTypeOK
  <2> QED
    BY <1>10, <2>1 DEF TickCompletes, GateNext
<1>11. CASE TickEnds
  BY <1>11 DEF TickEnds, GateNext
<1>12. CASE ProcessRestarts
  BY <1>12 DEF ProcessRestarts, GateNext
<1>13. CASE UNCHANGED tripVars
  BY <1>13 DEF tripVars
<1> QED
  BY <1>1, <1>2, <1>3, <1>4, <1>5, <1>6, <1>7, <1>8, <1>9, <1>10, <1>11, <1>12, <1>13
  DEF TripNext

-----------------------------------------------------------------------------
(* The initial state is typed.                                             *)
LEMMA TripInitTyped == TripInit => TripTyped
<1> SUFFICES ASSUME TripInit
             PROVE  TripTyped
  OBVIOUS
<1>1. TypeOK
  BY InitTyped DEF TripInit
<1>2. NoRow \in Rows /\ NoRow.state = "unused"
  BY DEF NoRow, Rows, RowStates
<1>3. NoBody \in Bodies /\ NoBody.at = "done"
  BY DEF NoBody, Bodies, Operations, Steps
<1>4. row \in [Trips -> Rows] /\ \A t \in Trips : Unused(t)
  BY <1>2 DEF TripInit, Unused
<1>5. body \in [Commands -> Bodies] /\ \A c \in Commands : body[c].at = "done"
  BY <1>3 DEF TripInit
<1>6. /\ due \subseteq Trips /\ found \subseteq Trips /\ paying \subseteq found
      /\ cancelled \subseteq Trips /\ found = {}
      /\ crossed \subseteq Users
      /\ marked \in BOOLEAN
  BY DEF TripInit
<1>7. /\ cache \in [Users -> Trips \cup {NoTrip}]
      /\ paid \in [Trips -> 0..2]
      /\ restarts \in 0..MaxRestarts
  BY TripAssumption DEF TripInit
<1> QED
  BY <1>1, <1>4, <1>5, <1>6, <1>7 DEF TripTyped, TripTypeOK

(* What a step keeps of the types, the gate's variables apart.             *)
TripRest ==
  /\ row \in [Trips -> Rows]
  /\ due \subseteq Trips
  /\ cache \in [Users -> Trips \cup {NoTrip}]
  /\ body \in [Commands -> Bodies]
  /\ found \subseteq Trips
  /\ marked \in BOOLEAN
  /\ paying \subseteq found
  /\ cancelled \subseteq Trips
  /\ crossed \subseteq Users
  /\ paid \in [Trips -> 0..2]
  /\ restarts \in 0..MaxRestarts
  /\ \A t \in Trips : ~Unused(t) => row[t].owner \in Users
  /\ \A t \in found : ~Unused(t)
  /\ \A t \in paying : row[t].owner \in completing
  /\ \A c \in Commands : body[c].at = "asked" => body[c].trip \in Trips

LEMMA TypedIsRest == TripTyped <=> TypeOK /\ TripRest
BY DEF TripTyped, TripTypeOK, TripRest

(* A command past preCommand has a user.                                   *)
LEMMA RunningHasUser ==
  ASSUME TypeOK, NEW c \in Commands, cmd[c].phase = "run"
  PROVE  cmd[c].user \in Users
BY DEF TypeOK

(* Deleting a user's open rows leaves every other row, and the owners.     *)
LEMMA DeletingRows ==
  ASSUME TripRest, NEW u \in Users, DeleteOpenRows(u)
  PROVE  /\ row' \in [Trips -> Rows]
         /\ \A t \in Trips : row'[t].owner = row[t].owner
         /\ \A t \in Trips : row'[t].state = "unused" <=> row[t].state = "unused"
         /\ \A t \in Trips : row'[t].state = "open" => row[t].state = "open"
BY DEF TripRest, DeleteOpenRows, OpenRowsOf, Open, Rows, RowStates, Unused

(* The mates of users on their trips are users.                            *)
LEMMA MatesAreUsers ==
  ASSUME TripRest, NEW S \in SUBSET Users
  PROVE  TripMates(S) \subseteq Users
BY DEF TripMates

(* Forgetting entries leaves a cache.                                      *)
LEMMA ForgettingTyped ==
  ASSUME NEW entries \in [Users -> Trips \cup {NoTrip}], NEW u \in Users
  PROVE  Forget(entries, u) \in [Users -> Trips \cup {NoTrip}]
BY DEF Forget

(* Moving a body on keeps it a body.                                       *)
LEMMA AdvancingTyped ==
  ASSUME TripRest, NEW c \in Commands, NEW step \in Steps, NEW t \in Trips \cup {NoTrip},
         NEW with \in SUBSET Users, Advance(c, step, t, with),
         step = "asked" => t \in Trips
  PROVE  /\ body' \in [Commands -> Bodies]
         /\ \A d \in Commands : body'[d].at = "asked" => body'[d].trip \in Trips
<1>1. body[c].op \in Operations \cup {"none"}
  BY DEF TripRest, Bodies
<1>2. [op |-> body[c].op, at |-> step, trip |-> t, with |-> with] \in Bodies
  BY <1>1 DEF Bodies
<1> QED
  BY <1>2 DEF TripRest, Advance

LEMMA MovingTyped ==
  ASSUME TripRest, NEW c \in Commands, NEW step \in Steps \ {"asked"}, MoveTo(c, step)
  PROVE  /\ body' \in [Commands -> Bodies]
         /\ \A d \in Commands : body'[d].at = "asked" => body'[d].trip \in Trips
<1>1. body[c].trip \in Trips \cup {NoTrip} /\ body[c].with \in SUBSET Users
  BY DEF TripRest, Bodies
<1> QED
  BY <1>1, AdvancingTyped DEF MoveTo

(* So does ending it.                                                      *)
LEMMA EndingTyped ==
  ASSUME TripRest, NEW c \in Commands, body' = [body EXCEPT ![c] = NoBody]
  PROVE  /\ body' \in [Commands -> Bodies]
         /\ \A d \in Commands : body'[d].at = "asked" => body'[d].trip \in Trips
<1>1. NoBody \in Bodies /\ NoBody.at # "asked"
  BY DEF NoBody, Bodies, Operations, Steps
<1> QED
  BY <1>1 DEF TripRest

-----------------------------------------------------------------------------
(* No body starts or ends the payment of a trip.                           *)
LEMMA BodiesDoNotPay ==
  ASSUME NEW c \in Commands, BodyBegins(c) \/ BodyEnds(c) \/ BodySteps(c)
  PROVE  completing' = completing /\ paying' = paying /\ found' = found
BY DEF BodyBegins, BodyEnds, BodySteps, TakeItems, PartyDeparts, CreateRow, StartFails,
       SyncActivity, AskToCancel, CancelRows, CancelCache, AdminDeletesRows, AdminFrees,
       CommandRuns, CommandEnds, AdminUnlocks, gateVars

(* The bodies of the commands keep the types.                              *)
LEMMA BodiesTyped ==
  ASSUME TypeOK, TripRest, NEW c \in Commands, BodyBegins(c) \/ BodyEnds(c) \/ BodySteps(c)
  PROVE  TripRest'
<1> USE DEF Unused, Open
<1>0. completing' = completing /\ paying' = paying /\ found' = found
  BY BodiesDoNotPay
<1>1. CASE BodyBegins(c)
  <2>1. PICK op \in OperationsOf(cmd[c].kind) :
          body' = [body EXCEPT ![c] = [op |-> op, at |-> "begin", trip |-> NoTrip, with |-> {}]]
    BY <1>1 DEF BodyBegins
  <2>2. cmd[c].kind \in Kinds
    BY <1>1 DEF BodyBegins, CommandRuns, TypeOK
  <2>3. op \in Operations
    BY <2>2 DEF OperationsOf, Operations, Kinds, SlashKinds, HookedKinds, DirectKinds
  <2>4. [op |-> op, at |-> "begin", trip |-> NoTrip, with |-> {}] \in Bodies
    BY <2>3 DEF Bodies, Steps
  <2>5. /\ body' \in [Commands -> Bodies]
        /\ \A d \in Commands : body'[d].at = "asked" => body'[d].trip \in Trips
    BY <2>1, <2>4 DEF TripRest
  <2> QED
    BY <1>0, <1>1, <2>5 DEF TripRest, BodyBegins
<1>2. CASE BodyEnds(c)
  BY <1>0, <1>2, EndingTyped DEF TripRest, BodyEnds
<1>3. CASE StartFails(c)
  BY <1>0, <1>3, EndingTyped DEF TripRest, StartFails
<1>4. CASE TakeItems(c)
  <2>1. cmd[c].user \in Users
    BY <1>4, RunningHasUser DEF TakeItems, At
  <2>2. /\ body' \in [Commands -> Bodies]
        /\ \A d \in Commands : body'[d].at = "asked" => body'[d].trip \in Trips
    BY <1>4, <2>1, AdvancingTyped DEF TakeItems, Steps
  <2> QED
    BY <1>0, <1>4, <2>2 DEF TripRest, TakeItems
<1>5. CASE PartyDeparts(c)
  <2>1. PICK party \in Parties :
          Advance(c, "charged", NoTrip, {v \in party : Free(v)})
    BY <1>5 DEF PartyDeparts
  <2>2. {v \in party : Free(v)} \in SUBSET Users
    BY <2>1, TripAssumption
  <2>3. /\ body' \in [Commands -> Bodies]
        /\ \A d \in Commands : body'[d].at = "asked" => body'[d].trip \in Trips
    BY <2>1, <2>2, AdvancingTyped DEF Steps
  <2> QED
    BY <1>0, <1>5, <2>3 DEF TripRest, PartyDeparts
<1>6. ASSUME NEW t \in Trips, CreateRow(c, t)
      PROVE  TripRest'
  <2>1. cmd[c].user \in Users
    BY <1>6, RunningHasUser DEF CreateRow, Charged, At
  <2>2. body[c].with \in SUBSET Users
    BY DEF TripRest, Bodies
  <2>3. [state |-> "open", owner |-> cmd[c].user, team |-> body[c].with] \in Rows
    BY <2>1, <2>2 DEF Rows, RowStates
  <2>4. /\ row' \in [Trips -> Rows]
        /\ \A s \in Trips : ~Unused(s)' => row'[s].owner \in Users
        /\ \A s \in found : ~Unused(s)' /\ row'[s].owner = row[s].owner
    BY <1>6, <2>1, <2>3 DEF TripRest, CreateRow
  <2>5. /\ body' \in [Commands -> Bodies]
        /\ \A d \in Commands : body'[d].at = "asked" => body'[d].trip \in Trips
    BY <1>6, <2>2, AdvancingTyped DEF CreateRow, Steps
  <2>6. crossed' \subseteq Users
    <3>1. TripMates(body[c].with \cup {cmd[c].user}) \subseteq Users
      BY <2>1, <2>2, MatesAreUsers
    <3> QED
      BY <1>6, <3>1 DEF TripRest, CreateRow
  <2> QED
    BY <1>0, <1>6, <2>4, <2>5, <2>6 DEF TripRest, CreateRow
<1>7. CASE SyncActivity(c)
  <2>1. cache' \in [Users -> Trips \cup {NoTrip}]
    BY <1>7 DEF TripRest, SyncActivity, Bodies
  <2>2. /\ body' \in [Commands -> Bodies]
        /\ \A d \in Commands : body'[d].at = "asked" => body'[d].trip \in Trips
    BY <1>7, MovingTyped DEF SyncActivity, Steps
  <2> QED
    BY <1>0, <1>7, <2>1, <2>2 DEF TripRest, SyncActivity
<1>8. CASE AskToCancel(c)
  <2>1. cmd[c].user \in Users
    BY <1>8, RunningHasUser DEF AskToCancel, At
  <2>2. cache[cmd[c].user] \in Trips
    BY <1>8, <2>1 DEF TripRest, AskToCancel
  <2>3. /\ body' \in [Commands -> Bodies]
        /\ \A d \in Commands : body'[d].at = "asked" => body'[d].trip \in Trips
    BY <1>8, <2>2, AdvancingTyped DEF AskToCancel, Steps
  <2> QED
    BY <1>0, <1>8, <2>3 DEF TripRest, AskToCancel
<1>9. CASE CancelRows(c)
  <2>1. cmd[c].user \in Users
    BY <1>9, RunningHasUser DEF CancelRows, At
  <2>2. /\ row' \in [Trips -> Rows]
        /\ \A s \in Trips : ~Unused(s)' => row'[s].owner \in Users
        /\ \A s \in found : ~Unused(s)' /\ row'[s].owner = row[s].owner
    BY <1>9, <2>1, DeletingRows DEF TripRest, CancelRows
  <2>3. body[c].trip \in Trips
    BY <1>9 DEF TripRest, CancelRows, At
  <2>4. /\ body' \in [Commands -> Bodies]
        /\ \A d \in Commands : body'[d].at = "asked" => body'[d].trip \in Trips
    BY <1>9, MovingTyped DEF CancelRows, Steps
  <2>5. crossed' \subseteq Users
    <3>1. TripMates({cmd[c].user}) \subseteq Users
      BY <2>1, MatesAreUsers
    <3> QED
      BY <1>9, <3>1 DEF TripRest, CancelRows
  <2> QED
    BY <1>0, <1>9, <2>2, <2>3, <2>4, <2>5 DEF TripRest, CancelRows
<1>10. CASE CancelCache(c)
  <2>1. cache' \in [Users -> Trips \cup {NoTrip}]
    BY <1>10 DEF TripRest, CancelCache
  <2>2. /\ body' \in [Commands -> Bodies]
        /\ \A d \in Commands : body'[d].at = "asked" => body'[d].trip \in Trips
    BY <1>10, MovingTyped DEF CancelCache, Steps
  <2> QED
    BY <1>0, <1>10, <2>1, <2>2 DEF TripRest, CancelCache
<1>11. ASSUME NEW u \in Users, AdminDeletesRows(c, u)
       PROVE  TripRest'
  <2>1. /\ row' \in [Trips -> Rows]
        /\ \A s \in Trips : ~Unused(s)' => row'[s].owner \in Users
        /\ \A s \in found : ~Unused(s)' /\ row'[s].owner = row[s].owner
    BY <1>11, DeletingRows DEF TripRest, AdminDeletesRows
  <2>2. /\ body' \in [Commands -> Bodies]
        /\ \A d \in Commands : body'[d].at = "asked" => body'[d].trip \in Trips
    BY <1>11, AdvancingTyped DEF AdminDeletesRows, Steps
  <2>3. crossed' \subseteq Users
    <3>1. TripMates({u}) \subseteq Users
      BY MatesAreUsers
    <3> QED
      BY <1>11, <3>1 DEF TripRest, AdminDeletesRows
  <2> QED
    BY <1>0, <1>11, <2>1, <2>2, <2>3 DEF TripRest, AdminDeletesRows
<1>12. ASSUME NEW u \in Users, AdminFrees(c, u)
       PROVE  TripRest'
  <2>1. [cache EXCEPT ![u] = NoTrip] \in [Users -> Trips \cup {NoTrip}]
    BY DEF TripRest
  <2>2. cache' \in [Users -> Trips \cup {NoTrip}]
    BY <1>12, <2>1, ForgettingTyped DEF AdminFrees
  <2>3. /\ body' \in [Commands -> Bodies]
        /\ \A d \in Commands : body'[d].at = "asked" => body'[d].trip \in Trips
    BY <1>12, MovingTyped DEF AdminFrees, Steps
  <2>4. crossed' \subseteq Users
    <3>1. TripMates({u}) \subseteq Users
      BY MatesAreUsers
    <3> QED
      BY <1>12, <3>1 DEF TripRest, AdminFrees
  <2> QED
    BY <1>0, <1>12, <2>2, <2>3, <2>4 DEF TripRest, AdminFrees
<1> QED
  BY <1>1, <1>2, <1>3, <1>4, <1>5, <1>6, <1>7, <1>8, <1>9, <1>10, <1>11, <1>12 DEF BodySteps

(* Trips complete within a run of the ticker.                              *)
CompletesInTick == completing # {} => ticking

LEMMA CompletesInTickStep == CompletesInTick /\ [GateNext]_gateVars => CompletesInTick'
BY DEF CompletesInTick, GateNext, gateVars, Arrives, EntersOrEnds, SlashArrives, ButtonArrives,
       RunCommandDirectly, HookRefuses, HookAnswers, HookOpens, HookPasses, PreCommandRefuses, PreCommandThrows,
       PreCommandAcquires, InhibitorRefuses, CommandRuns, CommandEnds, CooldownExpires,
       ReleaseFires, TickerStarts, CompletionsBegin, CompletionEnds, NothingDue, AdminUnlocks,
       AdminReboots, GateRestarts

(* The ticker keeps the types.                                             *)
LEMMA TickerTyped ==
  ASSUME TripRest, CompletesInTick, TickFinds \/ TickMarks \/ TickCompletes \/ TickEnds
  PROVE  TripRest'
<1> USE DEF Unused, Open
<1>1. CASE TickFinds
  <2>1. paying = {}
    BY <1>1 DEF TripRest, CompletesInTick, TickFinds, TickerStarts
  <2> QED
    BY <1>1, <2>1 DEF TripRest, TickFinds
<1>2. CASE TickMarks
  <2>1. /\ row' \in [Trips -> Rows]
        /\ \A t \in Trips : row'[t].owner = row[t].owner
        /\ \A t \in Trips : row'[t].state = "unused" <=> row[t].state = "unused"
    BY <1>2 DEF TripRest, TickMarks, Rows, RowStates
  <2>2. completing' = completing
    BY <1>2 DEF TickMarks, gateVars
  <2> QED
    BY <1>2, <2>1, <2>2 DEF TripRest, TickMarks
<1>3. CASE TickCompletes
  <2>1. completing' = {row[t].owner : t \in found}
    BY <1>3 DEF TickCompletes, CompletionsBegin
  <2> QED
    BY <1>3, <2>1 DEF TripRest, TickCompletes
<1>4. CASE TickEnds
  <2>1. paying = {}
    BY <1>4 DEF TripRest, TickEnds, NothingDue
  <2> QED
    BY <1>4, <2>1 DEF TripRest, TickEnds
<1> QED
  BY <1>1, <1>2, <1>3, <1>4

(* So do time, the handlers and a restart.                                 *)
LEMMA HandlersTyped ==
  ASSUME TripRest,
         \/ \E t \in Trips : TripFinishes(t) \/ HandlerPays(t)
         \/ \E u \in Users : HandlerEnds(u)
         \/ ProcessRestarts
  PROVE  TripRest'
<1> USE DEF Unused, Open
<1>1. ASSUME NEW t \in Trips, TripFinishes(t)
      PROVE  TripRest'
  BY <1>1 DEF TripRest, TripFinishes, gateVars
<1>2. ASSUME NEW t \in Trips, HandlerPays(t)
      PROVE  TripRest'
  <2>1. paid' \in [Trips -> 0..2]
    BY <1>2 DEF TripRest, HandlerPays
  <2> QED
    BY <1>2, <2>1 DEF TripRest, HandlerPays, gateVars
<1>3. ASSUME NEW u \in Users, HandlerEnds(u)
      PROVE  TripRest'
  <2>1. completing' = completing \ {u}
    BY <1>3 DEF HandlerEnds, CompletionEnds
  <2>2. cache' \in [Users -> Trips \cup {NoTrip}]
    BY <1>3, ForgettingTyped DEF TripRest, HandlerEnds
  <2>3. \A t \in paying' : row[t].owner \in completing'
    BY <1>3, <2>1 DEF TripRest, HandlerEnds, TripOf
  <2> QED
    BY <1>3, <2>2, <2>3 DEF TripRest, HandlerEnds
<1>4. CASE ProcessRestarts
  <2>1. NoBody \in Bodies /\ NoBody.at = "done"
    BY DEF NoBody, Bodies, Operations, Steps
  <2>2. restarts' \in 0..MaxRestarts
    BY <1>4, TripAssumption DEF TripRest, ProcessRestarts
  <2>3. /\ body' \in [Commands -> Bodies]
        /\ \A d \in Commands : body'[d].at = "asked" => body'[d].trip \in Trips
    BY <1>4, <2>1 DEF ProcessRestarts
  <2> QED
    BY <1>4, <2>2, <2>3 DEF TripRest, ProcessRestarts
<1> QED
  BY <1>1, <1>2, <1>3, <1>4

(* The steps of the gate alone do not start or end a payment.              *)
LEMMA GateOnlyTyped ==
  ASSUME TripRest, GateOnly
  PROVE  TripRest'
<1>1. completing' = completing
  BY DEF GateOnly, SlashArrives, ButtonArrives, RunCommandDirectly, HookRefuses, HookAnswers, HookOpens, HookPasses,
         PreCommandRefuses, PreCommandThrows, PreCommandAcquires, InhibitorRefuses,
         CooldownExpires, ReleaseFires
<1> QED
  BY <1>1 DEF GateOnly, TripRest, tripOnlyVars, Unused

TripInv == TypeOK /\ CompletesInTick /\ TripRest

LEMMA TripInvInit == TripInit => TripInv
<1> SUFFICES ASSUME TripInit
             PROVE  TripInv
  OBVIOUS
<1>1. TypeOK /\ TripRest
  BY TripInitTyped, TypedIsRest
<1>2. CompletesInTick
  BY DEF TripInit, GateInit, CompletesInTick
<1> QED
  BY <1>1, <1>2 DEF TripInv

LEMMA TripInvStep == TripInv /\ [TripNext]_tripVars => TripInv'
<1> SUFFICES ASSUME TripInv, [TripNext]_tripVars
             PROVE  TripInv'
  OBVIOUS
<1>1. [GateNext]_gateVars
  BY StepOfGate, TypedIsRest DEF TripInv
<1>2. TypeOK' /\ CompletesInTick'
  BY <1>1, TypeStep, CompletesInTickStep DEF TripInv
<1>3. CASE GateOnly
  BY <1>2, <1>3, GateOnlyTyped DEF TripInv
<1>4. ASSUME NEW c \in Commands, BodyBegins(c) \/ BodyEnds(c) \/ BodySteps(c)
      PROVE  TripInv'
  BY <1>2, <1>4, BodiesTyped DEF TripInv
<1>5. ASSUME NEW c \in Commands, AdminStopsBot(c)
      PROVE  TripInv'
  <2>1. completing' = completing
    BY <1>5 DEF AdminStopsBot, AdminReboots
  <2> QED
    BY <1>2, <1>5, <2>1 DEF TripInv, TripRest, AdminStopsBot, tripOnlyVars, Unused
<1>6. CASE \/ \E t \in Trips : TripFinishes(t) \/ HandlerPays(t)
           \/ \E u \in Users : HandlerEnds(u)
           \/ ProcessRestarts
  BY <1>2, <1>6, HandlersTyped DEF TripInv
<1>7. CASE TickFinds \/ TickMarks \/ TickCompletes \/ TickEnds
  BY <1>2, <1>7, TickerTyped DEF TripInv
<1>8. CASE UNCHANGED tripVars
  BY <1>2, <1>8 DEF TripInv, TripRest, tripVars, tripOnlyVars, gateVars, Unused
<1> QED
  BY <1>3, <1>4, <1>5, <1>6, <1>7, <1>8 DEF TripNext

(* The types of the gate and of the trips hold in every reachable state,   *)
(* however many users, invocations, rows and restarts there are.           *)
THEOREM TripTypeCorrect == TripSafety => []TripTypeOK
<1>1. TripInv => TripTypeOK
  BY DEF TripInv, TripRest, TripTypeOK
<1> QED
  BY <1>1, TripInvInit, TripInvStep, PTL DEF TripSafety

(* By the way MinionTrips is written, each of its steps is one of the gate *)
(* or leaves the gate alone: what is proved of the gate holds for it.      *)
LEMMA TripsFollowGate == TripSafety => GateSafety
<1>1. TripInit => GateInit
  BY DEF TripInit
<1>2. TripInv /\ [TripNext]_tripVars => [GateNext]_gateVars
  BY StepOfGate, TypedIsRest DEF TripInv
<1> QED
  BY <1>1, <1>2, TripInvInit, TripInvStep, PTL DEF TripSafety, GateSafety

(* In particular at most one gated command of a user has a body that runs, *)
(* unless he was released without an acquisition (preCommand.ts:75-78).    *)
THEOREM TripsOneGatedCommand == TripSafety => []OneGatedCommand
BY TripsFollowGate, OneGatedCommandCorrect, PTL

-----------------------------------------------------------------------------
(* Why a trip is paid once: its loot is given only between the ticker's    *)
(* update of the row and the end of its handler, and a row the update has  *)
(* passed is never fetched again.                                          *)
PaidRowsClosed == \A t \in Trips : paid[t] > 0 => row[t].state \in {"completed", "deleted"}
MarkedRowsClosed == marked => \A t \in found : ~Open(t)
PayingUnpaid == \A t \in paying : paid[t] = 0
FoundUnpaid == completing = {} => \A t \in found : paid[t] = 0
CompletingMarked == completing # {} => marked /\ \A t \in found : row[t].owner \in completing

PayInv ==
  /\ TripInv
  /\ PaidAtMostOnce
  /\ PaidRowsClosed
  /\ MarkedRowsClosed
  /\ PayingUnpaid
  /\ FoundUnpaid
  /\ CompletingMarked

(* What the step of a command can do to the rows.                          *)
RowsAdvance ==
  \A t \in Trips :
    /\ row[t].state # "unused" => row'[t].owner = row[t].owner
    /\ row[t].state \in {"completed", "deleted"} => row'[t].state = row[t].state
    /\ row[t].state # "unused" /\ row[t].state # "open" => row'[t].state # "open"

LEMMA BodiesAdvanceRows ==
  ASSUME TripInv, NEW c \in Commands, BodyBegins(c) \/ BodyEnds(c) \/ BodySteps(c)
  PROVE  RowsAdvance /\ UNCHANGED <<found, marked, paying, completing, paid>>
<1> USE DEF Open, Unused
<1>0. UNCHANGED <<found, marked, paying, completing, paid>>
  BY BodiesDoNotPay DEF BodyBegins, BodyEnds, BodySteps, TakeItems, PartyDeparts, CreateRow,
     StartFails, SyncActivity, AskToCancel, CancelRows, CancelCache, AdminDeletesRows, AdminFrees
<1>1. ASSUME NEW t \in Trips, CreateRow(c, t)
      PROVE  RowsAdvance
  BY <1>1 DEF RowsAdvance, CreateRow, TripInv, TripRest
<1>2. ASSUME NEW u \in Users, DeleteOpenRows(u)
      PROVE  RowsAdvance
  BY <1>2, DeletingRows DEF RowsAdvance, DeleteOpenRows, OpenRowsOf, TripInv
<1>3. CASE CancelRows(c)
  <2>1. cmd[c].user \in Users
    BY <1>3, RunningHasUser DEF CancelRows, At, TripInv
  <2>2. DeleteOpenRows(cmd[c].user)
    BY <1>3 DEF CancelRows
  <2> QED
    BY <1>0, <1>2, <2>1, <2>2
<1>4. ASSUME NEW u \in Users, AdminDeletesRows(c, u)
      PROVE  RowsAdvance
  BY <1>2, <1>4 DEF AdminDeletesRows
<1>5. CASE row' = row
  BY <1>0, <1>5 DEF RowsAdvance
<1> QED
  BY <1>0, <1>1, <1>3, <1>4, <1>5
  DEF BodyBegins, BodyEnds, BodySteps, TakeItems, PartyDeparts, StartFails, SyncActivity,
      AskToCancel, CancelCache, AdminFrees

(* Whatever only advances rows keeps the payments in order.                *)
LEMMA AdvancingKeepsPay ==
  ASSUME PayInv, TripInv', RowsAdvance, UNCHANGED <<found, marked, paying, completing, paid>>
  PROVE  PayInv'
<1> USE DEF PayInv, Open
<1>1. found \subseteq Trips /\ \A t \in found : row[t].state # "unused"
  BY DEF TripInv, TripRest, Unused
<1>2. PaidAtMostOnce' /\ PaidRowsClosed'
  BY DEF PaidAtMostOnce, PaidRowsClosed, RowsAdvance
<1>3. MarkedRowsClosed' /\ CompletingMarked'
  BY <1>1 DEF MarkedRowsClosed, CompletingMarked, RowsAdvance
<1>4. PayingUnpaid' /\ FoundUnpaid'
  BY DEF PayingUnpaid, FoundUnpaid
<1> QED
  BY <1>2, <1>3, <1>4

LEMMA PayInit == TripInit => PayInv
BY TripInvInit DEF PayInv, TripInit, GateInit, PaidAtMostOnce, PaidRowsClosed, MarkedRowsClosed,
   PayingUnpaid, FoundUnpaid, CompletingMarked

LEMMA PayStep == PayInv /\ [TripNext]_tripVars => PayInv'
<1> SUFFICES ASSUME PayInv, [TripNext]_tripVars
             PROVE  PayInv'
  OBVIOUS
<1>0. TripInv'
  BY TripInvStep DEF PayInv
<1> USE DEF Open
<1>1. CASE UNCHANGED <<row, found, marked, paying, completing, paid>>
  <2>1. RowsAdvance
    BY <1>1 DEF RowsAdvance
  <2> QED
    BY <1>0, <1>1, <2>1, AdvancingKeepsPay
<1>2. CASE GateOnly
  <2>1. completing' = completing
    BY <1>2 DEF GateOnly, SlashArrives, ButtonArrives, RunCommandDirectly, HookRefuses, HookAnswers, HookOpens, HookPasses,
       PreCommandRefuses, PreCommandThrows, PreCommandAcquires, InhibitorRefuses,
       CooldownExpires, ReleaseFires
  <2> QED
    BY <1>1, <1>2, <2>1 DEF GateOnly, tripOnlyVars
<1>3. ASSUME NEW c \in Commands, BodyBegins(c) \/ BodyEnds(c) \/ BodySteps(c)
      PROVE  PayInv'
  BY <1>0, <1>3, BodiesAdvanceRows, AdvancingKeepsPay DEF PayInv
<1>4. ASSUME NEW c \in Commands, AdminStopsBot(c)
      PROVE  PayInv'
  BY <1>1, <1>4 DEF AdminStopsBot, AdminReboots, tripOnlyVars
<1>5. ASSUME NEW t \in Trips, TripFinishes(t)
      PROVE  PayInv'
  BY <1>1, <1>5 DEF TripFinishes, gateVars
<1>6. ASSUME NEW t \in Trips, HandlerPays(t)
      PROVE  PayInv'
  <2>1. /\ paid[t] = 0 /\ t \in found /\ marked /\ ~Open(t) /\ ~Unused(t) /\ completing # {}
        /\ paid \in [Trips -> 0..2]
    BY <1>6 DEF PayInv, HandlerPays, PayingUnpaid, CompletingMarked, MarkedRowsClosed, TripInv,
                TripRest
  <2>2. row[t].state \in {"completed", "deleted"}
    BY <2>1 DEF PayInv, TripInv, TripRest, Rows, RowStates, Unused
  <2>3. /\ UNCHANGED <<row, found, marked, completing>>
        /\ paying' = paying \ {t}
        /\ paid' = [paid EXCEPT ![t] = 1]
    BY <1>6, <2>1 DEF HandlerPays, gateVars
  <2>4. PaidAtMostOnce' /\ PaidRowsClosed'
    BY <2>1, <2>2, <2>3 DEF PayInv, PaidAtMostOnce, PaidRowsClosed
  <2>5. PayingUnpaid' /\ FoundUnpaid'
    BY <2>1, <2>3 DEF PayInv, PayingUnpaid, FoundUnpaid, TripInv, TripRest
  <2>6. MarkedRowsClosed' /\ CompletingMarked'
    BY <2>3 DEF PayInv, MarkedRowsClosed, CompletingMarked
  <2> QED
    BY <1>0, <2>4, <2>5, <2>6 DEF PayInv
<1>7. ASSUME NEW u \in Users, HandlerEnds(u)
      PROVE  PayInv'
  <2>1. /\ completing' = completing \ {u} /\ u \in completing
        /\ found' = found \ TripOf(u)
        /\ paying' = paying \ TripOf(u)
        /\ marked' = (completing # {u})
        /\ UNCHANGED <<row, paid>>
    BY <1>7 DEF HandlerEnds, CompletionEnds
  <2>2. marked /\ \A t \in found : row[t].owner \in completing
    BY <2>1 DEF PayInv, CompletingMarked
  <2>3. CompletingMarked'
    BY <2>1, <2>2 DEF CompletingMarked, TripOf
  <2>4. FoundUnpaid'
    BY <2>1, <2>2 DEF FoundUnpaid, TripOf
  <2>5. PayingUnpaid' /\ MarkedRowsClosed'
    BY <2>1, <2>2 DEF PayInv, PayingUnpaid, MarkedRowsClosed
  <2>6. PaidAtMostOnce' /\ PaidRowsClosed'
    BY <2>1 DEF PayInv, PaidAtMostOnce, PaidRowsClosed
  <2> QED
    BY <1>0, <2>3, <2>4, <2>5, <2>6 DEF PayInv
<1>8. CASE TickFinds
  <2>1. /\ completing = {} /\ completing' = {} /\ paying' = {} /\ marked' = FALSE
        /\ found' = {t \in due : Open(t)}
        /\ UNCHANGED <<row, paid>>
    BY <1>8 DEF PayInv, TickFinds, TickerStarts, TripInv, TripRest, CompletesInTick
  <2>2. FoundUnpaid'
    BY <2>1 DEF PayInv, FoundUnpaid, PaidRowsClosed, TripInv, TripRest
  <2>3. PayingUnpaid' /\ MarkedRowsClosed' /\ CompletingMarked'
    BY <2>1 DEF PayingUnpaid, MarkedRowsClosed, CompletingMarked
  <2>4. PaidAtMostOnce' /\ PaidRowsClosed'
    BY <2>1 DEF PayInv, PaidAtMostOnce, PaidRowsClosed
  <2> QED
    BY <1>0, <2>2, <2>3, <2>4 DEF PayInv
<1>9. CASE TickMarks
  <2>1. /\ completing = {} /\ UNCHANGED <<completing, found, paying, paid>>
        /\ row' = [t \in Trips |->
                     IF t \in found /\ Open(t) THEN [row[t] EXCEPT !.state = "completed"] ELSE row[t]]
    BY <1>9 DEF TickMarks, gateVars
  <2>2. \A t \in Trips : /\ row'[t].state = IF t \in found /\ Open(t) THEN "completed" ELSE row[t].state
    BY <2>1 DEF PayInv, TripInv, TripRest, Rows
  <2>3. MarkedRowsClosed' /\ CompletingMarked'
    BY <2>1, <2>2 DEF PayInv, MarkedRowsClosed, CompletingMarked, TripInv, TripRest
  <2>4. PaidAtMostOnce' /\ PaidRowsClosed'
    BY <2>1, <2>2 DEF PayInv, PaidAtMostOnce, PaidRowsClosed
  <2>5. PayingUnpaid' /\ FoundUnpaid'
    BY <2>1 DEF PayInv, PayingUnpaid, FoundUnpaid
  <2> QED
    BY <1>0, <2>3, <2>4, <2>5 DEF PayInv
<1>10. CASE TickCompletes
  <2>1. /\ completing = {} /\ marked
        /\ completing' = {row[t].owner : t \in found}
        /\ completing' # {}
        /\ paying' = found
        /\ UNCHANGED <<row, found, marked, paid>>
    BY <1>10 DEF TickCompletes, CompletionsBegin
  <2>2. PayingUnpaid' /\ FoundUnpaid'
    BY <2>1 DEF PayInv, PayingUnpaid, FoundUnpaid
  <2>3. MarkedRowsClosed' /\ CompletingMarked'
    BY <2>1 DEF PayInv, MarkedRowsClosed, CompletingMarked
  <2>4. PaidAtMostOnce' /\ PaidRowsClosed'
    BY <2>1 DEF PayInv, PaidAtMostOnce, PaidRowsClosed
  <2> QED
    BY <1>0, <2>2, <2>3, <2>4 DEF PayInv
<1>11. CASE TickEnds
  <2>1. /\ completing = {} /\ completing' = {} /\ found' = {}
        /\ UNCHANGED <<row, marked, paying, paid>>
    BY <1>11 DEF TickEnds, NothingDue
  <2> QED
    BY <1>0, <2>1 DEF PayInv, PaidAtMostOnce, PaidRowsClosed, PayingUnpaid, FoundUnpaid,
                      MarkedRowsClosed, CompletingMarked
<1>12. CASE ProcessRestarts
  <2>1. /\ completing' = {} /\ found' = {} /\ marked' = FALSE /\ paying' = {}
        /\ UNCHANGED <<row, paid>>
    BY <1>12 DEF ProcessRestarts, GateRestarts
  <2> QED
    BY <1>0, <2>1 DEF PayInv, PaidAtMostOnce, PaidRowsClosed, PayingUnpaid, FoundUnpaid,
                      MarkedRowsClosed, CompletingMarked
<1>13. CASE UNCHANGED tripVars
  BY <1>1, <1>13 DEF tripVars, tripOnlyVars, gateVars
<1> QED
  BY <1>2, <1>3, <1>4, <1>5, <1>6, <1>7, <1>8, <1>9, <1>10, <1>11, <1>12, <1>13 DEF TripNext

(* The loot of a trip is given at most once, for any number of users,      *)
(* trips, restarts and ways to start, cancel or complete them.             *)
THEOREM PaidAtMostOnceCorrect == TripSafety => []PaidAtMostOnce
<1>1. TripInit => PayInv
  BY PayInit
<1>2. PayInv => PaidAtMostOnce
  BY DEF PayInv
<1> QED
  BY <1>1, <1>2, PayStep, PTL DEF TripSafety

-----------------------------------------------------------------------------
(* What a command in the middle of its body knows: a trip whose insert     *)
(* has not returned is in the table, its user's, and not over; one whose   *)
(* cancellation was asked for has nobody else on its team.                 *)
BodyShape(c) ==
  LET t == body[c].trip
      u == cmd[c].user IN
  /\ body[c].at # "done" => cmd[c].phase = "run"
  /\ body[c].at = "charged" => body[c].with # {}
  /\ body[c].at = "created" => t \in Trips /\ ~Unused(t) /\ row[t].owner = u /\ t \notin due
  /\ body[c].op = "cancel" /\ body[c].at \in {"asked", "deleted"}
       => t \in Trips /\ ~Unused(t) /\ row[t].team \subseteq {u}

BodiesShaped == \A c \in Commands : BodyShape(c)

(* What the ticker knows of the trips it fetched.                          *)
TickShaped ==
  /\ found \subseteq due
  /\ \A t \in due : ~Unused(t)
  /\ \A t \in Trips : row[t].state = "completed" => t \in due
  /\ marked \/ \A t \in found : row[t].state # "completed"
  /\ ticking \/ found = {}
  /\ \A u \in completing : TripOf(u) # {}

(* A row keeps its owner and its team as long as it exists, and no command *)
(* completes one.                                                          *)
RowsLast ==
  \A t \in Trips :
    ~Unused(t) => ~Unused(t)' /\ row'[t].owner = row[t].owner /\ row'[t].team = row[t].team

LEMMA DeletingKeepsTeams ==
  ASSUME TripRest, NEW u \in Users, DeleteOpenRows(u)
  PROVE  /\ RowsLast
         /\ \A t \in Trips : row'[t].owner = row[t].owner /\ row'[t].team = row[t].team
         /\ \A t \in Trips :
              row'[t].state = IF Open(t) /\ row[t].owner = u THEN "deleted" ELSE row[t].state
<1>1. \A t \in Trips : row[t] \in Rows
  BY DEF TripRest
<1>2. \A t \in Trips : row'[t] =
        IF t \in OpenRowsOf(u) THEN [row[t] EXCEPT !.state = "deleted"] ELSE row[t]
  BY DEF DeleteOpenRows
<1>3. \A t \in Trips : /\ row'[t].owner = row[t].owner /\ row'[t].team = row[t].team
                       /\ row'[t].state =
                            IF Open(t) /\ row[t].owner = u THEN "deleted" ELSE row[t].state
  BY <1>1, <1>2 DEF OpenRowsOf, Open, Rows
<1> QED
  BY <1>3 DEF RowsLast, Unused

(* The body of a command is its own, and a command that runs goes on.      *)
LEMMA BodyOfOthers ==
  ASSUME TypeOK, TripRest, NEW c \in Commands, BodyBegins(c) \/ BodyEnds(c) \/ BodySteps(c)
  PROVE  /\ \A d \in Commands \ {c} : body'[d] = body[d] /\ cmd'[d] = cmd[d]
         /\ UNCHANGED <<due, found, marked, ticking, completing>>
<1> USE DEF TypeOK, TripRest, MoveTo, Advance
<1>1. CASE BodyBegins(c)
  BY <1>1 DEF BodyBegins, CommandRuns, Proceed
<1>2. CASE BodyEnds(c) \/ StartFails(c)
  BY <1>2 DEF BodyEnds, StartFails, CommandEnds, Ends
<1>3. CASE TakeItems(c) \/ PartyDeparts(c) \/ SyncActivity(c) \/ AskToCancel(c) \/ CancelRows(c) \/ CancelCache(c)
  BY <1>3 DEF TakeItems, PartyDeparts, SyncActivity, AskToCancel, CancelRows, CancelCache, gateVars
<1>4. ASSUME NEW t \in Trips, CreateRow(c, t)
      PROVE  /\ \A d \in Commands \ {c} : body'[d] = body[d] /\ cmd'[d] = cmd[d]
             /\ UNCHANGED <<due, found, marked, ticking, completing>>
  BY <1>4 DEF CreateRow, gateVars
<1>5. ASSUME NEW u \in Users, AdminDeletesRows(c, u) \/ AdminFrees(c, u)
      PROVE  /\ \A d \in Commands \ {c} : body'[d] = body[d] /\ cmd'[d] = cmd[d]
             /\ UNCHANGED <<due, found, marked, ticking, completing>>
  BY <1>5 DEF AdminDeletesRows, AdminFrees, AdminUnlocks, gateVars
<1> QED
  BY <1>1, <1>2, <1>3, <1>4, <1>5 DEF BodySteps

LEMMA BodyRowsLast ==
  ASSUME TypeOK, TripRest, NEW c \in Commands, BodyBegins(c) \/ BodyEnds(c) \/ BodySteps(c)
  PROVE  /\ RowsLast
         /\ \A t \in Trips : row'[t].state = "completed" => row[t].state = "completed"
<1> USE DEF Unused, Open
<1>1. ASSUME NEW t \in Trips, CreateRow(c, t)
      PROVE  /\ RowsLast
             /\ \A s \in Trips : row'[s].state = "completed" => row[s].state = "completed"
  BY <1>1 DEF RowsLast, CreateRow, TripRest
<1>2. ASSUME NEW u \in Users, DeleteOpenRows(u)
      PROVE  /\ RowsLast
             /\ \A s \in Trips : row'[s].state = "completed" => row[s].state = "completed"
  BY <1>2, DeletingKeepsTeams
<1>3. CASE CancelRows(c)
  <2>1. cmd[c].user \in Users
    BY <1>3, RunningHasUser DEF CancelRows, At
  <2>2. DeleteOpenRows(cmd[c].user)
    BY <1>3 DEF CancelRows
  <2> QED
    BY <1>2, <2>1, <2>2
<1>4. ASSUME NEW u \in Users, AdminDeletesRows(c, u)
      PROVE  /\ RowsLast
             /\ \A s \in Trips : row'[s].state = "completed" => row[s].state = "completed"
  BY <1>2, <1>4 DEF AdminDeletesRows
<1>5. CASE row' = row
  BY <1>5 DEF RowsLast
<1> QED
  BY <1>1, <1>3, <1>4, <1>5
  DEF BodyBegins, BodyEnds, BodySteps, TakeItems, PartyDeparts, StartFails, SyncActivity,
      AskToCancel, CancelCache, AdminFrees

(* The shape of a body that takes no step.                                 *)
LEMMA ShapeStays ==
  ASSUME RowsLast, NEW c \in Commands, BodyShape(c), body'[c] = body[c],
         body[c].at # "done" => cmd'[c] = cmd[c],
         body[c].at = "created" => body[c].trip \notin due'
  PROVE  BodyShape(c)'
BY DEF BodyShape, RowsLast

(* The other steps of the gate leave the commands that run.                *)
LEMMA RunningStays ==
  ASSUME TypeOK, GateOnly
  PROVE  \A c \in Commands : cmd[c].phase = "run" => cmd'[c] = cmd[c]
BY DEF TypeOK, GateOnly, SlashArrives, ButtonArrives, RunCommandDirectly, HookRefuses, HookAnswers,
       HookOpens, HookPasses, PreCommandRefuses, PreCommandThrows, PreCommandAcquires,
       InhibitorRefuses, CooldownExpires, ReleaseFires, Become, Proceed, Ends, Ungated, Refused

LEMMA GateOnlyTicks ==
  ASSUME GateOnly
  PROVE  UNCHANGED <<ticking, completing>>
BY DEF GateOnly, SlashArrives, ButtonArrives, RunCommandDirectly, HookRefuses, HookAnswers,
       HookOpens, HookPasses, PreCommandRefuses, PreCommandThrows, PreCommandAcquires,
       InhibitorRefuses, CooldownExpires, ReleaseFires

-----------------------------------------------------------------------------
LEMMA ShapeBodies ==
  ASSUME TypeOK, TripRest, BodiesShaped, NEW c \in Commands,
         BodyBegins(c) \/ BodyEnds(c) \/ BodySteps(c),
         \A t \in due : ~Unused(t),
         \A u \in Users : cache[u] # NoTrip => u \in row[cache[u]].team /\ ~Unused(cache[u])
  PROVE  BodiesShaped'
<1>1. RowsLast
  BY BodyRowsLast
<1>2. /\ \A d \in Commands \ {c} : body'[d] = body[d] /\ cmd'[d] = cmd[d]
      /\ UNCHANGED due
  BY BodyOfOthers
<1>3. ASSUME NEW d \in Commands \ {c}
      PROVE  BodyShape(d)'
  <2>1. /\ BodyShape(d) /\ body'[d] = body[d]
        /\ body[d].at # "done" => cmd'[d] = cmd[d]
        /\ body[d].at = "created" => body[d].trip \notin due'
    BY <1>2 DEF BodiesShaped, BodyShape
  <2> QED
    BY <1>1, <2>1, ShapeStays
<1>4. BodyShape(c)'
  <2>0. /\ BodyShape(c) /\ body[c] \in Bodies /\ body \in [Commands -> Bodies]
        /\ row \in [Trips -> Rows] /\ cmd \in [Commands -> CommandState]
        /\ cache \in [Users -> Trips \cup {NoTrip}]
    BY DEF BodiesShaped, TripRest, TypeOK
  <2>1. CASE BodyBegins(c)
    <3>1. PICK op \in OperationsOf(cmd[c].kind) :
            body'[c] = [op |-> op, at |-> "begin", trip |-> NoTrip, with |-> {}]
      BY <2>0, <2>1 DEF BodyBegins
    <3>2. cmd'[c].phase = "run"
      BY <2>0, <2>1 DEF BodyBegins, CommandRuns, Proceed, CommandState
    <3> QED
      BY <3>1, <3>2 DEF BodyShape
  <2>2. CASE BodyEnds(c) \/ StartFails(c)
    BY <2>0, <2>2 DEF BodyEnds, StartFails, NoBody, BodyShape
  <2>3. CASE TakeItems(c) \/ PartyDeparts(c)
    <3>1. PICK with \in SUBSET Users : with # {} /\ Advance(c, "charged", NoTrip, with)
      <4>1. CASE TakeItems(c)
        BY <4>1, RunningHasUser DEF TakeItems, At
      <4>2. CASE PartyDeparts(c)
        <5>1. PICK party \in Parties : /\ \E v \in party : Free(v)
                                      /\ Advance(c, "charged", NoTrip, {v \in party : Free(v)})
          BY <4>2 DEF PartyDeparts
        <5>2. {v \in party : Free(v)} \in SUBSET Users /\ {v \in party : Free(v)} # {}
          BY <5>1, TripAssumption
        <5> QED
          BY <5>1, <5>2
      <4> QED
        BY <2>3, <4>1, <4>2
    <3>2. cmd' = cmd /\ cmd[c].phase = "run"
      BY <2>3 DEF TakeItems, PartyDeparts, At, gateVars
    <3>3. body'[c].at = "charged" /\ body'[c].with # {}
      BY <2>0, <3>1 DEF Advance
    <3> QED
      BY <3>2, <3>3 DEF BodyShape
  <2>4. ASSUME NEW t \in Trips, CreateRow(c, t)
        PROVE  BodyShape(c)'
    <3>1. /\ body'[c].at = "created" /\ body'[c].trip = t /\ cmd' = cmd /\ cmd[c].phase = "run"
          /\ row'[t].state = "open" /\ row'[t].owner = cmd[c].user
      BY <2>0, <2>4 DEF CreateRow, Charged, At, Advance, gateVars
    <3>2. t \notin due'
      BY <1>2, <2>4 DEF CreateRow
    <3> QED
      BY <3>1, <3>2 DEF BodyShape, Unused
  <2>5. CASE SyncActivity(c) \/ CancelCache(c)
    <3>1. body'[c].at = "done"
      BY <2>0, <2>5 DEF SyncActivity, CancelCache, MoveTo, Advance
    <3> QED
      BY <3>1 DEF BodyShape
  <2>6. CASE AskToCancel(c)
    <3>1. /\ cmd' = cmd /\ row' = row /\ cmd[c].phase = "run"
          /\ Advance(c, "asked", cache[cmd[c].user], {})
          /\ cache[cmd[c].user] # NoTrip
          /\ Cardinality(row[cache[cmd[c].user]].team) <= 1
      BY <2>6 DEF AskToCancel, At, gateVars
    <3>2. PICK u \in Users : u = cmd[c].user
      BY <3>1, RunningHasUser
    <3>3. PICK t \in Trips : t = cache[u]
      BY <2>0, <3>1, <3>2
    <3>4. u \in row[t].team /\ ~Unused(t)
      BY <3>1, <3>2, <3>3
    <3>5. row[t].team \subseteq {u}
      <4>1. row[t].team \in SUBSET Users /\ IsFiniteSet(row[t].team)
        BY <2>0, TripAssumption, FS_Subset DEF Rows
      <4>2. /\ IsFiniteSet(row[t].team \ {u})
            /\ Cardinality(row[t].team \ {u}) = Cardinality(row[t].team) - 1
            /\ Cardinality(row[t].team) \in Nat
            /\ Cardinality(row[t].team \ {u}) \in Nat
        BY <3>4, <4>1, FS_RemoveElement, FS_CardinalityType
      <4>3. Cardinality(row[t].team \ {u}) = 0
        BY <3>1, <3>2, <3>3, <4>2
      <4>4. row[t].team \ {u} = {}
        BY <4>2, <4>3, FS_EmptySet
      <4> QED
        BY <4>4
    <3>6. body'[c].at = "asked" /\ body'[c].trip = t
      BY <2>0, <3>1, <3>2, <3>3 DEF Advance
    <3> QED
      BY <3>1, <3>2, <3>4, <3>5, <3>6 DEF BodyShape, Unused
  <2>7. CASE CancelRows(c)
    <3>1. /\ body'[c].at = "deleted" /\ body'[c].trip = body[c].trip /\ cmd' = cmd
          /\ body[c].op = "cancel" /\ body[c].at = "asked" /\ cmd[c].phase = "run"
      BY <2>0, <2>7 DEF CancelRows, MoveTo, Advance, At, gateVars
    <3>2. body[c].trip \in Trips /\ ~Unused(body[c].trip) /\ row[body[c].trip].team \subseteq {cmd[c].user}
      BY <2>0, <3>1 DEF BodyShape
    <3> QED
      BY <1>1, <3>1, <3>2 DEF BodyShape, RowsLast
  <2>8. ASSUME NEW u \in Users, AdminDeletesRows(c, u) \/ AdminFrees(c, u)
        PROVE  BodyShape(c)'
    <3>1. /\ body'[c].at \in {"deleted", "done"} /\ body'[c].op = "unlock" /\ cmd' = cmd
          /\ cmd[c].phase = "run"
      BY <2>0, <2>8 DEF AdminDeletesRows, AdminFrees, AdminUnlocks, MoveTo, Advance, At, gateVars
    <3> QED
      BY <3>1 DEF BodyShape
  <2> QED
    BY <2>1, <2>2, <2>3, <2>4, <2>5, <2>6, <2>7, <2>8 DEF BodySteps
<1> QED
  BY <1>3, <1>4 DEF BodiesShaped

-----------------------------------------------------------------------------
(* An entry of the cache names a trip its user is on.                      *)
CachedOnTeam ==
  \A u \in Users : cache[u] # NoTrip => u \in row[cache[u]].team /\ ~Unused(cache[u])

ShapeInv == BodiesShaped /\ TickShaped

LEMMA ShapeStep ==
  ASSUME PayInv, ShapeInv, CachedOnTeam, [TripNext]_tripVars
  PROVE  ShapeInv'
<1> USE DEF Unused, Open
<1>0. TypeOK /\ TripRest /\ BodiesShaped /\ TickShaped
  BY DEF PayInv, TripInv, ShapeInv
<1>1. ASSUME UNCHANGED <<row, due, found, marked, completing, ticking, body>>,
             \A c \in Commands : cmd[c].phase = "run" => cmd'[c] = cmd[c]
      PROVE  ShapeInv'
  <2>1. RowsLast
    BY <1>1 DEF RowsLast
  <2>2. BodiesShaped'
    <3> SUFFICES ASSUME NEW c \in Commands
                 PROVE  BodyShape(c)'
      BY DEF BodiesShaped
    <3>1. /\ BodyShape(c) /\ body'[c] = body[c]
          /\ body[c].at # "done" => cmd'[c] = cmd[c]
          /\ body[c].at = "created" => body[c].trip \notin due'
      BY <1>0, <1>1 DEF BodiesShaped, BodyShape
    <3> QED
      BY <2>1, <3>1, ShapeStays
  <2>3. TickShaped'
    BY <1>0, <1>1 DEF TickShaped, TripOf
  <2> QED
    BY <2>2, <2>3 DEF ShapeInv
<1>2. ASSUME UNCHANGED <<body, cmd>>, RowsLast, \A t \in due' \ due : t \in Trips /\ \A c \in Commands : ~Creating(c, t)
      PROVE  BodiesShaped'
  <2> SUFFICES ASSUME NEW c \in Commands
               PROVE  BodyShape(c)'
    BY DEF BodiesShaped
  <2>1. /\ BodyShape(c) /\ body'[c] = body[c] /\ cmd'[c] = cmd[c]
        /\ body[c].at = "created" => body[c].trip \notin due'
    BY <1>0, <1>2 DEF BodiesShaped, BodyShape, Creating
  <2> QED
    BY <1>2, <2>1, ShapeStays
<1>3. CASE GateOnly
  <2>1. UNCHANGED <<row, due, found, marked, completing, ticking, body>>
    BY <1>3, GateOnlyTicks DEF GateOnly, tripOnlyVars
  <2> QED
    BY <1>0, <1>1, <1>3, <2>1, RunningStays
<1>4. ASSUME NEW c \in Commands, BodyBegins(c) \/ BodyEnds(c) \/ BodySteps(c)
      PROVE  ShapeInv'
  <2>1. BodiesShaped'
    BY <1>0, <1>4, ShapeBodies DEF TickShaped, CachedOnTeam
  <2>2. UNCHANGED <<due, found, marked, ticking, completing>>
    BY <1>0, <1>4, BodyOfOthers
  <2>3. RowsLast /\ \A t \in Trips : row'[t].state = "completed" => row[t].state = "completed"
    BY <1>0, <1>4, BodyRowsLast
  <2>4. found \subseteq Trips /\ due \subseteq Trips /\ \A t \in found : ~Unused(t)
    BY <1>0 DEF TripRest
  <2>5. \A u \in Users : TripOf(u)' = TripOf(u)
    BY <2>2, <2>3, <2>4 DEF TripOf, RowsLast
  <2>6. completing \subseteq Users
    BY <1>0 DEF TypeOK
  <2>7. TickShaped'
    BY <1>0, <2>2, <2>3, <2>4, <2>5, <2>6 DEF TickShaped, RowsLast
  <2> QED
    BY <2>1, <2>7 DEF ShapeInv
<1>5. ASSUME NEW c \in Commands, AdminStopsBot(c)
      PROVE  ShapeInv'
  BY <1>1, <1>5 DEF AdminStopsBot, AdminReboots, tripOnlyVars
<1>6. ASSUME NEW t \in Trips, TripFinishes(t)
      PROVE  ShapeInv'
  <2>1. RowsLast /\ UNCHANGED <<row, body, cmd, found, marked, ticking, completing>>
    BY <1>6 DEF TripFinishes, RowsLast, gateVars
  <2>2. \A s \in due' \ due : s \in Trips /\ \A c \in Commands : ~Creating(c, s)
    BY <1>6 DEF TripFinishes, Creating
  <2>3. TickShaped'
    BY <1>0, <1>6, <2>1 DEF TickShaped, TripFinishes, TripOf
  <2> QED
    BY <1>2, <2>1, <2>2, <2>3 DEF ShapeInv
<1>7. ASSUME NEW t \in Trips, HandlerPays(t)
      PROVE  ShapeInv'
  BY <1>1, <1>7 DEF HandlerPays, gateVars
<1>8. ASSUME NEW u \in Users, HandlerEnds(u)
      PROVE  ShapeInv'
  <2>1. /\ UNCHANGED <<row, due, body, cmd>>
        /\ u \in completing /\ completing' = completing \ {u}
        /\ ticking' = (completing # {u}) /\ marked' = (completing # {u})
        /\ found' = found \ TripOf(u)
    BY <1>8 DEF HandlerEnds, CompletionEnds
  <2>2. \A t \in found : row[t].owner \in completing
    BY <2>1 DEF PayInv, CompletingMarked
  <2>3. completing = {u} => found' = {}
    BY <2>1, <2>2 DEF TripOf
  <2>4. \A v \in completing' : TripOf(v)' # {}
    BY <1>0, <2>1 DEF TickShaped, TripOf
  <2>5. TickShaped'
    BY <1>0, <2>1, <2>3, <2>4 DEF TickShaped
  <2>6. RowsLast
    BY <2>1 DEF RowsLast
  <2> QED
    BY <1>2, <2>1, <2>5, <2>6 DEF ShapeInv
<1>9. CASE TickFinds
  <2>1. /\ UNCHANGED <<row, due, body, cmd, completing>> /\ ticking' /\ ~marked'
        /\ found' = {t \in due : Open(t)} /\ ~ticking /\ completing = {}
    BY <1>9 DEF TickFinds, TickerStarts, PayInv, TripInv, CompletesInTick
  <2>2. RowsLast
    BY <2>1 DEF RowsLast
  <2>3. TickShaped'
    BY <1>0, <2>1 DEF TickShaped
  <2> QED
    BY <1>2, <2>1, <2>2, <2>3 DEF ShapeInv
<1>10. CASE TickMarks
  <2>1. /\ UNCHANGED <<due, body, cmd, found, completing, ticking>> /\ marked' /\ completing = {} /\ ticking
        /\ row' = [t \in Trips |->
                     IF t \in found /\ Open(t) THEN [row[t] EXCEPT !.state = "completed"] ELSE row[t]]
    BY <1>10 DEF TickMarks, gateVars
  <2>2. \A t \in Trips : /\ row'[t].state = IF t \in found /\ Open(t) THEN "completed" ELSE row[t].state
                         /\ row'[t].owner = row[t].owner /\ row'[t].team = row[t].team
    BY <1>0, <2>1 DEF TripRest, Rows
  <2>3. RowsLast
    BY <2>2 DEF RowsLast
  <2>4. TickShaped'
    BY <1>0, <2>1, <2>2 DEF TickShaped, TripRest
  <2> QED
    BY <1>2, <2>1, <2>3, <2>4 DEF ShapeInv
<1>11. CASE TickCompletes
  <2>1. /\ UNCHANGED <<row, due, body, cmd, found, marked, ticking>> /\ marked /\ ticking
        /\ completing' = {row[t].owner : t \in found}
    BY <1>11 DEF TickCompletes, CompletionsBegin
  <2>2. RowsLast
    BY <2>1 DEF RowsLast
  <2>3. TickShaped'
    BY <1>0, <2>1 DEF TickShaped, TripOf
  <2> QED
    BY <1>2, <2>1, <2>2, <2>3 DEF ShapeInv
<1>12. CASE TickEnds
  <2>1. /\ UNCHANGED <<row, due, body, cmd, marked>> /\ found' = {} /\ completing = {} /\ completing' = {}
    BY <1>12 DEF TickEnds, NothingDue
  <2>2. RowsLast
    BY <2>1 DEF RowsLast
  <2>3. TickShaped'
    BY <1>0, <2>1 DEF TickShaped
  <2> QED
    BY <1>2, <2>1, <2>2, <2>3 DEF ShapeInv
<1>13. CASE ProcessRestarts
  <2>1. /\ UNCHANGED <<row, due>> /\ found' = {} /\ completing' = {} /\ body' = [c \in Commands |-> NoBody]
    BY <1>13 DEF ProcessRestarts, GateRestarts
  <2>2. BodiesShaped'
    BY <2>1 DEF BodiesShaped, BodyShape, NoBody
  <2>3. TickShaped'
    BY <1>0, <2>1 DEF TickShaped
  <2> QED
    BY <2>2, <2>3 DEF ShapeInv
<1>14. CASE UNCHANGED tripVars
  BY <1>1, <1>14 DEF tripVars, tripOnlyVars, gateVars
<1> QED
  BY <1>3, <1>4, <1>5, <1>6, <1>7, <1>8, <1>9, <1>10, <1>11, <1>12, <1>13, <1>14 DEF TripNext

-----------------------------------------------------------------------------
(* How table, cache and commands fit together but for crossed users.       *)
Asks(c) == At(c, "cancel", "asked")
Frees(c) == At(c, "cancel", "deleted")

TeamsCached ==
  \A t \in Trips : Open(t) =>
    \A u \in row[t].team : cache[u] = t \/ u \in crossed \/ \E c \in Commands : Creating(c, t)

OneTripEach == \A s, t \in Current : \A u \in Aboard(s) \cap Aboard(t) : s = t \/ u \in crossed

CacheAgrees == \A t \in Current : \A u \in Aboard(t) : cache[u] \in {t, NoTrip} \/ u \in crossed

FreedHasNoTrip ==
  \A c \in Commands, t \in Trips :
    Frees(c) /\ Open(t) /\ cmd[c].user \in Aboard(t) => cmd[c].user \in crossed

AsksOfHisTrip ==
  \A c \in Commands, t \in Current :
    (Asks(c) \/ Frees(c)) /\ cmd[c].user \in Aboard(t)
      => t = body[c].trip \/ cmd[c].user \in crossed

OwnersTravel ==
  \A t \in Trips : ~Unused(t) => row[t].team # {} /\ row[t].owner \in row[t].team \cup crossed

(* Whoever travelled with a crossed user is crossed.                       *)
CrossedTogether == \A t \in Known : Aboard(t) \cap crossed # {} => Aboard(t) \subseteq crossed

FoundIsCached ==
  \A t \in found, u \in Users : cache[u] = t => cache[row[t].owner] = t \/ u \in crossed

CreatedIsOpen ==
  \A c \in Commands, t \in Trips : Creating(c, t) => Open(t) \/ row[t].owner \in crossed

(* Why u may be busy with the trip his entry names.                        *)
Justified(u) ==
  LET t == cache[u] IN
    \/ Open(t)
    \/ t \in found /\ row[t].state = "completed"
    \/ row[t].state = "deleted" /\ (BeingFreed(row[t].owner) \/ u # row[t].owner)
    \/ u \in crossed

EntriesJustified == \A u \in Users : ~Free(u) => Justified(u)

Ties ==
  /\ TeamsCached /\ OneTripEach /\ CacheAgrees /\ FreedHasNoTrip /\ AsksOfHisTrip
  /\ CachedOnTeam /\ OwnersTravel /\ CrossedTogether /\ FoundIsCached /\ CreatedIsOpen
  /\ EntriesJustified

-----------------------------------------------------------------------------
(* The mates of S are closed under travelling together.                    *)
LEMMA MatesTravel ==
  ASSUME NEW S \in SUBSET Users
  PROVE  /\ S \subseteq TripMates(S)
         /\ \A t \in Known : Aboard(t) \cap TripMates(S) # {} => Aboard(t) \subseteq TripMates(S)
<1>1. S \subseteq TripMates(S)
  BY DEF TripMates
<1>2. ASSUME NEW t \in Known, NEW u \in Aboard(t), u \in TripMates(S), NEW v \in Aboard(t)
      PROVE  v \in TripMates(S)
  BY <1>2 DEF TripMates, Aboard
<1> QED
  BY <1>1, <1>2

(* A command none of whose steps tells anything to the others.             *)
Calm(c) ==
  \/ body'[c] = body[c] /\ cmd'[c] = cmd[c]
  \/ body[c].at \notin {"created", "deleted"} /\ body'[c].at \notin {"created", "asked", "deleted"}

LEMMA CalmTellsNothing ==
  ASSUME \A c \in Commands : Calm(c)
  PROVE  /\ \A c \in Commands, t \in Trips : Creating(c, t)' <=> Creating(c, t)
         /\ \A c \in Commands : Frees(c)' => Frees(c)
         /\ \A c \in Commands : (Asks(c) \/ Frees(c))' =>
              /\ Asks(c) \/ Frees(c)
              /\ body'[c].trip = body[c].trip /\ cmd'[c].user = cmd[c].user
         /\ \A u \in Users : BeingFreed(u)' <=> BeingFreed(u)
<1>1. \A c \in Commands, t \in Trips : Creating(c, t)' <=> Creating(c, t)
  BY DEF Calm, Creating
<1>2. /\ \A c \in Commands : Frees(c)' => Frees(c)
      /\ \A c \in Commands : (Asks(c) \/ Frees(c))' =>
              /\ Asks(c) \/ Frees(c)
              /\ body'[c].trip = body[c].trip /\ cmd'[c].user = cmd[c].user
  BY DEF Calm, Asks, Frees, At
<1>3. \A u \in Users : BeingFreed(u)' <=> BeingFreed(u)
  BY DEF Calm, BeingFreed, At
<1> QED
  BY <1>1, <1>2, <1>3

(* The table, but for states that leave "open".                            *)
RowsStay ==
  \A t \in Trips :
    /\ row'[t].owner = row[t].owner /\ row'[t].team = row[t].team
    /\ Unused(t)' <=> Unused(t)
    /\ Open(t)' => Open(t)

(* Trips only end.                                                         *)
TripsOnlyEnd ==
  /\ RowsStay
  /\ \A t \in found' : t \in found \/ (t \in Trips /\ Open(t))
  /\ \A c \in Commands, t \in Trips : Creating(c, t)' => Creating(c, t)

LEMMA EndingShrinks ==
  ASSUME TripsOnlyEnd
  PROVE  /\ Current' \subseteq Current
         /\ \A t \in Trips : Aboard(t)' = Aboard(t)
<1>1. \A t \in Trips : Aboard(t)' = Aboard(t)
  BY DEF TripsOnlyEnd, RowsStay, Aboard
<1>2. Current' \subseteq Current
  BY DEF TripsOnlyEnd, RowsStay, Current
<1> QED
  BY <1>1, <1>2

(* Crossed users take everyone along.                                      *)
CrossedGrows == crossed' = crossed \/ \E S \in SUBSET Users : crossed' = crossed \cup TripMates(S)

LEMMA EndingKeeps ==
  ASSUME TripRest, Ties, TripsOnlyEnd, CrossedGrows, Known' \subseteq Known
  PROVE  crossed \subseteq crossed' /\ OneTripEach' /\ OwnersTravel' /\ CrossedTogether'
<1>1. crossed \subseteq crossed'
  BY DEF CrossedGrows
<1>2. Current' \subseteq Current /\ \A t \in Trips : Aboard(t)' = Aboard(t)
  BY EndingShrinks
<1>3. OneTripEach'
  BY <1>1, <1>2 DEF Ties, OneTripEach, Current
<1>4. OwnersTravel'
  BY <1>1 DEF Ties, OwnersTravel, TripsOnlyEnd, RowsStay
<1>5. Known \subseteq Trips
  BY DEF Known, Current
<1>6. CrossedTogether'
  <2>1. CASE crossed' = crossed
    BY <1>2, <1>5, <2>1 DEF Ties, CrossedTogether
  <2>2. ASSUME NEW S \in SUBSET Users, crossed' = crossed \cup TripMates(S)
        PROVE  CrossedTogether'
    <3>1. \A t \in Known : Aboard(t) \cap TripMates(S) # {} => Aboard(t) \subseteq TripMates(S)
      BY MatesTravel
    <3>2. \A t \in Known : Aboard(t) \cap crossed # {} => Aboard(t) \subseteq crossed
      BY DEF Ties, CrossedTogether
    <3>3. \A t \in Known : Aboard(t) \cap crossed' # {} => Aboard(t) \subseteq crossed'
      BY <2>2, <3>1, <3>2
    <3> QED
      BY <1>2, <1>5, <3>3 DEF CrossedTogether
  <2> QED
    BY <2>1, <2>2 DEF CrossedGrows
<1> QED
  BY <1>1, <1>3, <1>4, <1>6

(* When entries only go, too.                                              *)
LEMMA ForgettingKeeps ==
  ASSUME TripRest, Ties, TripsOnlyEnd, CrossedGrows, \A u \in Users : cache'[u] \in {cache[u], NoTrip}
  PROVE  /\ Known' \subseteq Known
         /\ crossed \subseteq crossed' /\ OneTripEach' /\ OwnersTravel' /\ CrossedTogether'
         /\ CacheAgrees' /\ CachedOnTeam'
<1>1. Current' \subseteq Current /\ \A t \in Trips : Aboard(t)' = Aboard(t)
  BY EndingShrinks
<1>2. Known' \subseteq Known
  BY <1>1, TripAssumption DEF Known
<1>3. crossed \subseteq crossed' /\ OneTripEach' /\ OwnersTravel' /\ CrossedTogether'
  BY <1>2, EndingKeeps
<1>4. CacheAgrees'
  BY <1>1, <1>3 DEF Ties, CacheAgrees, Current, Aboard
<1>5. CachedOnTeam'
  BY DEF Ties, CachedOnTeam, TripsOnlyEnd, RowsStay, TripRest
<1> QED
  BY <1>2, <1>3, <1>4, <1>5

-----------------------------------------------------------------------------
(* Calm steps keep the ties.                                               *)
LEMMA CalmKeepsTies ==
  ASSUME TripRest, Ties, UNCHANGED <<row, cache, found, crossed>>, \A c \in Commands : Calm(c)
  PROVE  Ties'
<1>1. /\ \A c \in Commands, t \in Trips : Creating(c, t)' <=> Creating(c, t)
      /\ \A c \in Commands : Frees(c)' => Frees(c)
      /\ \A c \in Commands : (Asks(c) \/ Frees(c))' =>
              /\ Asks(c) \/ Frees(c)
              /\ body'[c].trip = body[c].trip /\ cmd'[c].user = cmd[c].user
      /\ \A u \in Users : BeingFreed(u)' <=> BeingFreed(u)
  BY CalmTellsNothing
<1>2. TripsOnlyEnd /\ CrossedGrows
  <2>1. CrossedGrows
    BY <1>1 DEF CrossedGrows
  <2>2. RowsStay
    BY <1>1 DEF RowsStay, Unused, Open
  <2> QED
    BY <1>1, <2>1, <2>2 DEF TripsOnlyEnd
<1>3. /\ Current' \subseteq Current /\ \A t \in Trips : Aboard(t)' = Aboard(t)
  BY <1>2, EndingShrinks
<1>4. OneTripEach' /\ OwnersTravel' /\ CrossedTogether' /\ CacheAgrees' /\ CachedOnTeam'
  BY <1>2, ForgettingKeeps
<1>5. TeamsCached' /\ FoundIsCached' /\ CreatedIsOpen'
  BY <1>1 DEF Ties, TeamsCached, FoundIsCached, CreatedIsOpen, Open
<1>6. FreedHasNoTrip' /\ AsksOfHisTrip'
  BY <1>1, <1>3 DEF Ties, FreedHasNoTrip, AsksOfHisTrip, Open, Current
<1>7. EntriesJustified'
  <2> SUFFICES ASSUME NEW u \in Users, ~Free(u)
               PROVE  Justified(u)'
    BY DEF EntriesJustified, Free
  <2>1. Justified(u)
    BY DEF Ties, EntriesJustified
  <2>2. cache[u] \in Trips
    BY DEF TripRest, Free
  <2>3. BeingFreed(row[cache[u]].owner) => BeingFreed(row[cache[u]].owner)'
    <3>1. CASE row[cache[u]].owner \in Users
      BY <1>1, <3>1
    <3>2. CASE row[cache[u]].owner \notin Users
      BY <2>2, <3>2 DEF TripRest, Ties, CachedOnTeam, Free
    <3> QED
      BY <3>1, <3>2
  <2> QED
    BY <2>1, <2>2, <2>3 DEF Justified, Open
<1> QED
  BY <1>4, <1>5, <1>6, <1>7 DEF Ties

(* An entry that stays is as justified as it was, when its row and the     *)
(* ticker's hold on it are as they were.                                   *)
LEMMA StaysJustified ==
  ASSUME TripRest, Ties, crossed \subseteq crossed', NEW u \in Users, ~Free(u), cache'[u] = cache[u],
         LET t == cache[u] IN
           /\ row'[t] = row[t]
           /\ t \in found => t \in found'
           /\ BeingFreed(row[t].owner) => BeingFreed(row[t].owner)' \/ u # row[t].owner
  PROVE  Justified(u)'
BY DEF Ties, EntriesJustified, Justified, Open

-----------------------------------------------------------------------------
(* What every step of a body may assume.                                   *)
TieCase(c) == TypeOK /\ TripRest /\ ShapeInv /\ Ties /\ c \in Commands

LEMMA AskingKeepsTies ==
  ASSUME NEW c, TieCase(c), AskToCancel(c)
  PROVE  Ties'
<1> USE DEF TieCase
<1>1. /\ UNCHANGED <<cmd, row, cache, found, crossed>>
      /\ body[c].at = "begin" /\ body[c].op = "cancel" /\ cmd[c].phase = "run"
      /\ cache[cmd[c].user] # NoTrip
      /\ Advance(c, "asked", cache[cmd[c].user], {})
  BY DEF AskToCancel, At, gateVars
<1>2. PICK u \in Users : u = cmd[c].user
  BY <1>1, RunningHasUser
<1>3. /\ \A d \in Commands \ {c} : body'[d] = body[d]
      /\ body'[c].at = "asked" /\ body'[c].op = "cancel" /\ body'[c].trip = cache[u]
  BY <1>1, <1>2 DEF TripRest, Advance
<1>4. /\ \A d \in Commands, t \in Trips : Creating(d, t)' <=> Creating(d, t)
      /\ \A d \in Commands : Frees(d)' <=> Frees(d)
      /\ \A v \in Users \cup {NoUser} : BeingFreed(v) => BeingFreed(v)'
  BY <1>1, <1>3 DEF Creating, Frees, At, BeingFreed
<1>5. TripsOnlyEnd /\ CrossedGrows
  <2>1. CrossedGrows
    BY <1>1, <1>4 DEF CrossedGrows
  <2>2. RowsStay
    BY <1>1, <1>4 DEF RowsStay, Unused, Open
  <2> QED
    BY <1>1, <1>4, <2>1, <2>2 DEF TripsOnlyEnd
<1>6. /\ Current' \subseteq Current /\ \A t \in Trips : Aboard(t)' = Aboard(t)
  BY <1>5, EndingShrinks
<1>7. OneTripEach' /\ OwnersTravel' /\ CrossedTogether' /\ CacheAgrees' /\ CachedOnTeam'
  BY <1>1, <1>5, ForgettingKeeps
<1>8. TeamsCached' /\ FoundIsCached' /\ CreatedIsOpen' /\ FreedHasNoTrip'
  BY <1>1, <1>4, <1>6 DEF Ties, TeamsCached, FoundIsCached, CreatedIsOpen, FreedHasNoTrip, Open
<1>9. AsksOfHisTrip'
  <2> SUFFICES ASSUME NEW d \in Commands, NEW t \in Current',
                      (Asks(d) \/ Frees(d))', cmd[d].user \in Aboard(t)
               PROVE  t = body'[d].trip \/ cmd[d].user \in crossed
    BY <1>1, <1>6 DEF AsksOfHisTrip, Current
  <2>1. t \in Current
    BY <1>6
  <2>2. CASE d = c
    BY <1>1, <1>2, <1>3, <2>1, <2>2 DEF Ties, CacheAgrees
  <2>3. CASE d # c
    BY <1>1, <1>3, <2>1, <2>3 DEF Ties, AsksOfHisTrip, Asks, Frees, At
  <2> QED
    BY <2>2, <2>3
<1>10. EntriesJustified'
  <2> SUFFICES ASSUME NEW u2 \in Users, ~Free(u2)
               PROVE  Justified(u2)'
    BY <1>1 DEF EntriesJustified, Free
  <2>1. cache[u2] \in Trips
    BY DEF TripRest, Free
  <2>2. row[cache[u2]].owner \in Users \cup {NoUser}
    BY <2>1 DEF TripRest, Rows
  <2> QED
    BY <1>1, <1>4, <2>2, StaysJustified
<1> QED
  BY <1>7, <1>8, <1>9, <1>10 DEF Ties

-----------------------------------------------------------------------------
(* activitySync puts everyone on the created trip in the cache.            *)
LEMMA SyncKeepsTies ==
  ASSUME NEW c, TieCase(c), SyncActivity(c)
  PROVE  Ties'
<1> USE DEF TieCase
<1>1. /\ UNCHANGED <<cmd, row, found, crossed>>
      /\ body[c].at = "created" /\ MoveTo(c, "done")
      /\ cache' = [v \in Users |-> IF v \in row[body[c].trip].team THEN body[c].trip ELSE cache[v]]
  BY DEF SyncActivity, gateVars
<1>2. PICK t \in Trips : /\ t = body[c].trip /\ ~Unused(t) /\ row[t].owner = cmd[c].user /\ t \notin due
  BY <1>1 DEF ShapeInv, BodiesShaped, BodyShape
<1>3. /\ Creating(c, t) /\ t \in Current /\ t \in Known
  BY <1>1, <1>2 DEF Creating, Current, Known
<1>4. \A v \in Users : cache'[v] = IF v \in row[t].team THEN t ELSE cache[v]
  BY <1>1, <1>2
<1>5. /\ \A d \in Commands \ {c} : body'[d] = body[d]
      /\ body'[c].at = "done"
  BY <1>1 DEF TripRest, MoveTo, Advance
<1>6. /\ \A d \in Commands, s \in Trips : Creating(d, s)' => Creating(d, s)
      /\ \A d \in Commands, s \in Trips : Creating(d, s) /\ s # t => Creating(d, s)'
      /\ \A d \in Commands : Frees(d)' => Frees(d)
      /\ \A d \in Commands : Asks(d)' => Asks(d)
      /\ \A d \in Commands : Asks(d)' \/ Frees(d)' => body'[d] = body[d]
      /\ \A v \in Users \cup {NoUser} : BeingFreed(v) => BeingFreed(v)'
  BY <1>1, <1>2, <1>5 DEF Creating, Asks, Frees, At, BeingFreed
<1>7. TripsOnlyEnd /\ CrossedGrows
  <2>1. CrossedGrows
    BY <1>1, <1>6 DEF CrossedGrows
  <2>2. RowsStay
    BY <1>1, <1>6 DEF RowsStay, Unused, Open
  <2> QED
    BY <1>1, <1>6, <2>1, <2>2 DEF TripsOnlyEnd
<1>8. /\ Current' \subseteq Current /\ \A s \in Trips : Aboard(s)' = Aboard(s)
  BY <1>7, EndingShrinks
<1>9. Known' \subseteq Known
  BY <1>3, <1>4, <1>8 DEF Known
<1>10. OneTripEach' /\ OwnersTravel' /\ CrossedTogether'
  BY <1>7, <1>9, EndingKeeps
<1>11. \A s \in Current, v \in Users : s # t /\ v \in row[t].team /\ v \in Aboard(s) => v \in crossed
  BY <1>3 DEF Ties, OneTripEach, Aboard
<1>12. TeamsCached'
  <2> SUFFICES ASSUME NEW s \in Trips, Open(s), NEW v \in row[s].team
               PROVE  cache'[v] = s \/ v \in crossed \/ \E d \in Commands : Creating(d, s)'
    BY <1>1 DEF TeamsCached, Open
  <2>1. v \in Users /\ v \in Aboard(s) /\ s \in Current
    BY DEF TripRest, Rows, Aboard, Current
  <2> QED
    BY <1>4, <1>6, <1>11, <2>1 DEF Ties, TeamsCached
<1>13. CacheAgrees'
  <2> SUFFICES ASSUME NEW s \in Current', NEW v \in Aboard(s)
               PROVE  cache'[v] \in {s, NoTrip} \/ v \in crossed
    BY <1>1, <1>8 DEF CacheAgrees, Current
  <2>1. v \in Users /\ s \in Current
    BY <1>8 DEF Aboard
  <2> QED
    BY <1>4, <1>11, <2>1 DEF Ties, CacheAgrees
<1>14. FreedHasNoTrip' /\ AsksOfHisTrip'
  BY <1>1, <1>6, <1>8 DEF Ties, FreedHasNoTrip, AsksOfHisTrip, Open, Current
<1>15. CachedOnTeam'
  BY <1>1, <1>2, <1>4 DEF Ties, CachedOnTeam, Unused
<1>16. FoundIsCached'
  <2> SUFFICES ASSUME NEW s \in found, NEW v \in Users, cache'[v] = s
               PROVE  cache'[row[s].owner] = s \/ v \in crossed
    BY <1>1 DEF FoundIsCached
  <2>1. s # t /\ s \in Trips /\ s \in Current /\ s \in Known /\ row[s].owner \in Users
    BY <1>2 DEF ShapeInv, TickShaped, TripRest, Current, Known
  <2>2. cache[v] = s /\ v \in Aboard(s)
    BY <1>4, <2>1, TripAssumption DEF Ties, CachedOnTeam, Aboard
  <2>3. cache[row[s].owner] = s \/ v \in crossed
    BY <2>2 DEF Ties, FoundIsCached
  <2>4. CASE row[s].owner \in row[t].team
    <3>1. row[s].owner \in Aboard(s) \cap crossed
      BY <1>11, <2>1, <2>4 DEF Aboard
    <3> QED
      BY <2>1, <2>2, <3>1 DEF Ties, CrossedTogether
  <2>5. CASE row[s].owner \notin row[t].team
    BY <1>4, <2>1, <2>3, <2>5
  <2> QED
    BY <2>4, <2>5
<1>17. CreatedIsOpen'
  BY <1>1, <1>6 DEF Ties, CreatedIsOpen, Open
<1>18. EntriesJustified'
  <2> SUFFICES ASSUME NEW v \in Users, cache'[v] # NoTrip
               PROVE  Justified(v)'
    BY DEF EntriesJustified, Free
  <2>1. CASE v \in row[t].team
    <3>1. cache'[v] = t
      BY <1>4, <2>1
    <3>2. Open(t) \/ row[t].owner \in crossed
      BY <1>3 DEF Ties, CreatedIsOpen
    <3>3. row[t].owner \in crossed => v \in crossed
      <4>1. row[t].owner \in Aboard(t) /\ v \in Aboard(t)
        BY <1>2, <2>1 DEF Aboard, TripRest
      <4> QED
        BY <1>3, <4>1 DEF Ties, CrossedTogether
    <3> QED
      BY <1>1, <3>1, <3>2, <3>3 DEF Justified, Open
  <2>2. CASE v \notin row[t].team
    <3>1. cache'[v] = cache[v] /\ ~Free(v)
      BY <1>4, <2>2 DEF Free
    <3>2. cache[v] \in Trips /\ row[cache[v]].owner \in Users \cup {NoUser}
      BY <3>1 DEF TripRest, Free, Rows
    <3> QED
      BY <1>1, <1>6, <3>1, <3>2, StaysJustified
  <2> QED
    BY <2>1, <2>2
<1> QED
  BY <1>10, <1>12, <1>13, <1>14, <1>15, <1>16, <1>17, <1>18 DEF Ties

-----------------------------------------------------------------------------
(* The rows of u are deleted, for a command that is about to free him.     *)
LEMMA DeletingKeepsTies ==
  ASSUME NEW c, TieCase(c), NEW u \in Users, DeleteOpenRows(u), CrossedGrows,
         UNCHANGED <<cmd, cache, found>>,
         \A d \in Commands \ {c} : body'[d] = body[d],
         body[c].at \notin {"created", "deleted"}, body'[c].at = "deleted",
         body'[c].op = "cancel" => Asks(c) /\ body'[c].trip = body[c].trip /\ cmd[c].user = u,
         BeingFreed(u)',
         (\E d \in Commands : body[d].at = "created" /\ cmd[d].user = u) => u \in crossed'
  PROVE  Ties'
<1> USE DEF TieCase
<1>1. \A t \in Trips :
        /\ row'[t].owner = row[t].owner /\ row'[t].team = row[t].team
        /\ row'[t].state = IF Open(t) /\ row[t].owner = u THEN "deleted" ELSE row[t].state
  BY DeletingKeepsTeams
<1>2. RowsStay
  BY <1>1 DEF RowsStay, Unused, Open
<1>3. /\ \A d \in Commands, t \in Trips : Creating(d, t)' <=> Creating(d, t)
      /\ \A d \in Commands : Asks(d)' => Asks(d) /\ d # c
      /\ \A d \in Commands : Frees(d)' => Frees(d) \/ (d = c /\ Asks(c) /\ cmd[c].user = u)
      /\ \A d \in Commands : Asks(d)' \/ Frees(d)' => body'[d].trip = body[d].trip
      /\ \A v \in Users \cup {NoUser} : BeingFreed(v) => BeingFreed(v)'
  BY DEF Creating, Asks, Frees, At, BeingFreed
<1>4. TripsOnlyEnd
  BY <1>2, <1>3 DEF TripsOnlyEnd
<1>5. /\ Current' \subseteq Current /\ \A t \in Trips : Aboard(t)' = Aboard(t)
  BY <1>4, EndingShrinks
<1>6. crossed \subseteq crossed' /\ OneTripEach' /\ OwnersTravel' /\ CrossedTogether' /\ CacheAgrees' /\ CachedOnTeam'
  BY <1>4, ForgettingKeeps
<1>7. TeamsCached'
  BY <1>1, <1>2, <1>3, <1>6 DEF Ties, TeamsCached, RowsStay
<1>8. FoundIsCached'
  BY <1>1, <1>6 DEF Ties, FoundIsCached, TripRest
<1>9. AsksOfHisTrip'
  <2> SUFFICES ASSUME NEW d \in Commands, NEW t \in Current',
                      (Asks(d) \/ Frees(d))', cmd[d].user \in Aboard(t)
               PROVE  t = body'[d].trip \/ cmd[d].user \in crossed'
    BY <1>5 DEF AsksOfHisTrip, Current
  <2>1. t \in Current /\ (Asks(d) \/ Frees(d)) /\ body'[d].trip = body[d].trip
    BY <1>3, <1>5
  <2> QED
    BY <1>6, <2>1 DEF Ties, AsksOfHisTrip
<1>10. FreedHasNoTrip'
  <2> SUFFICES ASSUME NEW d \in Commands, NEW t \in Trips, Frees(d)', Open(t)', cmd[d].user \in Aboard(t)
               PROVE  cmd[d].user \in crossed'
    BY <1>5 DEF FreedHasNoTrip
  <2>1. Open(t) /\ t \in Current /\ t \in Known /\ row[t].owner # u
    BY <1>1, <1>2 DEF RowsStay, Current, Known, Open
  <2>2. CASE Frees(d)
    BY <1>6, <2>1, <2>2 DEF Ties, FreedHasNoTrip
  <2>3. CASE d = c /\ Asks(c) /\ cmd[c].user = u
    <3>1. t = body[c].trip \/ u \in crossed
      BY <2>1, <2>3 DEF Ties, AsksOfHisTrip
    <3>2. ASSUME t = body[c].trip
          PROVE  u \in crossed
      <4>1. row[t].team \subseteq {u}
        BY <2>3, <3>2 DEF ShapeInv, BodiesShaped, BodyShape, Asks, At
      <4>2. row[t].owner \in crossed /\ row[t].owner \in Aboard(t) /\ u \in Aboard(t)
        BY <2>1, <2>3, <4>1 DEF Ties, OwnersTravel, Aboard, TripRest, Unused, Open
      <4> QED
        BY <2>1, <4>2 DEF Ties, CrossedTogether
    <3> QED
      BY <1>6, <2>3, <3>1, <3>2
  <2> QED
    BY <1>3, <2>2, <2>3
<1>11. CreatedIsOpen'
  <2> SUFFICES ASSUME NEW d \in Commands, NEW t \in Trips, Creating(d, t), ~Open(t)'
               PROVE  row[t].owner \in crossed'
    BY <1>1, <1>3 DEF CreatedIsOpen
  <2>1. Open(t) \/ row[t].owner \in crossed
    BY DEF Ties, CreatedIsOpen
  <2>2. ASSUME Open(t)
        PROVE  row[t].owner = u /\ cmd[d].user = u /\ body[d].at = "created"
    BY <1>1, <2>2 DEF ShapeInv, BodiesShaped, BodyShape, Creating, Open
  <2> QED
    BY <1>6, <2>1, <2>2
<1>12. EntriesJustified'
  <2> SUFFICES ASSUME NEW v \in Users, ~Free(v)
               PROVE  Justified(v)'
    BY DEF EntriesJustified, Free
  <2>1. PICK t \in Trips : t = cache[v]
    BY DEF TripRest, Free
  <2>2. row[t].owner \in Users \cup {NoUser}
    BY DEF TripRest, Rows
  <2>3. CASE Open(t) /\ row[t].owner = u
    <3>1. row'[t].state = "deleted" /\ row'[t].owner = u /\ cache'[v] = t
      BY <1>1, <2>1, <2>3
    <3> QED
      BY <3>1 DEF Justified
  <2>4. CASE ~(Open(t) /\ row[t].owner = u)
    <3>1. row'[t].owner = row[t].owner /\ row'[t].state = row[t].state
      BY <1>1, <2>4
    <3>2. cache'[v] = t
      BY <2>1
    <3>3. Justified(v)
      BY DEF Ties, EntriesJustified
    <3> QED
      BY <1>3, <1>6, <2>1, <2>2, <3>1, <3>2, <3>3 DEF Justified, Open
  <2> QED
    BY <2>3, <2>4
<1> QED
  BY <1>6, <1>7, <1>8, <1>9, <1>10, <1>11, <1>12 DEF Ties

LEMMA CancelRowsKeepsTies ==
  ASSUME NEW c, TieCase(c), CancelRows(c)
  PROVE  Ties'
<1> USE DEF TieCase
<1>1. /\ UNCHANGED <<cmd, cache, found>> /\ cmd[c].phase = "run"
      /\ body[c].at = "asked" /\ body[c].op = "cancel" /\ MoveTo(c, "deleted")
      /\ DeleteOpenRows(cmd[c].user)
      /\ crossed' = IF \E d \in Commands : body[d].at = "created" /\ cmd[d].user = cmd[c].user
                      THEN crossed \cup TripMates({cmd[c].user}) ELSE crossed
  BY DEF CancelRows, At, gateVars
<1>2. PICK u \in Users : u = cmd[c].user
  BY <1>1, RunningHasUser
<1>3. /\ \A d \in Commands \ {c} : body'[d] = body[d]
      /\ body'[c].at = "deleted" /\ body'[c].op = "cancel" /\ body'[c].trip = body[c].trip
  BY <1>1 DEF TripRest, MoveTo, Advance
<1>4. Asks(c) /\ BeingFreed(u)'
  BY <1>1, <1>2, <1>3 DEF Asks, At, BeingFreed
<1>5. CrossedGrows
  BY <1>1, <1>2 DEF CrossedGrows
<1>6. (\E d \in Commands : body[d].at = "created" /\ cmd[d].user = u) => u \in crossed'
  <2>1. {u} \subseteq TripMates({u})
    BY MatesTravel
  <2> QED
    BY <1>1, <1>2, <2>1
<1>7. DeleteOpenRows(u)
  BY <1>1, <1>2
<1> QED
  BY <1>1, <1>2, <1>3, <1>4, <1>5, <1>6, <1>7, DeletingKeepsTies

(* A user with a running command is midway.                                *)
LEMMA RunningIsMidway ==
  ASSUME TypeOK, NEW d \in Commands, cmd[d].phase = "run", NEW u \in Users, cmd[d].user = u
  PROVE  Midway(u)
<1>1. d \in Holding(u)
  BY DEF Holding
<1>2. IsFiniteSet(Holding(u)) /\ Cardinality(Holding(u)) \in Nat
  BY HoldingFinite
<1>3. Cardinality(Holding(u)) # 0
  BY <1>1, <1>2, FS_EmptySet
<1>4. timers[u] \in Nat /\ Completions(u) \in Nat
  BY DEF TypeOK, Completions
<1>5. Credit(u) # 0
  BY <1>2, <1>3, <1>4 DEF Credit
<1> QED
  BY <1>5 DEF Midway

LEMMA AdminDeletesKeepsTies ==
  ASSUME NEW c, TieCase(c), NEW u \in Users, AdminDeletesRows(c, u)
  PROVE  Ties'
<1> USE DEF TieCase
<1>1. /\ UNCHANGED <<cmd, cache, found>> /\ cmd[c].phase = "run"
      /\ body[c].at = "begin" /\ body[c].op = "unlock" /\ Advance(c, "deleted", NoTrip, {u})
      /\ DeleteOpenRows(u)
      /\ crossed' = IF Midway(u) THEN crossed \cup TripMates({u}) ELSE crossed
  BY DEF AdminDeletesRows, At, gateVars
<1>2. /\ \A d \in Commands \ {c} : body'[d] = body[d]
      /\ body'[c].at = "deleted" /\ body'[c].op = "unlock" /\ body'[c].with = {u}
  BY <1>1 DEF TripRest, Advance
<1>3. BeingFreed(u)'
  BY <1>1, <1>2 DEF At, BeingFreed
<1>4. CrossedGrows
  BY <1>1 DEF CrossedGrows
<1>5. (\E d \in Commands : body[d].at = "created" /\ cmd[d].user = u) => u \in crossed'
  <2>1. {u} \subseteq TripMates({u})
    BY MatesTravel
  <2>2. \A d \in Commands : body[d].at = "created" => cmd[d].phase = "run"
    BY DEF ShapeInv, BodiesShaped, BodyShape
  <2> QED
    BY <1>1, <2>1, <2>2, RunningIsMidway
<1> QED
  BY <1>1, <1>2, <1>3, <1>4, <1>5, DeletingKeepsTies

-----------------------------------------------------------------------------
(* The entry of u is dropped by the command that deleted his rows.         *)
LEMMA DroppingKeepsTies ==
  ASSUME NEW c, TieCase(c), NEW u \in Users, cache' = [cache EXCEPT ![u] = NoTrip], CrossedGrows,
         UNCHANGED <<cmd, row, found>>,
         \A d \in Commands \ {c} : body'[d] = body[d],
         body[c].at = "deleted", body'[c].at = "done",
         (body[c].op = "cancel" /\ cmd[c].user = u) \/ (body[c].op = "unlock" /\ body[c].with = {u}),
         \A t \in Trips : Open(t) /\ u \in row[t].team => u \in crossed',
         \A t \in found : cache[u] = t /\ row[t].owner = u => u \in crossed' \/ row[t].team \subseteq {u}
  PROVE  Ties'
<1> USE DEF TieCase
<1>1. /\ \A v \in Users \ {u} : cache'[v] = cache[v]
      /\ cache'[u] = NoTrip
  BY DEF TripRest
<1>2. /\ \A d \in Commands, t \in Trips : Creating(d, t)' <=> Creating(d, t)
      /\ \A d \in Commands : Asks(d)' => Asks(d)
      /\ \A d \in Commands : Frees(d)' => Frees(d)
      /\ \A d \in Commands : Asks(d)' \/ Frees(d)' => body'[d].trip = body[d].trip
      /\ \A v \in Users \cup {NoUser} : BeingFreed(v) => BeingFreed(v)' \/ v = u
  BY GateAssumption DEF Creating, Asks, Frees, At, BeingFreed
<1>3. RowsStay
  BY DEF RowsStay, Unused, Open
<1>4. TripsOnlyEnd
  BY <1>2, <1>3 DEF TripsOnlyEnd
<1>5. /\ Current' \subseteq Current /\ \A t \in Trips : Aboard(t)' = Aboard(t)
  BY <1>4, EndingShrinks
<1>6. crossed \subseteq crossed' /\ OneTripEach' /\ OwnersTravel' /\ CrossedTogether' /\ CacheAgrees' /\ CachedOnTeam'
      /\ Known' \subseteq Known
  BY <1>1, <1>4, ForgettingKeeps
<1>7. TeamsCached'
  BY <1>1, <1>2, <1>6 DEF Ties, TeamsCached, Open, TripRest, Rows
<1>8. FreedHasNoTrip' /\ AsksOfHisTrip'
  BY <1>2, <1>5, <1>6 DEF Ties, FreedHasNoTrip, AsksOfHisTrip, Open, Current
<1>9. CreatedIsOpen'
  BY <1>2, <1>6 DEF Ties, CreatedIsOpen, Open
<1>10. FoundIsCached'
  <2> SUFFICES ASSUME NEW t \in found, NEW v \in Users, cache'[v] = t, cache'[row[t].owner] # t
               PROVE  v \in crossed'
    BY DEF FoundIsCached
  <2>1. /\ t \in Trips /\ t # NoTrip /\ row[t].owner \in Users
        /\ v # u /\ cache[v] = t /\ v \in row[t].team
    BY <1>1, TripAssumption DEF TripRest, Ties, CachedOnTeam
  <2>2. cache[row[t].owner] = t \/ v \in crossed
    BY <2>1 DEF Ties, FoundIsCached
  <2>3. CASE cache[row[t].owner] = t
    <3>1. row[t].owner = u /\ cache[u] = t
      BY <1>1, <2>1, <2>3
    <3>2. u \in crossed'
      BY <2>1, <3>1
    <3>3. t \in Known' /\ u \in Aboard(t)' /\ v \in Aboard(t)'
      BY <1>1, <1>5, <2>1, <3>1 DEF Known, Current, Aboard
    <3> QED
      BY <1>6, <3>2, <3>3 DEF CrossedTogether
  <2> QED
    BY <1>6, <2>2, <2>3
<1>11. EntriesJustified'
  <2> SUFFICES ASSUME NEW v \in Users, v # u, ~Free(v)
               PROVE  Justified(v)'
    BY <1>1 DEF EntriesJustified, Free
  <2>1. cache'[v] = cache[v]
    BY <1>1
  <2>2. cache[v] \in Trips /\ row[cache[v]].owner \in Users \cup {NoUser}
    BY DEF TripRest, Free, Rows
  <2> QED
    BY <1>2, <1>6, <2>1, <2>2, StaysJustified
<1> QED
  BY <1>6, <1>7, <1>8, <1>9, <1>10, <1>11 DEF Ties

LEMMA CancelCacheKeepsTies ==
  ASSUME NEW c, TieCase(c), CancelCache(c)
  PROVE  Ties'
<1> USE DEF TieCase
<1>1. /\ UNCHANGED <<cmd, row, found, crossed>> /\ cmd[c].phase = "run"
      /\ body[c].at = "deleted" /\ body[c].op = "cancel" /\ MoveTo(c, "done")
      /\ cache' = [cache EXCEPT ![cmd[c].user] = NoTrip]
  BY DEF CancelCache, At, gateVars
<1>2. PICK u \in Users : u = cmd[c].user
  BY <1>1, RunningHasUser
<1>3. /\ \A d \in Commands \ {c} : body'[d] = body[d]
      /\ body'[c].at = "done"
  BY <1>1 DEF TripRest, MoveTo, Advance
<1>4. Frees(c)
  BY <1>1 DEF Frees, At
<1>5. \A t \in Trips : Open(t) /\ u \in row[t].team => u \in crossed'
  BY <1>1, <1>2, <1>4 DEF Ties, FreedHasNoTrip, Aboard
<1>6. ASSUME NEW t \in found, cache[u] = t, row[t].owner = u
      PROVE  u \in crossed' \/ row[t].team \subseteq {u}
  <2>1. t \in Current /\ u \in Aboard(t)
    BY <1>6 DEF TripRest, Current, Aboard
  <2>2. t = body[c].trip \/ u \in crossed
    BY <1>2, <1>4, <2>1 DEF Ties, AsksOfHisTrip
  <2>3. row[body[c].trip].team \subseteq {u}
    BY <1>1, <1>2 DEF ShapeInv, BodiesShaped, BodyShape
  <2> QED
    BY <1>1, <2>2, <2>3
<1>7. CrossedGrows
  BY <1>1 DEF CrossedGrows
<1>8. cache' = [cache EXCEPT ![u] = NoTrip]
  BY <1>1, <1>2
<1> QED
  BY <1>1, <1>2, <1>3, <1>5, <1>6, <1>7, <1>8, DroppingKeepsTies

LEMMA AdminFreesKeepsTies ==
  ASSUME NEW c, TieCase(c), NEW u \in Users, AdminFrees(c, u)
  PROVE  Ties'
<1> USE DEF TieCase
<1>1. /\ UNCHANGED <<cmd, row, found>>
      /\ body[c].at = "deleted" /\ body[c].op = "unlock" /\ body[c].with = {u} /\ MoveTo(c, "done")
      /\ cache' = Forget([cache EXCEPT ![u] = NoTrip], u)
      /\ crossed' = IF Midway(u) \/ \E t \in Current : u \in row[t].team
                      THEN crossed \cup TripMates({u}) ELSE crossed
  BY DEF AdminFrees, AdminUnlocks, At
<1>2. cache' = [cache EXCEPT ![u] = NoTrip]
  BY <1>1 DEF Forget, TripRest
<1>3. /\ \A d \in Commands \ {c} : body'[d] = body[d]
      /\ body'[c].at = "done"
  BY <1>1 DEF TripRest, MoveTo, Advance
<1>4. \A t \in Current : u \in row[t].team => u \in crossed'
  <2>1. {u} \subseteq TripMates({u})
    BY MatesTravel
  <2> QED
    BY <1>1, <2>1
<1>5. \A t \in Trips : Open(t) /\ u \in row[t].team => u \in crossed'
  BY <1>4 DEF Current
<1>6. \A t \in found : cache[u] = t /\ row[t].owner = u => u \in crossed' \/ row[t].team \subseteq {u}
  <2> SUFFICES ASSUME NEW t \in found, cache[u] = t
               PROVE  u \in crossed'
    OBVIOUS
  <2>1. t \in Trips /\ t # NoTrip /\ u \in row[t].team
    BY TripAssumption DEF TripRest, Ties, CachedOnTeam
  <2> QED
    BY <1>4, <2>1 DEF Current
<1>7. CrossedGrows
  BY <1>1 DEF CrossedGrows
<1> QED
  BY <1>1, <1>2, <1>3, <1>5, <1>6, <1>7, DroppingKeepsTies

-----------------------------------------------------------------------------
(* A gated command that starts a trip does so with no gated cancellation   *)
(* of its user about, and is mixed with the others.                        *)
LEMMA CancelsAreSeen ==
  ASSUME TypeOK, OneGatedCommand, NEW c \in Commands, Charged(c), ~Mixed(c),
         NEW d \in Commands, Asks(d) \/ Frees(d)
  PROVE  cmd[d].user \notin body[c].with \cup {cmd[c].user}
<1> SUFFICES ASSUME cmd[d].user \in body[c].with \cup {cmd[c].user}
             PROVE  FALSE
  OBVIOUS
<1>1. ~CancelsDuring(c, cmd[d].user)
  BY DEF Mixed
<1>2. cmd[d].user = cmd[c].user /\ ~PastTheGate(c, d)
  BY <1>1 DEF CancelsDuring, Asks, Frees
<1>3. PICK u \in Users : u = cmd[c].user
  BY RunningHasUser DEF Charged, At
<1>4. c \in Holding(u) /\ d \in Holding(u)
  BY <1>2, <1>3 DEF Holding, Charged, At, Asks, Frees
<1>5. c = d
  BY <1>2, <1>3, <1>4 DEF OneGatedCommand, PastTheGate
<1> QED
  BY <1>5 DEF Charged, Asks, Frees, At

LEMMA CreateRowKeepsTies ==
  ASSUME NEW c, TieCase(c), OneGatedCommand, NEW t \in Trips, CreateRow(c, t)
  PROVE  Ties'
<1> USE DEF TieCase
<1>1. /\ UNCHANGED <<cmd, cache, found>> /\ cmd[c].phase = "run" /\ Charged(c)
      /\ body[c].at = "charged" /\ Unused(t)
      /\ row' = [row EXCEPT ![t] = [state |-> "open", owner |-> cmd[c].user, team |-> body[c].with]]
      /\ Advance(c, "created", t, body[c].with)
      /\ crossed' = IF Mixed(c) THEN crossed \cup TripMates(body[c].with \cup {cmd[c].user}) ELSE crossed
  BY DEF CreateRow, Charged, At, gateVars
<1>2. PICK u \in Users : u = cmd[c].user
  BY <1>1, RunningHasUser
<1>3. PICK S \in SUBSET Users : S = body[c].with \cup {u}
  BY <1>2 DEF TripRest, Bodies
<1>4. /\ \A s \in Trips \ {t} : row'[s] = row[s]
      /\ row'[t].state = "open" /\ row'[t].owner = u /\ row'[t].team = body[c].with
      /\ \A s \in Trips \ {t} : Aboard(s)' = Aboard(s)
      /\ Aboard(t)' = S
  <2>1. /\ \A s \in Trips \ {t} : row'[s] = row[s]
        /\ row'[t].state = "open" /\ row'[t].owner = u /\ row'[t].team = body[c].with
    BY <1>1, <1>2 DEF TripRest
  <2> QED
    BY <1>2, <1>3, <2>1 DEF Aboard
<1>5. /\ \A d \in Commands \ {c} : body'[d] = body[d]
      /\ body'[c].at = "created" /\ body'[c].trip = t
  BY <1>1 DEF TripRest, Advance
<1>6. /\ \A d \in Commands, s \in Trips \ {t} : Creating(d, s)' <=> Creating(d, s)
      /\ Creating(c, t)'
      /\ \A d \in Commands : ~Creating(d, t)
      /\ \A d \in Commands : Creating(d, t)' => d = c
      /\ \A d \in Commands : Asks(d)' => Asks(d)
      /\ \A d \in Commands : Frees(d)' => Frees(d)
      /\ \A d \in Commands : Asks(d)' \/ Frees(d)' => body'[d] = body[d] /\ cmd'[d] = cmd[d]
      /\ \A v \in Users \cup {NoUser} : BeingFreed(v) => BeingFreed(v)'
  <2>1. \A d \in Commands : ~Creating(d, t)
    BY <1>1 DEF ShapeInv, BodiesShaped, BodyShape, Creating
  <2> QED
    BY <1>1, <1>5, <2>1 DEF Creating, Asks, Frees, At, BeingFreed
<1>7. /\ t \notin found /\ t \notin due /\ \A v \in Users : cache[v] # t
      /\ t \notin Current /\ t \notin Known
  <2>1. t \notin found /\ t \notin due
    BY <1>1 DEF TripRest, ShapeInv, TickShaped
  <2>2. \A v \in Users : cache[v] # t
    BY <1>1, TripAssumption DEF Ties, CachedOnTeam
  <2>3. t \notin Current
    BY <1>1, <1>6, <2>1 DEF Current, Open, Unused
  <2> QED
    BY <2>1, <2>2, <2>3 DEF Known
<1>8. Current' = Current \cup {t} /\ Known' = Known \cup {t}
  <2>1. Current' = Current \cup {t}
    BY <1>1, <1>4, <1>6 DEF Current, Open
  <2> QED
    BY <1>1, <2>1 DEF Known
<1>9. /\ crossed \subseteq crossed'
      /\ Mixed(c) => S \subseteq crossed'
      /\ ~Mixed(c) => crossed' = crossed /\ S \cap crossed = {}
      /\ \A s \in Known : Aboard(s) \cap crossed' # {} => Aboard(s) \subseteq crossed'
  <2>1. /\ S \subseteq TripMates(S)
        /\ \A s \in Known : Aboard(s) \cap TripMates(S) # {} => Aboard(s) \subseteq TripMates(S)
    BY MatesTravel
  <2>2. crossed' = IF Mixed(c) THEN crossed \cup TripMates(S) ELSE crossed
    BY <1>1, <1>2, <1>3
  <2>3. ~Mixed(c) => S \cap crossed = {}
    BY <1>2, <1>3 DEF Mixed
  <2>4. \A s \in Known : Aboard(s) \cap crossed # {} => Aboard(s) \subseteq crossed
    BY DEF Ties, CrossedTogether
  <2> QED
    BY <2>1, <2>2, <2>3, <2>4
<1>10. \A v \in S : v \in crossed' \/ (/\ cache[v] = NoTrip
                                       /\ \A s \in Current : v \notin Aboard(s)
                                       /\ \A d \in Commands : Asks(d) \/ Frees(d) => cmd[d].user # v)
  <2> SUFFICES ASSUME NEW v \in S, v \notin crossed'
               PROVE  /\ cache[v] = NoTrip
                      /\ \A s \in Current : v \notin Aboard(s)
                      /\ \A d \in Commands : Asks(d) \/ Frees(d) => cmd[d].user # v
    OBVIOUS
  <2>1. ~Mixed(c)
    BY <1>9
  <2>2. cache[v] = NoTrip /\ \A s \in Current : v \notin Aboard(s)
    BY <1>2, <1>3, <2>1 DEF Mixed, Free
  <2>3. \A d \in Commands : Asks(d) \/ Frees(d) => cmd[d].user # v
    BY <1>1, <1>2, <1>3, <2>1, CancelsAreSeen
  <2> QED
    BY <2>2, <2>3
<1>11. TeamsCached'
  <2> SUFFICES ASSUME NEW s \in Trips, Open(s)', NEW v \in row'[s].team
               PROVE  cache[v] = s \/ v \in crossed' \/ \E d \in Commands : Creating(d, s)'
    BY <1>1 DEF TeamsCached
  <2>1. CASE s = t
    BY <1>6, <2>1
  <2>2. CASE s # t
    BY <1>4, <1>6, <1>9, <2>2 DEF Ties, TeamsCached, Open
  <2> QED
    BY <2>1, <2>2
<1>12. OneTripEach'
  <2> SUFFICES ASSUME NEW r \in Current', NEW s \in Current', NEW v \in Aboard(r)' \cap Aboard(s)', r # s
               PROVE  v \in crossed'
    BY DEF OneTripEach
  <2>0. r \in Trips /\ s \in Trips
    BY <1>8 DEF Current
  <2>1. CASE r = t
    BY <1>4, <1>8, <1>10, <2>0, <2>1
  <2>2. CASE s = t
    BY <1>4, <1>8, <1>10, <2>0, <2>2
  <2>3. CASE r # t /\ s # t
    BY <1>4, <1>8, <1>9, <2>0, <2>3 DEF Ties, OneTripEach
  <2> QED
    BY <2>1, <2>2, <2>3
<1>13. CacheAgrees'
  <2> SUFFICES ASSUME NEW s \in Current', NEW v \in Aboard(s)'
               PROVE  cache[v] \in {s, NoTrip} \/ v \in crossed'
    BY <1>1 DEF CacheAgrees
  <2>0. s \in Trips
    BY <1>8 DEF Current
  <2>1. CASE s = t
    BY <1>4, <1>10, <2>1
  <2>2. CASE s # t
    BY <1>4, <1>8, <1>9, <2>0, <2>2 DEF Ties, CacheAgrees
  <2> QED
    BY <2>1, <2>2
<1>14. FreedHasNoTrip'
  <2> SUFFICES ASSUME NEW d \in Commands, NEW s \in Trips, Frees(d)', Open(s)', cmd[d].user \in Aboard(s)'
               PROVE  cmd[d].user \in crossed'
    BY <1>1 DEF FreedHasNoTrip
  <2>1. CASE s = t
    BY <1>4, <1>6, <1>10, <2>1
  <2>2. CASE s # t
    BY <1>4, <1>6, <1>9, <2>2 DEF Ties, FreedHasNoTrip, Open
  <2> QED
    BY <2>1, <2>2
<1>15. AsksOfHisTrip'
  <2> SUFFICES ASSUME NEW d \in Commands, NEW s \in Current', (Asks(d) \/ Frees(d))', cmd[d].user \in Aboard(s)'
               PROVE  s = body'[d].trip \/ cmd[d].user \in crossed'
    BY <1>1 DEF AsksOfHisTrip
  <2>0. s \in Trips /\ (Asks(d) \/ Frees(d)) /\ body'[d] = body[d]
    BY <1>6, <1>8 DEF Current
  <2>1. CASE s = t
    BY <1>4, <1>10, <2>0, <2>1
  <2>2. CASE s # t
    BY <1>4, <1>8, <1>9, <2>0, <2>2 DEF Ties, AsksOfHisTrip
  <2> QED
    BY <2>1, <2>2
<1>16. CachedOnTeam'
  <2> SUFFICES ASSUME NEW v \in Users, cache[v] # NoTrip
               PROVE  v \in row'[cache[v]].team /\ ~(row'[cache[v]].state = "unused")
    BY <1>1 DEF CachedOnTeam, Unused
  <2>1. cache[v] \in Trips \ {t}
    BY <1>7 DEF TripRest
  <2> QED
    BY <1>4, <2>1 DEF Ties, CachedOnTeam, Unused
<1>17. OwnersTravel'
  <2> SUFFICES ASSUME NEW s \in Trips, ~Unused(s)'
               PROVE  row'[s].team # {} /\ row'[s].owner \in row'[s].team \cup crossed'
    BY DEF OwnersTravel
  <2>1. CASE s = t
    <3>1. body[c].with # {}
      BY <1>1 DEF ShapeInv, BodiesShaped, BodyShape
    <3>2. u \in body[c].with \/ Mixed(c)
      BY <1>2 DEF Mixed
    <3> QED
      BY <1>3, <1>4, <1>9, <2>1, <3>1, <3>2
  <2>2. CASE s # t
    BY <1>4, <1>9, <2>2 DEF Ties, OwnersTravel, Unused
  <2> QED
    BY <2>1, <2>2
<1>18. CrossedTogether'
  <2> SUFFICES ASSUME NEW s \in Known', Aboard(s)' \cap crossed' # {}
               PROVE  Aboard(s)' \subseteq crossed'
    BY DEF CrossedTogether
  <2>0. s \in Trips
    BY DEF Known, Current
  <2>1. CASE s = t
    BY <1>4, <1>9, <2>1
  <2>2. CASE s # t
    BY <1>4, <1>8, <1>9, <2>0, <2>2
  <2> QED
    BY <2>1, <2>2
<1>19. FoundIsCached'
  <2> SUFFICES ASSUME NEW s \in found, NEW v \in Users, cache[v] = s
               PROVE  cache[row'[s].owner] = s \/ v \in crossed'
    BY <1>1 DEF FoundIsCached
  <2>1. s \in Trips \ {t}
    BY <1>7 DEF TripRest
  <2> QED
    BY <1>4, <1>9, <2>1 DEF Ties, FoundIsCached
<1>20. CreatedIsOpen'
  <2> SUFFICES ASSUME NEW d \in Commands, NEW s \in Trips, Creating(d, s)'
               PROVE  Open(s)' \/ row'[s].owner \in crossed'
    BY DEF CreatedIsOpen
  <2>1. CASE s = t
    BY <1>4, <2>1 DEF Open
  <2>2. CASE s # t
    BY <1>4, <1>6, <1>9, <2>2 DEF Ties, CreatedIsOpen, Open
  <2> QED
    BY <2>1, <2>2
<1>21. EntriesJustified'
  <2> SUFFICES ASSUME NEW v \in Users, ~Free(v)
               PROVE  Justified(v)'
    BY <1>1 DEF EntriesJustified, Free
  <2>1. cache[v] \in Trips \ {t} /\ row[cache[v]].owner \in Users \cup {NoUser}
    BY <1>7 DEF TripRest, Free, Rows
  <2> QED
    BY <1>1, <1>4, <1>6, <1>9, <2>1, StaysJustified
<1> QED
  BY <1>11, <1>12, <1>13, <1>14, <1>15, <1>16, <1>17, <1>18, <1>19, <1>20, <1>21 DEF Ties

-----------------------------------------------------------------------------
(* The ticker fetches open trips and marks them.                           *)
LEMMA TickerKeepsTies ==
  ASSUME TypeOK, TripRest, CompletesInTick, ShapeInv, Ties, UNCHANGED <<body, cmd, cache, crossed>>,
         TickFinds \/ TickMarks \/ TickEnds
  PROVE  Ties'
<1>1. /\ \A d \in Commands, t \in Trips : Creating(d, t)' <=> Creating(d, t)
      /\ \A d \in Commands : Asks(d)' <=> Asks(d)
      /\ \A d \in Commands : Frees(d)' <=> Frees(d)
      /\ \A v \in Users \cup {NoUser} : BeingFreed(v)' <=> BeingFreed(v)
  BY DEF Creating, Asks, Frees, At, BeingFreed
<1>2. \A t \in Trips :
        /\ row'[t].owner = row[t].owner /\ row'[t].team = row[t].team
        /\ row'[t].state = row[t].state \/ (t \in found /\ t \in found' /\ Open(t) /\ row'[t].state = "completed")
  <2>1. CASE TickMarks
    BY <2>1 DEF TickMarks, TripRest, Rows
  <2>2. CASE TickFinds \/ TickEnds
    BY <2>2 DEF TickFinds, TickEnds
  <2> QED
    BY <2>1, <2>2
<1>3. \A t \in found' : t \in found \/ (t \in Trips /\ Open(t))
  BY DEF TickFinds, TickMarks, TickEnds, TripRest
<1>4. TripsOnlyEnd
  <2>1. RowsStay
    BY <1>2 DEF RowsStay, Unused, Open
  <2> QED
    BY <1>1, <1>3, <2>1 DEF TripsOnlyEnd
<1>5. /\ Current' \subseteq Current /\ \A t \in Trips : Aboard(t)' = Aboard(t)
  BY <1>4, EndingShrinks
<1>6. OneTripEach' /\ OwnersTravel' /\ CrossedTogether' /\ CacheAgrees' /\ CachedOnTeam'
  <2>1. CrossedGrows
    BY DEF CrossedGrows
  <2> QED
    BY <1>4, <2>1, ForgettingKeeps
<1>7. TeamsCached' /\ FreedHasNoTrip' /\ AsksOfHisTrip'
  BY <1>1, <1>2, <1>5 DEF Ties, TeamsCached, FreedHasNoTrip, AsksOfHisTrip, Open, Current
<1>8. CreatedIsOpen'
  <2> SUFFICES ASSUME NEW d \in Commands, NEW t \in Trips, Creating(d, t)
               PROVE  Open(t)' \/ row'[t].owner \in crossed
    BY <1>1 DEF CreatedIsOpen
  <2>1. t \notin found
    BY DEF ShapeInv, BodiesShaped, BodyShape, TickShaped, Creating
  <2> QED
    BY <1>2, <2>1 DEF Ties, CreatedIsOpen, Open
<1>9. FoundIsCached'
  <2> SUFFICES ASSUME NEW t \in found', NEW v \in Users, cache[v] = t
               PROVE  cache[row[t].owner] = t \/ v \in crossed
    BY <1>2, <1>3 DEF FoundIsCached, TripRest
  <2>1. CASE t \in found
    BY <2>1 DEF Ties, FoundIsCached
  <2>2. CASE t \notin found
    <3>1. /\ t \in Trips /\ Open(t) /\ t \in due /\ ~Unused(t) /\ t \in Known
      BY <1>3, <2>2 DEF TickFinds, TickMarks, TickEnds, Known, Current, Open, Unused
    <3>2. \A d \in Commands : ~Creating(d, t)
      BY <3>1 DEF ShapeInv, BodiesShaped, BodyShape, Creating
    <3>3. cache[row[t].owner] = t \/ row[t].owner \in crossed
      BY <3>1, <3>2 DEF Ties, OwnersTravel, TeamsCached
    <3>4. row[t].owner \in Aboard(t) /\ v \in Aboard(t)
      BY <3>1, TripAssumption DEF TripRest, Ties, CachedOnTeam, Aboard
    <3> QED
      BY <3>1, <3>3, <3>4 DEF Ties, CrossedTogether
  <2> QED
    BY <2>1, <2>2
<1>10. EntriesJustified'
  <2> SUFFICES ASSUME NEW v \in Users, ~Free(v)
               PROVE  Justified(v)'
    BY DEF EntriesJustified, Free
  <2>1. PICK t \in Trips : t = cache[v]
    BY DEF TripRest, Free
  <2>2. row[t].owner \in Users \cup {NoUser}
    BY DEF TripRest, Rows
  <2>3. Justified(v)
    BY DEF Ties, EntriesJustified
  <2>4. t \in found /\ row[t].state = "completed" => t \in found'
    <3>1. CASE TickMarks
      BY <3>1 DEF TickMarks
    <3>2. CASE TickFinds
      BY <3>2 DEF TickFinds, TickerStarts, ShapeInv, TickShaped
    <3>3. CASE TickEnds
      BY <3>3 DEF TickEnds, ShapeInv, TickShaped
    <3> QED
      BY <3>1, <3>2, <3>3
  <2>5. cache'[v] = t /\ crossed' = crossed /\ row'[t].owner = row[t].owner
    BY <1>2, <2>1
  <2>6. \/ row'[t].state = row[t].state
        \/ (t \in found' /\ row'[t].state = "completed")
    BY <1>2
  <2>7. BeingFreed(row[t].owner) => BeingFreed(row[t].owner)'
    BY <1>1, <2>2, <2>5
  <2> QED
    BY <2>1, <2>3, <2>4, <2>5, <2>6, <2>7 DEF Justified, Open
<1> QED
  BY <1>6, <1>7, <1>8, <1>9, <1>10 DEF Ties

-----------------------------------------------------------------------------
(* A handler's end touches no other trip but a crossed user's.             *)
LEMMA EndTouches ==
  ASSUME PayInv, ShapeInv, Ties, NEW u \in Users, HandlerEnds(u)
  PROVE  \E r \in TripOf(u) :
           /\ r \in Trips /\ r \in Current /\ ~Open(r) /\ u \in Aboard(r)
           /\ \A v \in Users :
                cache'[v] # cache[v] =>
                  /\ cache'[v] = NoTrip
                  /\ v \in crossed \/ (v \in row[r].team /\ cache[u] = r)
           /\ \A v \in Users : cache[u] # NoTrip /\ cache[v] = cache[u] => cache'[v] = NoTrip
<1>0. TripRest
  BY DEF PayInv, TripInv
<1>1. /\ UNCHANGED <<row, crossed>> /\ u \in completing
      /\ cache' = Forget(cache, u)
  BY DEF HandlerEnds, CompletionEnds
<1>2. PICK r \in TripOf(u) : TRUE
  BY <1>1 DEF ShapeInv, TickShaped
<1>3. r \in Trips /\ r \in found /\ row[r].owner = u /\ r \in Current /\ u \in Aboard(r)
  BY <1>0, <1>2 DEF TripOf, TripRest, Current, Aboard
<1>4. ~Open(r)
  BY <1>1, <1>3 DEF PayInv, CompletingMarked, MarkedRowsClosed
<1>5. cache[u] \in {r, NoTrip} \/ u \in crossed
  BY <1>3 DEF Ties, CacheAgrees
<1>6. \A v \in Users : cache[u] # NoTrip /\ cache[v] = cache[u] => cache'[v] = NoTrip
  BY <1>1 DEF Forget, Ties, CachedOnTeam
<1>7. ASSUME NEW v \in Users, cache'[v] # cache[v]
      PROVE  /\ cache'[v] = NoTrip
             /\ v \in crossed \/ (v \in row[r].team /\ cache[u] = r)
  <2>1. cache'[v] = NoTrip /\ cache[u] # NoTrip /\ v \in row[cache[u]].team
    BY <1>0, <1>1, <1>7 DEF Forget, TripRest
  <2>2. cache[u] = r \/ u \in crossed
    BY <1>5, <2>1
  <2>3. ASSUME u \in crossed
        PROVE  v \in crossed
    <3>1. cache[u] \in Trips /\ cache[u] \in Known
      BY <1>0, <2>1 DEF TripRest, Known
    <3>2. u \in Aboard(cache[u]) /\ v \in Aboard(cache[u])
      BY <2>1 DEF Ties, CachedOnTeam, Aboard
    <3> QED
      BY <2>3, <3>1, <3>2 DEF Ties, CrossedTogether
  <2> QED
    BY <2>1, <2>2, <2>3
<1> QED
  BY <1>2, <1>3, <1>4, <1>6, <1>7

LEMMA HandlerKeepsTies ==
  ASSUME PayInv, ShapeInv, Ties, NEW u \in Users, HandlerEnds(u)
  PROVE  Ties'
<1>0. TypeOK /\ TripRest
  BY DEF PayInv, TripInv
<1>1. /\ UNCHANGED <<row, crossed, body, cmd, due>> /\ u \in completing
      /\ found' = found \ TripOf(u)
  BY DEF HandlerEnds, CompletionEnds
<1>2. PICK r \in TripOf(u) :
           /\ r \in Trips /\ r \in Current /\ ~Open(r) /\ u \in Aboard(r)
           /\ \A v \in Users :
                cache'[v] # cache[v] =>
                  /\ cache'[v] = NoTrip
                  /\ v \in crossed \/ (v \in row[r].team /\ cache[u] = r)
           /\ \A v \in Users : cache[u] # NoTrip /\ cache[v] = cache[u] => cache'[v] = NoTrip
  BY EndTouches
<1>3. ASSUME NEW t \in Current, t # r, NEW v \in Aboard(t), cache'[v] # cache[v]
      PROVE  v \in crossed
  <2>1. v \in Users
    BY DEF Aboard
  <2>2. v \in row[r].team => v \in Aboard(r)
    BY <2>1 DEF Aboard
  <2> QED
    BY <1>2, <1>3, <2>1, <2>2 DEF Ties, OneTripEach
<1>4. /\ \A d \in Commands, t \in Trips : Creating(d, t)' <=> Creating(d, t)
      /\ \A d \in Commands : Asks(d)' <=> Asks(d)
      /\ \A d \in Commands : Frees(d)' <=> Frees(d)
      /\ \A v \in Users \cup {NoUser} : BeingFreed(v)' <=> BeingFreed(v)
  BY <1>1 DEF Creating, Asks, Frees, At, BeingFreed
<1>5. TripsOnlyEnd
  BY <1>1, <1>4 DEF TripsOnlyEnd, RowsStay, Unused, Open
<1>6. /\ Current' \subseteq Current /\ \A t \in Trips : Aboard(t)' = Aboard(t)
  BY <1>5, EndingShrinks
<1>7. OneTripEach' /\ OwnersTravel' /\ CrossedTogether' /\ CacheAgrees' /\ CachedOnTeam'
  <2>1. CrossedGrows
    BY <1>1 DEF CrossedGrows
  <2>2. \A v \in Users : cache'[v] \in {cache[v], NoTrip}
    BY <1>2
  <2> QED
    BY <1>0, <1>5, <2>1, <2>2, ForgettingKeeps
<1>8. FreedHasNoTrip' /\ AsksOfHisTrip' /\ CreatedIsOpen'
  BY <1>1, <1>4, <1>6 DEF Ties, FreedHasNoTrip, AsksOfHisTrip, CreatedIsOpen, Open, Current
<1>9. TeamsCached'
  <2> SUFFICES ASSUME NEW t \in Trips, Open(t), NEW v \in row[t].team
               PROVE  cache'[v] = t \/ v \in crossed \/ \E d \in Commands : Creating(d, t)
    BY <1>1, <1>4 DEF TeamsCached, Open
  <2>1. t \in Current /\ t # r /\ v \in Aboard(t)
    BY <1>0, <1>2 DEF Current, Aboard, TripRest, Rows
  <2> QED
    BY <1>3, <2>1 DEF Ties, TeamsCached
<1>10. FoundIsCached'
  <2> SUFFICES ASSUME NEW t \in found', NEW v \in Users, cache'[v] = t, cache'[row[t].owner] # t
               PROVE  v \in crossed
    BY <1>1 DEF FoundIsCached
  <2>1. t \in found /\ t \notin TripOf(u) /\ t \in Trips /\ t \in Current /\ t \in Known /\ t # r
    BY <1>0, <1>1, <1>2 DEF TripRest, Current, Known
  <2>2. cache[v] = t /\ row[t].owner \in Aboard(t) /\ v \in Aboard(t)
    BY <1>0, <1>2, <2>1, TripAssumption DEF TripRest, Ties, CachedOnTeam, Aboard
  <2>3. cache[row[t].owner] = t \/ v \in crossed
    BY <2>1, <2>2 DEF Ties, FoundIsCached
  <2>4. ASSUME cache[row[t].owner] = t
        PROVE  v \in crossed
    <3>1. row[t].owner \in crossed
      BY <1>3, <2>1, <2>2, <2>4
    <3> QED
      BY <2>1, <2>2, <3>1 DEF Ties, CrossedTogether
  <2> QED
    BY <2>3, <2>4
<1>11. EntriesJustified'
  <2> SUFFICES ASSUME NEW v \in Users, cache'[v] # NoTrip
               PROVE  Justified(v)'
    BY DEF EntriesJustified, Free
  <2>1. cache'[v] = cache[v] /\ ~Free(v)
    BY <1>2 DEF Free
  <2>2. PICK t \in Trips : t = cache[v]
    BY <1>0, <2>1 DEF TripRest, Free
  <2>3. row[t].owner \in Users \cup {NoUser}
    BY <1>0 DEF TripRest, Rows
  <2>4. CASE t \in TripOf(u)
    <3>1. t \in found /\ row[t].owner = u /\ cache[u] # t
      BY <1>2, <2>1, <2>2, <2>4 DEF TripOf, Free
    <3>2. v \in crossed
      BY <2>2, <3>1 DEF Ties, FoundIsCached
    <3> QED
      BY <1>1, <3>2 DEF Justified
  <2>5. CASE t \notin TripOf(u)
    <3>1. BeingFreed(row[t].owner) => BeingFreed(row[t].owner)'
      BY <1>1, <1>4, <2>3
    <3> QED
      BY <1>0, <1>1, <2>1, <2>2, <2>5, <3>1, StaysJustified
  <2> QED
    BY <2>4, <2>5
<1> QED
  BY <1>7, <1>8, <1>9, <1>10, <1>11 DEF Ties

(* A restart rebuilds the cache from the open rows.                        *)
LEMMA RestartKeepsTies ==
  ASSUME TripRest, Ties, ProcessRestarts
  PROVE  Ties'
<1>1. /\ UNCHANGED <<row, crossed>> /\ found' = {} /\ body' = [c \in Commands |-> NoBody]
      /\ \A v \in Users : cache'[v] \in CacheOf(v)
  BY DEF ProcessRestarts
<1>2. \A c \in Commands : /\ ~Asks(c)' /\ ~Frees(c)'
                          /\ \A t \in Trips : ~Creating(c, t)'
  BY <1>1 DEF Asks, Frees, At, Creating, NoBody
<1>3. TripsOnlyEnd /\ CrossedGrows
  <2>1. CrossedGrows
    BY <1>1 DEF CrossedGrows
  <2>2. RowsStay
    BY <1>1 DEF RowsStay, Unused, Open
  <2> QED
    BY <1>1, <1>2, <2>1, <2>2 DEF TripsOnlyEnd
<1>4. /\ Current' \subseteq Current /\ \A t \in Trips : Aboard(t)' = Aboard(t)
  BY <1>3, EndingShrinks
<1>5. \A v \in Users : cache'[v] # NoTrip =>
        cache'[v] \in Trips /\ Open(cache'[v]) /\ v \in row[cache'[v]].team
  BY <1>1 DEF CacheOf
<1>6. \A v \in Users, t \in Trips : Open(t) /\ v \in row[t].team => cache'[v] # NoTrip
  BY <1>1, TripAssumption DEF CacheOf
<1>7. Known' \subseteq Known
  <2>1. \A v \in Users : cache'[v] # NoTrip => cache'[v] \in Current
    BY <1>5 DEF Current
  <2> QED
    BY <1>4, <2>1, TripAssumption DEF Known
<1>8. OneTripEach' /\ OwnersTravel' /\ CrossedTogether'
  BY <1>3, <1>7, EndingKeeps
<1>9. \A s, t \in Trips : \A v \in Users :
        Open(s) /\ v \in Aboard(s) /\ t \in Current /\ v \in Aboard(t) /\ s # t => v \in crossed
  BY DEF Ties, OneTripEach, Current
<1>10. \A v \in Users, t \in Trips : v \in row[t].team => v \in Aboard(t)
  BY DEF Aboard
<1>11. TeamsCached'
  <2> SUFFICES ASSUME NEW t \in Trips, Open(t), NEW v \in row[t].team
               PROVE  cache'[v] = t \/ v \in crossed
    BY <1>1 DEF TeamsCached, Open
  <2>1. v \in Users /\ t \in Current
    BY DEF TripRest, Rows, Current
  <2> QED
    BY <1>5, <1>6, <1>9, <1>10, <2>1
<1>12. CacheAgrees'
  <2> SUFFICES ASSUME NEW t \in Current', NEW v \in Aboard(t)'
               PROVE  cache'[v] \in {t, NoTrip} \/ v \in crossed
    BY <1>1 DEF CacheAgrees
  <2>1. v \in Users /\ t \in Current /\ t \in Trips /\ v \in Aboard(t)
    BY <1>4 DEF Current, Aboard
  <2> QED
    BY <1>5, <1>9, <1>10, <2>1
<1>13. CachedOnTeam'
  BY <1>1, <1>5 DEF CachedOnTeam, Open, Unused
<1>14. FreedHasNoTrip' /\ AsksOfHisTrip' /\ CreatedIsOpen' /\ FoundIsCached'
  BY <1>1, <1>2 DEF FreedHasNoTrip, AsksOfHisTrip, CreatedIsOpen, FoundIsCached
<1>15. EntriesJustified'
  BY <1>1, <1>5 DEF EntriesJustified, Justified, Free, Open
<1> QED
  BY <1>8, <1>11, <1>12, <1>13, <1>14, <1>15 DEF Ties

-----------------------------------------------------------------------------
(* Every step keeps the ties.                                              *)
TieInv == PayInv /\ OneGatedCommand /\ ShapeInv /\ Ties

LEMMA TiesStep == TieInv /\ [TripNext]_tripVars => Ties'
<1> SUFFICES ASSUME TieInv, [TripNext]_tripVars
             PROVE  Ties'
  OBVIOUS
<1>0. TypeOK /\ TripRest /\ CompletesInTick /\ PayInv /\ ShapeInv /\ Ties /\ OneGatedCommand
  BY DEF TieInv, PayInv, TripInv
<1>1. ASSUME UNCHANGED <<row, cache, found, crossed, body>>,
             \A c \in Commands : cmd[c].phase = "run" => cmd'[c] = cmd[c]
      PROVE  Ties'
  <2>1. ASSUME NEW c \in Commands
        PROVE  Calm(c)
    BY <1>0, <1>1 DEF ShapeInv, BodiesShaped, BodyShape, Calm
  <2> QED
    BY <1>0, <1>1, <2>1, CalmKeepsTies
<1>2. CASE GateOnly
  BY <1>0, <1>1, <1>2, RunningStays DEF GateOnly, tripOnlyVars
<1>3. ASSUME NEW c \in Commands, BodyBegins(c) \/ BodyEnds(c) \/ BodySteps(c)
      PROVE  Ties'
  <2>1. TieCase(c)
    BY <1>0 DEF TieCase
  <2>2. \A d \in Commands \ {c} : body'[d] = body[d] /\ cmd'[d] = cmd[d]
    BY <1>0, <1>3, BodyOfOthers
  <2>3. CASE BodyBegins(c) \/ BodyEnds(c) \/ StartFails(c) \/ TakeItems(c) \/ PartyDeparts(c)
    <3>1. UNCHANGED <<row, cache, found, crossed>>
      BY <2>3 DEF BodyBegins, BodyEnds, StartFails, TakeItems, PartyDeparts
    <3>2. body[c].at \notin {"created", "deleted"}
      <4>1. CASE BodyBegins(c)
        BY <1>0, <4>1 DEF BodyBegins, CommandRuns, ShapeInv, BodiesShaped, BodyShape
      <4> QED
        BY <2>3, <4>1 DEF BodyEnds, StartFails, TakeItems, PartyDeparts, Charged, At
    <3>3. body'[c].at \notin {"created", "asked", "deleted"}
      BY <1>0, <2>3 DEF BodyBegins, BodyEnds, StartFails, TakeItems, PartyDeparts, Advance, NoBody,
                        TripRest
    <3>4. ASSUME NEW d \in Commands
          PROVE  Calm(d)
      BY <2>2, <3>2, <3>3 DEF Calm
    <3> QED
      BY <1>0, <3>1, <3>4, CalmKeepsTies
  <2>4. CASE AskToCancel(c)
    BY <2>1, <2>4, AskingKeepsTies
  <2>5. ASSUME NEW t \in Trips, CreateRow(c, t)
        PROVE  Ties'
    BY <1>0, <2>1, <2>5, CreateRowKeepsTies
  <2>6. CASE SyncActivity(c)
    BY <2>1, <2>6, SyncKeepsTies
  <2>7. CASE CancelRows(c)
    BY <2>1, <2>7, CancelRowsKeepsTies
  <2>8. CASE CancelCache(c)
    BY <2>1, <2>8, CancelCacheKeepsTies
  <2>9. ASSUME NEW u \in Users, AdminDeletesRows(c, u)
        PROVE  Ties'
    BY <2>1, <2>9, AdminDeletesKeepsTies
  <2>10. ASSUME NEW u \in Users, AdminFrees(c, u)
         PROVE  Ties'
    BY <2>1, <2>10, AdminFreesKeepsTies
  <2> QED
    BY <1>3, <2>3, <2>4, <2>5, <2>6, <2>7, <2>8, <2>9, <2>10 DEF BodySteps
<1>4. ASSUME NEW c \in Commands, AdminStopsBot(c)
      PROVE  Ties'
  BY <1>1, <1>4 DEF AdminStopsBot, AdminReboots, tripOnlyVars
<1>5. ASSUME NEW t \in Trips, TripFinishes(t) \/ HandlerPays(t)
      PROVE  Ties'
  BY <1>1, <1>5 DEF TripFinishes, HandlerPays, gateVars
<1>6. ASSUME NEW u \in Users, HandlerEnds(u)
      PROVE  Ties'
  BY <1>0, <1>6, HandlerKeepsTies
<1>7. CASE TickFinds \/ TickMarks \/ TickEnds
  <2>1. UNCHANGED <<body, cmd, cache, crossed>>
    BY <1>7 DEF TickFinds, TickMarks, TickEnds, TickerStarts, NothingDue, gateVars
  <2> QED
    BY <1>0, <1>7, <2>1, TickerKeepsTies
<1>8. CASE TickCompletes
  BY <1>1, <1>8 DEF TickCompletes, CompletionsBegin
<1>9. CASE ProcessRestarts
  BY <1>0, <1>9, RestartKeepsTies
<1>10. CASE UNCHANGED tripVars
  BY <1>1, <1>10 DEF tripVars, tripOnlyVars, gateVars
<1> QED
  BY <1>2, <1>3, <1>4, <1>5, <1>6, <1>7, <1>8, <1>9, <1>10 DEF TripNext

LEMMA TiesInit == TripInit => ShapeInv /\ Ties
<1> SUFFICES ASSUME TripInit
             PROVE  ShapeInv /\ Ties
  OBVIOUS
<1>1. /\ \A t \in Trips : row[t] = NoRow
      /\ \A c \in Commands : body[c] = NoBody
      /\ \A u \in Users : cache[u] = NoTrip
      /\ due = {} /\ found = {} /\ crossed = {} /\ completing = {}
  BY DEF TripInit, GateInit
<1>2. \A t \in Trips : ~Open(t) /\ Unused(t)
  BY <1>1 DEF NoRow, Open, Unused
<1>3. \A c \in Commands : /\ ~Asks(c) /\ ~Frees(c)
                          /\ \A t \in Trips : ~Creating(c, t)
  BY <1>1 DEF Asks, Frees, At, Creating, NoBody
<1>4. Current = {} /\ Known = {}
  BY <1>1, <1>2, <1>3, TripAssumption DEF Current, Known
<1>5. ShapeInv
  BY <1>1, <1>2 DEF ShapeInv, BodiesShaped, BodyShape, TickShaped, NoBody, NoRow
<1>6. Ties
  BY <1>1, <1>2, <1>3, <1>4
  DEF Ties, TeamsCached, OneTripEach, CacheAgrees, FreedHasNoTrip, AsksOfHisTrip, CachedOnTeam,
      OwnersTravel, CrossedTogether, FoundIsCached, CreatedIsOpen, EntriesJustified, Free
<1> QED
  BY <1>5, <1>6

LEMMA TiesHold == TripSafety => [](PayInv /\ ShapeInv /\ Ties)
<1>1. TripInit => PayInv
  BY PayInit
<1>2. TripInit => ShapeInv /\ Ties
  BY TiesInit
<1>3. PayInv /\ OneGatedCommand /\ ShapeInv /\ Ties /\ [TripNext]_tripVars => (PayInv /\ ShapeInv /\ Ties)'
  <2> SUFFICES ASSUME PayInv, OneGatedCommand, ShapeInv, Ties, [TripNext]_tripVars
               PROVE  (PayInv /\ ShapeInv /\ Ties)'
    OBVIOUS
  <2>1. CachedOnTeam
    BY DEF Ties
  <2> QED
    BY <2>1, PayStep, ShapeStep, TiesStep DEF TieInv
<1> QED
  BY <1>1, <1>2, <1>3, TripsOneGatedCommand, PTL DEF TripSafety

(* Everyone on an open trip is marked busy with that trip, but for a       *)
(* tangled team, for any number of users, parties, trips and restarts.     *)
THEOREM OpenRowCachedCorrect == TripSafety => []OpenRowCached
<1>1. PayInv /\ ShapeInv /\ Ties => OpenRowCached
  <2> SUFFICES ASSUME PayInv, Ties, NEW t \in Trips, Open(t)
               PROVE  \/ \A u \in row[t].team : cache[u] = t
                      \/ \E c \in Commands : body[c].at = "created" /\ body[c].trip = t
                      \/ Tangled(t)
    BY DEF OpenRowCached
  <2> QED
    BY DEF Ties, TeamsCached, Creating, Tangled
<1> QED
  BY <1>1, TiesHold, PTL

(* Nobody is stranded with a trip that will never be paid, but for the     *)
(* team of a trip a moderator cancelled, and for a tangled team.           *)
THEOREM NobodyIsStrandedCorrect == TripSafety => []NobodyIsStranded
<1>1. PayInv /\ ShapeInv /\ Ties => NobodyIsStranded
  <2> SUFFICES ASSUME PayInv, Ties, NEW u \in Users, ~Free(u)
               PROVE  LET t == cache[u] IN
                        \/ Open(t) \/ t \in found
                        \/ BeingFreed(row[t].owner)
                        \/ row[t].state = "deleted" /\ u # row[t].owner
                        \/ Tangled(t)
    BY DEF NobodyIsStranded
  <2>1. Justified(u) /\ u \in row[cache[u]].team
    BY DEF Ties, EntriesJustified, CachedOnTeam, Free
  <2> QED
    BY <2>1 DEF Justified, Tangled
<1> QED
  BY <1>1, TiesHold, PTL

(* The end of a handler frees no minion from another trip.                 *)
THEOREM HandlerFreesOwnTripCorrect == TripSafety => HandlerFreesOwnTrip
<1>1. PayInv /\ ShapeInv /\ Ties =>
        \A u, v \in Users :
          /\ HandlerEnds(u)
          /\ {u, v} \cap crossed = {}
          /\ cache'[v] # cache[v]
          => cache[v] \in TripOf(u)
  <2> SUFFICES ASSUME PayInv, ShapeInv, Ties, NEW u \in Users, NEW v \in Users, HandlerEnds(u),
                      v \notin crossed, cache'[v] # cache[v]
               PROVE  cache[v] \in TripOf(u)
    OBVIOUS
  <2>1. PICK r \in TripOf(u) :
           /\ r \in Trips /\ r \in Current
           /\ cache'[v] = NoTrip /\ v \in row[r].team
    BY EndTouches
  <2>2. v \in Aboard(r)
    BY <2>1 DEF Aboard
  <2>3. cache[v] = r
    BY <2>1, <2>2 DEF Ties, CacheAgrees
  <2> QED
    BY <2>3
<1> QED
  BY <1>1, TiesHold, PTL DEF TripSafety, HandlerFreesOwnTrip

(* A confirmed cancellation deletes no other trip than the one its prompt  *)
(* named.                                                                  *)
THEOREM CancelsWhatItAskedCorrect == TripSafety => CancelsWhatItAsked
<1>1. PayInv /\ ShapeInv /\ Ties =>
        \A c \in Commands, t \in Trips :
          CancelRows(c) /\ Open(t) /\ ~Open(t)' /\ ~Tangled(t) => body[c].trip = t
  <2> SUFFICES ASSUME PayInv, ShapeInv, Ties, NEW c \in Commands, NEW t \in Trips,
                      CancelRows(c), Open(t), ~Open(t)', ~Tangled(t)
               PROVE  body[c].trip = t
    OBVIOUS
  <2>1. TypeOK /\ TripRest
    BY DEF PayInv, TripInv
  <2>2. cmd[c].user \in Users /\ Asks(c) /\ DeleteOpenRows(cmd[c].user)
    BY <2>1, RunningHasUser DEF CancelRows, Asks, At
  <2>3. row[t].owner = cmd[c].user
    BY <2>1, <2>2, DeletingKeepsTeams DEF Open
  <2>4. t \in Current /\ t \in Known /\ cmd[c].user \in Aboard(t)
    BY <2>2, <2>3 DEF Current, Known, Aboard
  <2>5. t = body[c].trip \/ cmd[c].user \in crossed
    BY <2>2, <2>4 DEF Ties, AsksOfHisTrip
  <2>6. cmd[c].user \notin crossed
    <3> SUFFICES ASSUME cmd[c].user \in crossed
                 PROVE  Tangled(t)
      OBVIOUS
    <3>1. Aboard(t) \subseteq crossed
      BY <2>4 DEF Ties, CrossedTogether
    <3>2. row[t].team # {} /\ row[t].team \subseteq Aboard(t)
      BY <2>1 DEF Ties, OwnersTravel, Open, Unused, TripRest, Rows, Aboard
    <3> QED
      BY <3>1, <3>2 DEF Tangled
  <2> QED
    BY <2>5, <2>6
<1> QED
  BY <1>1, TiesHold, PTL DEF TripSafety, CancelsWhatItAsked
-----------------------------------------------------------------------------
(* Where users only type their commands, a command that took the items of  *)
(* a trip can start it: no other that starts trips runs with it, and who   *)
(* was unlocked amid something is crossed.                                 *)
OnlyTyped == \A u \in Users : EntryKinds[u] \subseteq SlashKinds

\* A command that will create a row.
Leaves(c) == body[c].op \in {"start", "team"} /\ body[c].at \in {"begin", "charged"}

TakenAlong(u) == \E t \in Trips : cache[u] = t /\ row[t].owner # u

KindsTyped == \A c \in Commands : cmd[c].phase # "idle" => cmd[c].kind \in SlashKinds

StartersTyped ==
  \A c \in Commands : Leaves(c) \/ body[c].at = "created" => cmd[c].kind = "slash"

DebtIsCrossed == \A u \in Users : debt[u] # 0 => u \in crossed

LeavesFree(u) == Free(u) \/ TakenAlong(u) \/ u \in crossed

LeaversFree == \A c \in Commands : Leaves(c) => LeavesFree(cmd[c].user)

TypedInv == KindsTyped /\ StartersTyped /\ DebtIsCrossed /\ LeaversFree

LEMMA TypedInit == TripInit => TypedInv
BY DEF TripInit, GateInit, TypedInv, KindsTyped, StartersTyped, DebtIsCrossed, LeaversFree,
       Leaves, Idle, NoBody

(* The gate refuses a typed command without a release.                     *)
LEMMA GateOnlyTypedKinds ==
  ASSUME OnlyTyped, TypeOK, KindsTyped, GateOnly
  PROVE  KindsTyped' /\ debt' = debt
<1>1. ASSUME NEW c \in Commands, NEW u \in Users, NEW k \in SlashKinds, SlashArrives(c, u, k)
      PROVE  KindsTyped' /\ debt' = debt
  BY <1>1 DEF SlashArrives, Become, TypeOK, KindsTyped
<1>2. \A u \in Users : HookedKinds \cap EntryKinds[u] = {} /\ DirectKinds \cap EntryKinds[u] = {}
  BY DEF OnlyTyped, SlashKinds, HookedKinds, DirectKinds
<1>3. ASSUME NEW c \in Commands, HookRefuses(c) \/ HookAnswers(c) \/ InhibitorRefuses(c)
      PROVE  KindsTyped' /\ debt' = debt
  BY <1>3 DEF HookRefuses, HookAnswers, InhibitorRefuses, Ends, Idle, TypeOK, KindsTyped
<1>4. ASSUME NEW c \in Commands, HookPasses(c) \/ PreCommandAcquires(c)
      PROVE  KindsTyped' /\ debt' = debt
  BY <1>4 DEF HookPasses, HookOpens, PreCommandAcquires, Ungated, Proceed, TypeOK, CommandState, KindsTyped
<1>5. ASSUME NEW c \in Commands, PreCommandRefuses(c) \/ PreCommandThrows(c)
      PROVE  KindsTyped' /\ debt' = debt
  <2>1. cmd[c].kind \notin RunCommandKinds
    BY <1>5 DEF PreCommandRefuses, PreCommandThrows, Refused, KindsTyped, RunCommandKinds,
                SlashKinds, HookedKinds, DirectKinds
  <2> QED
    BY <1>5, <2>1 DEF PreCommandRefuses, PreCommandThrows, Ends, Idle, TypeOK, KindsTyped
<1>6. ASSUME NEW u \in Users, CooldownExpires(u) \/ ReleaseFires(u)
      PROVE  KindsTyped' /\ debt' = debt
  BY <1>6 DEF CooldownExpires, ReleaseFires, KindsTyped
<1> QED
  BY <1>1, <1>2, <1>3, <1>4, <1>5, <1>6 DEF GateOnly

(* A user who may leave still may, when his entry stays or goes.           *)
LEMMA LeavesFreeStays ==
  ASSUME TripRest, CachedOnTeam, RowsLast, crossed \subseteq crossed', NEW u \in Users, LeavesFree(u),
         cache'[u] \in {cache[u], NoTrip}
  PROVE  LeavesFree(u)'
BY DEF LeavesFree, Free, TakenAlong, CachedOnTeam, RowsLast, TripRest

(* Steps that neither start a command's body nor move one on.              *)
LEMMA BodiesWait ==
  ASSUME TypeOK, TripRest, BodiesShaped, CachedOnTeam, RowsLast, TypedInv, body' = body,
         \A c \in Commands : cmd[c].phase = "run" => cmd'[c] = cmd[c],
         KindsTyped', debt' = debt, crossed \subseteq crossed',
         \A u \in Users : cache'[u] \in {cache[u], NoTrip}
  PROVE  TypedInv'
<1>1. \A c \in Commands : Leaves(c) \/ body[c].at = "created" => cmd[c].phase = "run"
  BY DEF BodiesShaped, BodyShape, Leaves
<1>2. StartersTyped'
  BY <1>1 DEF TypedInv, StartersTyped, Leaves
<1>3. ASSUME NEW c \in Commands, Leaves(c)'
      PROVE  LeavesFree(cmd[c].user)'
  <2>1. Leaves(c) /\ cmd'[c] = cmd[c] /\ cmd[c].user \in Users
    BY <1>1, <1>3, RunningHasUser DEF Leaves
  <2>2. LeavesFree(cmd[c].user)
    BY <2>1 DEF TypedInv, LeaversFree
  <2> QED
    BY <2>1, <2>2, LeavesFreeStays
<1>4. DebtIsCrossed'
  BY DEF TypedInv, DebtIsCrossed
<1> QED
  BY <1>2, <1>3, <1>4 DEF TypedInv, LeaversFree

(* Only a moderator's unlock leaves a debt, and crosses its user.          *)
LEMMA BodyDebts ==
  ASSUME TypeOK, TripRest, TypedInv, NEW c \in Commands, BodyBegins(c) \/ BodyEnds(c) \/ BodySteps(c)
  PROVE  DebtIsCrossed' /\ crossed \subseteq crossed'
<1>1. ASSUME NEW u \in Users, AdminFrees(c, u)
      PROVE  DebtIsCrossed' /\ crossed \subseteq crossed'
  <2>1. debt' = [debt EXCEPT ![u] = Credit(u)]
    BY <1>1 DEF AdminFrees, AdminUnlocks
  <2>2. crossed \subseteq crossed' /\ (Credit(u) # 0 => u \in crossed')
    <3>1. {u} \subseteq TripMates({u})
      BY MatesTravel
    <3> QED
      BY <1>1, <3>1 DEF AdminFrees, Midway
  <2> QED
    BY <2>1, <2>2 DEF TypeOK, TypedInv, DebtIsCrossed
<1>2. CASE /\ debt' = debt
           /\ crossed \subseteq crossed'
  BY <1>2 DEF TypedInv, DebtIsCrossed
<1> QED
  BY <1>1, <1>2
  DEF BodyBegins, BodyEnds, BodySteps, CommandRuns, CommandEnds, TakeItems, PartyDeparts, CreateRow,
      StartFails, SyncActivity, AskToCancel, CancelRows, CancelCache, AdminDeletesRows, gateVars

(* Two typed commands of a user that start trips do not run together.      *)
LEMMA StartersAreAlone ==
  ASSUME TypeOK, OneGatedCommand, BodiesShaped, TypedInv, NEW c \in Commands, NEW d \in Commands,
         Leaves(c), body[d].at = "created", cmd[d].user = cmd[c].user
  PROVE  cmd[c].user \in crossed
<1>1. cmd[c].phase = "run" /\ cmd[d].phase = "run"
  BY DEF BodiesShaped, BodyShape, Leaves
<1>2. PICK u \in Users : u = cmd[c].user
  BY <1>1, RunningHasUser
<1>3. c \in Holding(u) /\ d \in Holding(u) /\ c # d
  BY <1>1, <1>2 DEF Holding, Leaves
<1>4. cmd[c].kind \in GatedKinds /\ cmd[d].kind \in GatedKinds
  BY DEF TypedInv, StartersTyped, GatedKinds
<1>5. debt[u] # 0
  BY <1>3, <1>4 DEF OneGatedCommand
<1> QED
  BY <1>2, <1>5 DEF TypedInv, DebtIsCrossed

(* Who leads a command that will create a row may leave after the step of  *)
(* any command.                                                            *)
LEMMA LeavesFreeInBodies ==
  ASSUME TypeOK, TripRest, OneGatedCommand, BodiesShaped, CachedOnTeam, TypedInv,
         NEW c \in Commands, BodyBegins(c) \/ BodyEnds(c) \/ BodySteps(c),
         NEW d \in Commands, Leaves(d), NEW u \in Users, cmd[d].user = u
  PROVE  LeavesFree(u)'
<1>0. RowsLast /\ crossed \subseteq crossed'
  BY BodyRowsLast, BodyDebts
<1>1. LeavesFree(u)
  BY DEF TypedInv, LeaversFree
<1>2. CASE cache'[u] \in {cache[u], NoTrip}
  BY <1>0, <1>1, <1>2, LeavesFreeStays
<1>3. CASE SyncActivity(c)
  <2>1. body[c].at = "created" /\ body[c].trip \in Trips /\ row[body[c].trip].owner = cmd[c].user
    BY <1>3 DEF SyncActivity, BodiesShaped, BodyShape
  <2>2. row' = row /\ cache'[u] = IF u \in row[body[c].trip].team THEN body[c].trip ELSE cache[u]
    BY <1>3 DEF SyncActivity
  <2>3. CASE cmd[c].user = u
    BY <1>0, <2>1, <2>3, StartersAreAlone DEF LeavesFree
  <2>4. CASE cmd[c].user # u /\ u \in row[body[c].trip].team
    BY <2>1, <2>2, <2>4 DEF LeavesFree, TakenAlong
  <2> QED
    BY <1>2, <2>2, <2>3, <2>4
<1>4. CASE CancelCache(c)
  BY <1>2, <1>4 DEF CancelCache, TripRest
<1>5. ASSUME NEW v \in Users, AdminFrees(c, v)
      PROVE  LeavesFree(u)'
  <2>1. cache'[u] \in {cache[u], NoTrip}
    BY <1>5 DEF AdminFrees, Forget, TripRest
  <2> QED
    BY <1>2, <2>1
<1> QED
  BY <1>2, <1>3, <1>4, <1>5
  DEF BodyBegins, BodyEnds, BodySteps, TakeItems, PartyDeparts, CreateRow, StartFails, AskToCancel,
      CancelRows, AdminDeletesRows

(* The command that takes the step.                                        *)
LEMMA BodyStaysTyped ==
  ASSUME TypeOK, TripRest, BodiesShaped, TypedInv, NEW c \in Commands,
         BodyBegins(c) \/ BodyEnds(c) \/ BodySteps(c)
  PROVE  /\ cmd'[c].phase # "idle" => cmd'[c].kind \in SlashKinds
         /\ Leaves(c)' \/ body'[c].at = "created" => cmd'[c].kind = "slash"
         /\ Leaves(c)' => \/ Leaves(c) /\ cmd'[c].user = cmd[c].user
                          \/ cache'[cmd'[c].user] = NoTrip
<1>0. /\ body \in [Commands -> Bodies] /\ cmd \in [Commands -> CommandState]
      /\ cmd[c].phase # "idle" => cmd[c].kind \in SlashKinds
      /\ Leaves(c) => cmd[c].kind = "slash"
  BY DEF TypeOK, TripRest, TypedInv, KindsTyped, StartersTyped
<1>1. CASE BodyBegins(c)
  <2>1. /\ cmd[c].phase = "inhibit" /\ cache' = cache
        /\ cmd'[c].kind = cmd[c].kind /\ cmd'[c].user = cmd[c].user
    BY <1>0, <1>1 DEF BodyBegins, CommandRuns, Proceed, CommandState
  <2>2. PICK op \in OperationsOf(cmd[c].kind) :
          /\ op \in {"start", "team"} => Free(cmd[c].user)
          /\ body' = [body EXCEPT ![c] =
                        [op |-> op, at |-> "begin", trip |-> NoTrip, with |-> {}]]
    BY <1>1 DEF BodyBegins
  <2>3. body'[c].op = op /\ body'[c].at = "begin"
    BY <1>0, <2>2
  <2>4. op \in {"start", "team"} => cmd[c].kind = "slash"
    BY <1>0, <2>1, <2>2 DEF OperationsOf, SlashKinds
  <2> QED
    BY <1>0, <2>1, <2>2, <2>3, <2>4 DEF Leaves, Free
<1>2. CASE BodyEnds(c) \/ StartFails(c)
  BY <1>0, <1>2 DEF BodyEnds, StartFails, CommandEnds, Ends, Idle, NoBody, Leaves
<1>3. CASE TakeItems(c) \/ PartyDeparts(c)
  BY <1>0, <1>3 DEF TakeItems, PartyDeparts, At, Advance, Leaves, gateVars
<1>4. ASSUME NEW t \in Trips, CreateRow(c, t)
      PROVE  cmd'[c] = cmd[c] /\ Leaves(c) /\ ~Leaves(c)'
  BY <1>0, <1>4 DEF CreateRow, Charged, At, Advance, Leaves, gateVars
<1>5. CASE SyncActivity(c) \/ AskToCancel(c) \/ CancelRows(c) \/ CancelCache(c)
  BY <1>0, <1>5 DEF SyncActivity, AskToCancel, CancelRows, CancelCache, MoveTo, Advance, Leaves, gateVars
<1>6. ASSUME NEW u \in Users, AdminDeletesRows(c, u) \/ AdminFrees(c, u)
      PROVE  cmd'[c] = cmd[c] /\ ~Leaves(c)' /\ body'[c].at # "created"
  BY <1>0, <1>6 DEF AdminDeletesRows, AdminFrees, AdminUnlocks, MoveTo, Advance, Leaves, gateVars
<1> QED
  BY <1>0, <1>1, <1>2, <1>3, <1>4, <1>5, <1>6 DEF BodySteps

LEMMA TypedBodies ==
  ASSUME TypeOK, TripRest, OneGatedCommand, BodiesShaped, CachedOnTeam, TypedInv,
         NEW c \in Commands, BodyBegins(c) \/ BodyEnds(c) \/ BodySteps(c)
  PROVE  TypedInv'
<1>1. \A d \in Commands \ {c} : body'[d] = body[d] /\ cmd'[d] = cmd[d]
  BY BodyOfOthers
<1>2. KindsTyped'
  BY <1>1, BodyStaysTyped DEF TypedInv, KindsTyped
<1>3. StartersTyped'
  BY <1>1, BodyStaysTyped DEF TypedInv, StartersTyped, Leaves
<1>4. ASSUME NEW d \in Commands, Leaves(d)'
      PROVE  LeavesFree(cmd[d].user)'
  <2>1. CASE Leaves(d) /\ cmd'[d].user = cmd[d].user
    <3>1. cmd[d].user \in Users
      BY <2>1, RunningHasUser DEF BodiesShaped, BodyShape, Leaves
    <3> QED
      BY <2>1, <3>1, LeavesFreeInBodies
  <2>2. CASE cache'[cmd'[d].user] = NoTrip
    BY <2>2 DEF LeavesFree, Free
  <2> QED
    BY <1>1, <1>4, <2>1, <2>2, BodyStaysTyped DEF Leaves
<1> QED
  BY <1>2, <1>3, <1>4, BodyDebts DEF TypedInv, LeaversFree

LEMMA TypedStep ==
  ASSUME OnlyTyped, TieInv, TypedInv, [TripNext]_tripVars
  PROVE  TypedInv'
<1>0. /\ TypeOK /\ TripRest /\ OneGatedCommand /\ BodiesShaped /\ CachedOnTeam
      /\ KindsTyped /\ cache \in [Users -> Trips \cup {NoTrip}]
  BY DEF TieInv, PayInv, TripInv, ShapeInv, Ties, TypedInv, TripRest
<1>1. ASSUME UNCHANGED <<body, crossed>>, RowsLast, KindsTyped', debt' = debt,
             \A c \in Commands : cmd[c].phase = "run" => cmd'[c] = cmd[c],
             \A u \in Users : cache'[u] \in {cache[u], NoTrip}
      PROVE  TypedInv'
  BY <1>0, <1>1, BodiesWait
<1>2. CASE GateOnly
  <2>1. UNCHANGED <<body, crossed, row, cache>>
    BY <1>2 DEF GateOnly, tripOnlyVars
  <2>2. RowsLast
    BY <2>1 DEF RowsLast, Unused
  <2> QED
    BY <1>0, <1>1, <1>2, <2>1, <2>2, GateOnlyTypedKinds, RunningStays
<1>3. ASSUME NEW c \in Commands, BodyBegins(c) \/ BodyEnds(c) \/ BodySteps(c)
      PROVE  TypedInv'
  BY <1>0, <1>3, TypedBodies
<1>4. ASSUME UNCHANGED <<body, crossed, cmd, debt>>, RowsLast,
             \A u \in Users : cache'[u] \in {cache[u], NoTrip}
      PROVE  TypedInv'
  BY <1>0, <1>1, <1>4 DEF KindsTyped
<1>5. ASSUME UNCHANGED <<row, body, crossed, cmd, debt, cache>>
      PROVE  TypedInv'
  <2>1. RowsLast
    BY <1>5 DEF RowsLast, Unused
  <2> QED
    BY <1>4, <1>5, <2>1
<1>6. ASSUME NEW c \in Commands, AdminStopsBot(c)
      PROVE  TypedInv'
  BY <1>5, <1>6 DEF AdminStopsBot, AdminReboots, tripOnlyVars
<1>7. ASSUME NEW t \in Trips, TripFinishes(t) \/ HandlerPays(t)
      PROVE  TypedInv'
  BY <1>5, <1>7 DEF TripFinishes, HandlerPays, gateVars
<1>8. ASSUME NEW u \in Users, HandlerEnds(u)
      PROVE  TypedInv'
  <2>1. UNCHANGED <<row, body, crossed, cmd, debt>> /\ cache' = Forget(cache, u)
    BY <1>8 DEF HandlerEnds, CompletionEnds
  <2>2. RowsLast
    BY <2>1 DEF RowsLast, Unused
  <2>3. \A v \in Users : cache'[v] \in {cache[v], NoTrip}
    BY <2>1 DEF Forget
  <2> QED
    BY <1>4, <2>1, <2>2, <2>3
<1>9. CASE TickFinds \/ TickCompletes \/ TickEnds
  BY <1>5, <1>9 DEF TickFinds, TickCompletes, TickEnds, TickerStarts, CompletionsBegin, NothingDue
<1>10. CASE TickMarks
  <2>1. UNCHANGED <<body, crossed, cmd, debt, cache>>
    BY <1>10 DEF TickMarks, gateVars
  <2>2. RowsLast
    BY <1>0, <1>10 DEF TickMarks, RowsLast, TripRest, Rows, Unused, Open
  <2> QED
    BY <1>4, <2>1, <2>2
<1>11. CASE ProcessRestarts
  <2>1. /\ \A c \in Commands : body'[c] = NoBody /\ cmd'[c] = Idle
        /\ \A u \in Users : debt'[u] = 0
    BY <1>11 DEF ProcessRestarts, GateRestarts
  <2> QED
    BY <2>1 DEF TypedInv, KindsTyped, StartersTyped, DebtIsCrossed, LeaversFree, Leaves, NoBody, Idle
<1>12. CASE UNCHANGED tripVars
  BY <1>5, <1>12 DEF tripVars, tripOnlyVars, gateVars
<1> QED
  BY <1>2, <1>3, <1>6, <1>7, <1>8, <1>9, <1>10, <1>11, <1>12 DEF TripNext

(* A command that took the items of a trip can start it, for any users,    *)
(* parties, trips and restarts, as long as the commands are typed: those   *)
(* that runCommand starts pass the gate of a busy user or lower his        *)
(* counter when refused, so that two of them start trips at once.          *)
THEOREM ChargedCanStartCorrect ==
  ASSUME OnlyTyped
  PROVE  TripSafety => []ChargedCanStart
<1>1. TieInv /\ TypedInv => ChargedCanStart
  <2> SUFFICES ASSUME TieInv, TypedInv, NEW c \in Commands, Charged(c)
               PROVE  LET u == cmd[c].user IN
                        \/ Free(u) /\ OpenRowsOf(u) = {}
                        \/ \E t \in Trips : cache[u] = t /\ row[t].owner # u
                        \/ u \in crossed
    BY DEF ChargedCanStart
  <2>0. TypeOK /\ TripRest /\ OneGatedCommand /\ BodiesShaped /\ Ties
    BY DEF TieInv, PayInv, TripInv, ShapeInv
  <2>1. PICK u \in Users : u = cmd[c].user
    BY <2>0, RunningHasUser DEF Charged, At
  <2>2. Leaves(c)
    BY DEF Charged, At, Leaves
  <2>3. LeavesFree(u)
    BY <2>1, <2>2 DEF TypedInv, LeaversFree
  <2>4. ASSUME NEW t \in OpenRowsOf(u), Free(u)
        PROVE  u \in crossed
    <3>1. t \in Trips /\ Open(t) /\ row[t].owner = u
      BY <2>4 DEF OpenRowsOf
    <3>2. u \in row[t].team \cup crossed
      BY <2>0, <3>1 DEF Ties, OwnersTravel, Open, Unused
    <3>3. cache[u] # t
      BY <2>4, <3>1, TripAssumption DEF Free
    <3>4. u \in crossed \/ \E d \in Commands : Creating(d, t)
      BY <2>0, <3>1, <3>2, <3>3 DEF Ties, TeamsCached
    <3>5. ASSUME NEW d \in Commands, Creating(d, t)
          PROVE  u \in crossed
      <4>1. cmd[d].user = u /\ body[d].at = "created"
        BY <2>0, <3>1, <3>5 DEF Creating, BodiesShaped, BodyShape
      <4> QED
        BY <2>0, <2>1, <2>2, <4>1, StartersAreAlone
    <3> QED
      BY <3>4, <3>5
  <2> QED
    BY <2>1, <2>3, <2>4 DEF LeavesFree, TakenAlong
<1>2. TripInit => TypedInv
  BY TypedInit
<1>3. TieInv /\ TypedInv /\ [TripNext]_tripVars => TypedInv'
  BY TypedStep
<1>4. PayInv /\ OneGatedCommand /\ ShapeInv /\ Ties => TieInv
  BY DEF TieInv
<1> QED
  BY <1>1, <1>2, <1>3, <1>4, TiesHold, TripsOneGatedCommand, PTL DEF TripSafety
=============================================================================
