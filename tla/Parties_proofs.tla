---------------------------- MODULE Parties_proofs ----------------------------
(***************************************************************************)
(* Proofs about Parties, for any users, lobbies, sizes and clicks: what    *)
(* the locks and the limit keep, that a party is a gathering, and that its *)
(* command is answered unless it is lost.                                  *)
(***************************************************************************)
EXTENDS Parties, FiniteSetTheorems, TLAPS

-----------------------------------------------------------------------------
(* Types.                                                                  *)

(* Handling a click leaves well-typed members, locks and phases behind.    *)
LEMMA SettlesType ==
  ASSUME PartyTypeOK,
         NEW k \in clicks, NEW members \in SUBSET Users, NEW locks \in SUBSET Users,
         NEW stops \in BOOLEAN, NEW next \in {"ended", "deleting"},
         Settles(k, members, locks, stops, next)
  PROVE  /\ partyLockCache' \subseteq Users
         /\ phase' \in [Lobbies -> PartyPhases]
         /\ usersWhoConfirmed' \in [Lobbies -> SUBSET Users]
         /\ clicked' \in [Lobbies -> SUBSET Users]
         /\ clicks' \subseteq Click
         /\ unlocked' \subseteq Users
         /\ UNCHANGED <<arrived, tripVars>>
<1>1. k.lobby \in Lobbies /\ k.user \in Users
  BY DEF PartyTypeOK, Click
<1>2. clicked' \in [Lobbies -> SUBSET Users]
  BY <1>1 DEF Settles, PartyTypeOK
<1>3. phase' \in [Lobbies -> PartyPhases]
  BY <1>1 DEF Settles, PartyTypeOK, PartyPhases
<1>4. usersWhoConfirmed' \in [Lobbies -> SUBSET Users]
  BY <1>1 DEF Settles, PartyTypeOK
<1>5. partyLockCache' \subseteq Users
  BY DEF Settles, Unlocks
<1>6. unlocked' \subseteq Users
  BY DEF Settles, MarksUnlocked, PartyTypeOK
<1>7. clicks' \subseteq Click /\ UNCHANGED <<arrived, tripVars>>
  BY DEF Settles, PartyTypeOK
<1> QED
  BY <1>2, <1>3, <1>4, <1>5, <1>6, <1>7

LEMMA ClickType ==
  ASSUME PartyTypeOK, NEW k \in clicks, ClickStep(k)
  PROVE  PartyTypeOK'
<1>1. k \in Click /\ k.lobby \in Lobbies /\ k.user \in Users
  BY DEF PartyTypeOK, Click
<1>a. usersWhoConfirmed[k.lobby] \in SUBSET Users /\ partyLockCache \in SUBSET Users
  BY <1>1 DEF PartyTypeOK
<1>2. CASE FilterDenies(k)
  BY <1>2 DEF FilterDenies, PartyTypeOK, collectorVars, tripVars
<1>3. CASE JoinPassesBusy(k)
  <2>1. [k EXCEPT !.at = "passed"] \in Click
    BY <1>1 DEF Click
  <2> QED
    BY <1>3, <2>1 DEF JoinPassesBusy, PartyTypeOK, collectorVars, tripVars
<1>4. CASE JoinRefused(k) \/ Refused(k)
  <2>1. Settles(k, usersWhoConfirmed[k.lobby], partyLockCache, FALSE, "ended") /\ UNCHANGED <<late, collectorVars>>
    BY <1>4 DEF JoinRefused, Refused, OnlyReplies
  <2> QED
    BY <1>a, <2>1, SettlesType DEF PartyTypeOK, collectorVars, tripVars
<1>5. CASE JoinHandled(k)
  <2> DEFINE members == usersWhoConfirmed[k.lobby] \cup {k.user}
  <2>1. /\ Settles(k, members, partyLockCache \cup {k.user}, IsFull(members), "ended")
        /\ late' = [late EXCEPT ![k.lobby] = IF Collecting(k.lobby) THEN @ ELSE @ \cup {k.user}]
        /\ UNCHANGED collectorVars
    BY <1>5 DEF JoinHandled
  <2>2. members \in SUBSET Users /\ partyLockCache \cup {k.user} \in SUBSET Users /\ IsFull(members) \in BOOLEAN
    BY <1>1, <1>a DEF IsFull
  <2>3. late' \in [Lobbies -> SUBSET Users]
    BY <1>1, <2>1 DEF PartyTypeOK
  <2> HIDE DEF members
  <2>4. /\ partyLockCache' \subseteq Users
        /\ phase' \in [Lobbies -> PartyPhases]
        /\ usersWhoConfirmed' \in [Lobbies -> SUBSET Users]
        /\ clicked' \in [Lobbies -> SUBSET Users]
        /\ clicks' \subseteq Click
        /\ unlocked' \subseteq Users
        /\ UNCHANGED <<arrived, tripVars>>
    BY <2>1, <2>2, SettlesType
  <2> QED
    BY <2>1, <2>3, <2>4 DEF PartyTypeOK, collectorVars, tripVars
<1>6. CASE LeaveHandled(k)
  <2>1. /\ Settles(k, usersWhoConfirmed[k.lobby] \ {k.user}, partyLockCache \ {k.user}, FALSE, "ended")
        /\ UNCHANGED <<late, collectorVars>>
    BY <1>6 DEF LeaveHandled
  <2>2. usersWhoConfirmed[k.lobby] \ {k.user} \in SUBSET Users /\ partyLockCache \ {k.user} \in SUBSET Users
    BY <1>a
  <2> QED
    BY <2>1, <2>2, SettlesType DEF PartyTypeOK, collectorVars, tripVars
<1>7. CASE CancelHandled(k)
  <2>1. /\ Settles(k, usersWhoConfirmed[k.lobby], partyLockCache, TRUE, "ended")
        /\ UNCHANGED <<leader, fetched, late>>
    BY <1>7 DEF CancelHandled
  <2>2. /\ partyCancelled' \in [Lobbies -> BOOLEAN]
        /\ promise' \in [Lobbies -> {"pending", "resolved", "rejected"}]
    BY <1>1, <1>7 DEF CancelHandled, Answer, PartyTypeOK
  <2> QED
    BY <1>a, <2>1, <2>2, SettlesType DEF PartyTypeOK, tripVars
<1>8. CASE StartHandled(k)
  <2>1. /\ Settles(k, usersWhoConfirmed[k.lobby], partyLockCache, TRUE, "deleting")
        /\ UNCHANGED <<late, collectorVars>>
    BY <1>8 DEF StartHandled
  <2> QED
    BY <1>a, <2>1, SettlesType DEF PartyTypeOK, collectorVars, tripVars
<1> QED
  BY <1>2, <1>3, <1>4, <1>5, <1>6, <1>7, <1>8 DEF ClickStep

LEMMA CollectorType ==
  ASSUME PartyTypeOK, NEW l \in Lobbies, CollectorStep(l)
  PROVE  PartyTypeOK'
<1>1. CASE TimesUp(l)
  BY <1>1 DEF TimesUp, Unlocks, MarksUnlocked, PartyTypeOK, PartyPhases, clickVars, collectorVars, tripVars
<1>2. CASE TimerFires(l) \/ FetchFails(l)
  BY <1>2 DEF TimerFires, FetchFails, PartyTypeOK, PartyPhases, clickVars, collectorVars, tripVars
<1>3. CASE DeletedWithFew(l) \/ Fetched(l)
  BY <1>3 DEF DeletedWithFew, Fetched, Answer, PartyTypeOK, PartyPhases, clickVars, tripVars
<1>4. CASE DeletedAndReads(l)
  BY <1>4 DEF DeletedAndReads, PartyTypeOK, PartyPhases, clickVars, tripVars
<1> QED
  BY <1>1, <1>2, <1>3, <1>4 DEF CollectorStep

LEMMA CommandType ==
  ASSUME PartyTypeOK, NEW l \in Lobbies, CommandStep(l)
  PROVE  PartyTypeOK'
<1>1. CASE MessageSent(l)
  BY <1>1 DEF MessageSent, PartyTypeOK, PartyPhases, clickVars, collectorVars, tripVars
<1>2. CASE SendingFails(l)
  BY <1>2 DEF SendingFails, PartyTypeOK, PartyPhases, clickVars, tripVars
<1>3. CASE TakesAlong(l)
  <2>1. Available(l) \subseteq Users
    BY DEF Available, PartyTypeOK
  <2> QED
    BY <1>3, <2>1 DEF TakesAlong, PartyTypeOK, TripPhases, clickVars, collectorVars
<1>4. CASE TripRefused(l) \/ TripDeparts(l)
  BY <1>4 DEF TripRefused, TripDeparts, PartyTypeOK, TripPhases, clickVars, collectorVars
<1>5. ASSUME NEW u \in Hosts[l], SetsUp(l, u) PROVE PartyTypeOK'
  <2>1. u \in Users
    BY PartyAssumption
  <2> QED
    BY <1>5, <2>1 DEF SetsUp, PartyTypeOK, PartyPhases, clickVars, tripVars
<1> QED
  BY <1>1, <1>2, <1>3, <1>4, <1>5 DEF CommandStep

LEMMA NextType ==
  ASSUME PartyTypeOK, [PartyNext]_partyVars
  PROVE  PartyTypeOK'
<1>1. CASE LocksClear
  BY <1>1 DEF LocksClear, MarksUnlocked, PartyTypeOK, clickVars, collectorVars, tripVars
<1>2. ASSUME NEW l \in Lobbies, NEW u \in Users, NEW b \in Buttons, ClickArrives(l, u, b)
      PROVE  PartyTypeOK'
  <2>1. [at |-> "filter", user |-> u, lobby |-> l, button |-> b] \in Click
    BY DEF Click
  <2>2. arrived' \in 0..MaxClicks
    BY <1>2, PartyAssumption DEF ClickArrives, PartyTypeOK
  <2> QED
    BY <1>2, <2>1, <2>2 DEF ClickArrives, PartyTypeOK, collectorVars, tripVars
<1>3. CASE UNCHANGED partyVars
  BY <1>3 DEF PartyTypeOK, partyVars, clickVars, collectorVars, tripVars
<1> QED
  BY <1>1, <1>2, <1>3, ClickType, CollectorType, CommandType DEF PartyNext

(* The state of the lobbies stays well typed.                              *)
THEOREM PartyTypeCorrect == PartySpec => []PartyTypeOK
<1>1. PartyInit => PartyTypeOK
  BY PartyAssumption DEF PartyInit, PartyTypeOK, PartyPhases, TripPhases
<1>2. PartyTypeOK /\ [PartyNext]_partyVars => PartyTypeOK'
  BY NextType
<1> QED
  BY <1>1, <1>2, PTL DEF PartySpec

-----------------------------------------------------------------------------
(* How far a lobby is, and what that says of its members and its promise.  *)
Progress(l) ==
  /\ phase[l] \in {"none", "sending"} => promise[l] = "pending"
  /\ phase[l] \in {"none", "sending", "open", "ended", "deleting"} => fetched[l] = {}
  /\ phase[l] \in {"none", "sending", "open"} => late[l] = {}
  /\ phase[l] = "sending" => usersWhoConfirmed[l] = {leader[l]}
  /\ phase[l] # "none" => leader[l] \in usersWhoConfirmed[l]
  /\ promise[l] = "resolved" => fetched[l] # {}
  /\ partyCancelled[l] => promise[l] # "pending"
  /\ phase[l] = "fetching" =>
       fetched[l] # {} /\ (promise[l] = "pending" => Cardinality(fetched[l]) >= MinSize)

ClicksFollowTheMessage == \A k \in clicks : phase[k.lobby] \notin {"none", "sending"}

ProgressInv == PartyTypeOK /\ ClicksFollowTheMessage /\ \A l \in Lobbies : Progress(l)

(* Handling a click, seen from any lobby.                                  *)
LEMMA SettlesPhase ==
  ASSUME PartyTypeOK,
         NEW k \in clicks, NEW members, NEW locks, NEW stops, NEW next \in {"ended", "deleting"},
         Settles(k, members, locks, stops, next),
         NEW l \in Lobbies
  PROVE  /\ \/ phase'[l] = phase[l]
            \/ l = k.lobby /\ phase[l] \in {"open", "ended"} /\ phase'[l] \in {"ended", "deleting"}
         /\ usersWhoConfirmed'[l] = IF l = k.lobby THEN members ELSE usersWhoConfirmed[l]
         /\ clicks' \subseteq clicks
BY DEF Settles, Collecting, PartyTypeOK

(* A handled click keeps Progress, if it leaves leader, late joins and the *)
(* promise as they have to be.                                             *)
KeepsPromise(l, at) ==
  /\ late'[l] # late[l] => (l = at /\ phase[at] # "open")
  /\ \/ promise'[l] = promise[l] /\ partyCancelled'[l] = partyCancelled[l]
     \/ l = at /\ promise'[l] = IF promise[l] = "pending" THEN "rejected" ELSE promise[l]

LEMMA SettlesProgress ==
  ASSUME ProgressInv,
         NEW k \in clicks, NEW members, NEW locks, NEW stops, NEW next \in {"ended", "deleting"},
         Settles(k, members, locks, stops, next),
         leader[k.lobby] \in members,
         leader' = leader, fetched' = fetched,
         \A l \in Lobbies : KeepsPromise(l, k.lobby)
  PROVE  ClicksFollowTheMessage' /\ \A l \in Lobbies : Progress(l)'
<1> DEFINE at == k.lobby
<1>1. at \in Lobbies /\ phase[at] \notin {"none", "sending"} /\ PartyTypeOK
  BY DEF ProgressInv, PartyTypeOK, Click, ClicksFollowTheMessage
<1>2. \A l \in Lobbies :
        /\ \/ phase'[l] = phase[l]
           \/ l = at /\ phase[l] \in {"open", "ended"} /\ phase'[l] \in {"ended", "deleting"}
        /\ usersWhoConfirmed'[l] = IF l = at THEN members ELSE usersWhoConfirmed[l]
        /\ clicks' \subseteq clicks
  BY <1>1, SettlesPhase
<1>3. ClicksFollowTheMessage'
  <2>1. \A j \in clicks : j.lobby \in Lobbies
    BY <1>1 DEF PartyTypeOK, Click
  <2> QED
    BY <1>1, <1>2, <2>1 DEF ProgressInv, ClicksFollowTheMessage
<1>4. ASSUME NEW l \in Lobbies PROVE Progress(l)'
  <2>1. promise[l] \in {"pending", "resolved", "rejected"} /\ Progress(l)
    BY <1>1 DEF ProgressInv, PartyTypeOK
  <2>2. KeepsPromise(l, at)
    OBVIOUS
  <2>3. leader[at] \in members
    OBVIOUS
  <2> HIDE DEF at
  <2> QED
    BY <1>1, <1>2, <2>1, <2>2, <2>3 DEF Progress, KeepsPromise
<1> QED
  BY <1>3, <1>4

LEMMA ClickProgress ==
  ASSUME ProgressInv, NEW k \in clicks, ClickStep(k)
  PROVE  ClicksFollowTheMessage' /\ \A l \in Lobbies : Progress(l)'
<1>1. k.lobby \in Lobbies /\ phase[k.lobby] \notin {"none", "sending"} /\ PartyTypeOK
  BY DEF ProgressInv, PartyTypeOK, Click, ClicksFollowTheMessage
<1>2. leader[k.lobby] \in usersWhoConfirmed[k.lobby]
  BY <1>1 DEF ProgressInv, Progress
<1>3. CASE FilterDenies(k)
  BY <1>3 DEF FilterDenies, collectorVars, ProgressInv, Progress, ClicksFollowTheMessage
<1>4. CASE JoinPassesBusy(k)
  BY <1>1, <1>4 DEF JoinPassesBusy, collectorVars, ProgressInv, Progress, ClicksFollowTheMessage, PartyTypeOK, Click
<1>5. CASE JoinRefused(k) \/ Refused(k)
  <2>1. /\ Settles(k, usersWhoConfirmed[k.lobby], partyLockCache, FALSE, "ended")
        /\ UNCHANGED <<late, leader, partyCancelled, promise, fetched>>
    BY <1>5 DEF JoinRefused, Refused, OnlyReplies, collectorVars
  <2>2. \A l \in Lobbies : KeepsPromise(l, k.lobby)
    BY <2>1 DEF KeepsPromise
  <2> QED
    BY <1>2, <2>1, <2>2, SettlesProgress
<1>6. CASE JoinHandled(k)
  <2> DEFINE members == usersWhoConfirmed[k.lobby] \cup {k.user}
  <2>1. /\ Settles(k, members, partyLockCache \cup {k.user}, IsFull(members), "ended")
        /\ late' = [late EXCEPT ![k.lobby] = IF Collecting(k.lobby) THEN @ ELSE @ \cup {k.user}]
        /\ UNCHANGED <<leader, partyCancelled, promise, fetched>>
    BY <1>6 DEF JoinHandled, collectorVars
  <2>2. \A l \in Lobbies : KeepsPromise(l, k.lobby)
    BY <1>1, <2>1 DEF KeepsPromise, Collecting, PartyTypeOK
  <2>3. leader[k.lobby] \in members
    BY <1>2
  <2> HIDE DEF members
  <2> QED
    BY <2>1, <2>2, <2>3, SettlesProgress
<1>7. CASE LeaveHandled(k)
  <2> DEFINE members == usersWhoConfirmed[k.lobby] \ {k.user}
  <2>1. /\ Settles(k, members, partyLockCache \ {k.user}, FALSE, "ended")
        /\ UNCHANGED <<late, leader, partyCancelled, promise, fetched>>
    BY <1>7 DEF LeaveHandled, collectorVars
  <2>2. \A l \in Lobbies : KeepsPromise(l, k.lobby)
    BY <2>1 DEF KeepsPromise
  <2>3. leader[k.lobby] \in members
    BY <1>2, <1>7 DEF LeaveHandled, Guests
  <2> HIDE DEF members
  <2> QED
    BY <2>1, <2>2, <2>3, SettlesProgress
<1>8. CASE CancelHandled(k)
  <2>1. /\ Settles(k, usersWhoConfirmed[k.lobby], partyLockCache, TRUE, "ended")
        /\ UNCHANGED <<leader, fetched, late>>
    BY <1>8 DEF CancelHandled
  <2>2. \A l \in Lobbies : KeepsPromise(l, k.lobby)
    BY <1>1, <1>8 DEF CancelHandled, Answer, PartyTypeOK, KeepsPromise
  <2> QED
    BY <1>2, <2>1, <2>2, SettlesProgress
<1>9. CASE StartHandled(k)
  <2>1. /\ Settles(k, usersWhoConfirmed[k.lobby], partyLockCache, TRUE, "deleting")
        /\ UNCHANGED <<late, leader, partyCancelled, promise, fetched>>
    BY <1>9 DEF StartHandled, collectorVars
  <2>2. \A l \in Lobbies : KeepsPromise(l, k.lobby)
    BY <2>1 DEF KeepsPromise
  <2> QED
    BY <1>2, <2>1, <2>2, SettlesProgress
<1> QED
  BY <1>3, <1>4, <1>5, <1>6, <1>7, <1>8, <1>9 DEF ClickStep

LEMMA MembersAreCounted ==
  ASSUME PartyTypeOK, NEW S \in SUBSET Users
  PROVE  IsFiniteSet(S) /\ Cardinality(S) \in Nat
BY PartyAssumption, FS_Subset, FS_CardinalityType

LEMMA CollectorProgress ==
  ASSUME ProgressInv, NEW l \in Lobbies, CollectorStep(l)
  PROVE  ClicksFollowTheMessage' /\ \A m \in Lobbies : Progress(m)'
<1> USE DEF ProgressInv, PartyTypeOK, clickVars, collectorVars
<1>a. \A k \in clicks : k.lobby \in Lobbies
  BY DEF Click
<1>1. CASE TimesUp(l)
  BY <1>1, <1>a DEF TimesUp, Collecting, Progress, ClicksFollowTheMessage
<1>2. CASE TimerFires(l) \/ FetchFails(l)
  BY <1>2, <1>a DEF TimerFires, FetchFails, Progress, ClicksFollowTheMessage
<1>3. CASE DeletedWithFew(l) \/ Fetched(l)
  BY <1>3, <1>a DEF DeletedWithFew, Fetched, Answer, Progress, ClicksFollowTheMessage
<1>4. CASE DeletedAndReads(l)
  <2>1. usersWhoConfirmed[l] \in SUBSET Users
    OBVIOUS
  <2>2. Cardinality(usersWhoConfirmed[l]) \in Nat /\ MinSize \in Nat
    BY <2>1, MembersAreCounted, PartyAssumption
  <2>3. promise[l] = "pending" => Cardinality(usersWhoConfirmed[l]) >= MinSize
    BY <1>4, <2>2 DEF DeletedAndReads, TooFew, Progress
  <2>4. usersWhoConfirmed[l] # {}
    BY <1>4 DEF DeletedAndReads, Progress
  <2> QED
    BY <1>4, <1>a, <2>3, <2>4 DEF DeletedAndReads, Progress, ClicksFollowTheMessage
<1> QED
  BY <1>1, <1>2, <1>3, <1>4 DEF CollectorStep

LEMMA CommandProgress ==
  ASSUME ProgressInv, NEW l \in Lobbies, CommandStep(l)
  PROVE  ClicksFollowTheMessage' /\ \A m \in Lobbies : Progress(m)'
<1> USE DEF ProgressInv, PartyTypeOK, clickVars, collectorVars
<1>a. \A k \in clicks : k.lobby \in Lobbies
  BY DEF Click
<1>1. CASE MessageSent(l)
  BY <1>1, <1>a DEF MessageSent, Progress, ClicksFollowTheMessage
<1>2. CASE SendingFails(l)
  BY <1>2, <1>a DEF SendingFails, Progress, ClicksFollowTheMessage
<1>3. CASE TakesAlong(l) \/ TripRefused(l) \/ TripDeparts(l)
  BY <1>3 DEF TakesAlong, TripRefused, TripDeparts, Progress, ClicksFollowTheMessage
<1>4. ASSUME NEW u \in Hosts[l], SetsUp(l, u)
      PROVE  ClicksFollowTheMessage' /\ \A m \in Lobbies : Progress(m)'
  BY <1>4, <1>a DEF SetsUp, Progress, ClicksFollowTheMessage
<1> QED
  BY <1>1, <1>2, <1>3, <1>4 DEF CommandStep

LEMMA NextProgress ==
  ASSUME ProgressInv, [PartyNext]_partyVars
  PROVE  ProgressInv'
<1>1. PartyTypeOK'
  BY NextType DEF ProgressInv
<1> USE DEF clickVars, collectorVars
<1>2. CASE LocksClear
  BY <1>1, <1>2 DEF LocksClear, ProgressInv, Progress, ClicksFollowTheMessage
<1>3. ASSUME NEW l \in Lobbies, NEW u \in Users, NEW b \in Buttons, ClickArrives(l, u, b)
      PROVE  ProgressInv'
  BY <1>1, <1>3 DEF ClickArrives, Collecting, ProgressInv, Progress, ClicksFollowTheMessage
<1>4. CASE UNCHANGED partyVars
  BY <1>1, <1>4 DEF partyVars, ProgressInv, Progress, ClicksFollowTheMessage
<1> QED
  BY <1>1, <1>2, <1>3, <1>4, ClickProgress, CollectorProgress, CommandProgress DEF PartyNext, ProgressInv

THEOREM ProgressCorrect == PartySpec => []ProgressInv
<1>1. PartyInit => ProgressInv
  BY PartyAssumption
  DEF PartyInit, ProgressInv, Progress, ClicksFollowTheMessage, PartyTypeOK, PartyPhases, TripPhases
<1>2. ProgressInv /\ [PartyNext]_partyVars => ProgressInv'
  BY NextProgress
<1> QED
  BY <1>1, <1>2, PTL DEF PartySpec

-----------------------------------------------------------------------------
(* The lobby implements the gathering.  In each of the next lemmas, what   *)
(* holds lobby by lobby makes a step of Gathering.                         *)

Elsewhere(l) == \A m \in Lobbies \ {l} : Party(m)' = Party(m) /\ Outcome(m)' = Outcome(m)

LEMMA Stutters ==
  ASSUME leader' = leader, \A m \in Lobbies : Party(m)' = Party(m) /\ Outcome(m)' = Outcome(m)
  PROVE  UNCHANGED G!gatheringVars
BY DEF G!gatheringVars

LEMMA StepJoins ==
  ASSUME NEW l \in Lobbies, NEW u \in Users, leader' = leader, Elsewhere(l),
         Outcome(l) = "gathering", Outcome(l)' = "gathering", Party(l)' = Party(l) \cup {u}
  PROVE  G!GatheringNext
<1>1. G!Joins(l, u)
  BY DEF G!Joins, Elsewhere
<1> QED
  BY <1>1 DEF G!GatheringNext

LEMMA StepLeaves ==
  ASSUME NEW l \in Lobbies, NEW u \in Users, leader' = leader, Elsewhere(l), u # leader[l],
         Outcome(l) = "gathering", Outcome(l)' = "gathering", Party(l)' = Party(l) \ {u}
  PROVE  G!GatheringNext
<1>1. G!Leaves(l, u)
  BY DEF G!Leaves, Elsewhere
<1> QED
  BY <1>1 DEF G!GatheringNext

LEMMA StepCalledOff ==
  ASSUME NEW l \in Lobbies, leader' = leader, Elsewhere(l),
         Outcome(l) = "gathering", Outcome(l)' = "off", Party(l)' = {}
  PROVE  G!GatheringNext
<1>1. G!CalledOff(l)
  BY DEF G!CalledOff, Elsewhere
<1> QED
  BY <1>1 DEF G!GatheringNext

LEMMA StepDeparts ==
  ASSUME NEW l \in Lobbies, leader' = leader, Elsewhere(l),
         Outcome(l) = "gathering", Outcome(l)' = "departed", Party(l)' = Party(l),
         Cardinality(Party(l)) >= MinSize
  PROVE  G!GatheringNext
<1>1. \A m \in Lobbies : Party(m)' = Party(m)
  BY DEF Elsewhere
<1>2. [m \in Lobbies |-> Party(m)]' = [m \in Lobbies |-> Party(m)]
  BY <1>1
<1>3. G!Cardinality([m \in Lobbies |-> Party(m)][l]) >= MinSize
  BY DEF G!Cardinality, Cardinality
<1>4. [m \in Lobbies |-> Outcome(m)]' = [[m \in Lobbies |-> Outcome(m)] EXCEPT ![l] = "departed"]
  BY DEF Elsewhere
<1>5. G!DepartsTogether(l)
  BY <1>2, <1>3, <1>4 DEF G!DepartsTogether
<1> QED
  BY <1>5 DEF G!GatheringNext

(* A handled click that leaves the promise alone: at most the members who  *)
(* have not been read change.                                              *)
LEMMA SettlesStep ==
  ASSUME ProgressInv,
         NEW k \in clicks, NEW members, NEW locks, NEW stops, NEW next \in {"ended", "deleting"},
         Settles(k, members, locks, stops, next),
         leader' = leader, fetched' = fetched, promise' = promise
  PROVE  /\ Elsewhere(k.lobby)
         /\ Outcome(k.lobby)' = Outcome(k.lobby)
         /\ \/ Party(k.lobby)' = Party(k.lobby)
            \/ /\ Outcome(k.lobby) = "gathering"
               /\ Party(k.lobby) = usersWhoConfirmed[k.lobby]
               /\ Party(k.lobby)' = members
<1> DEFINE at == k.lobby
<1>1. at \in Lobbies /\ phase[at] \notin {"none", "sending"} /\ PartyTypeOK
  BY DEF ProgressInv, PartyTypeOK, Click, ClicksFollowTheMessage
<1>2. ASSUME NEW l \in Lobbies
      PROVE  /\ \/ phase'[l] = phase[l]
                \/ l = at /\ phase[l] \in {"open", "ended"} /\ phase'[l] \in {"ended", "deleting"}
             /\ usersWhoConfirmed'[l] = IF l = at THEN members ELSE usersWhoConfirmed[l]
  BY <1>1, SettlesPhase
<1>3. Elsewhere(at)
  BY <1>2 DEF Elsewhere, Party, Outcome
<1>4. promise[at] \in {"pending", "resolved", "rejected"} /\ Progress(at)
  BY <1>1 DEF ProgressInv, PartyTypeOK
<1>5. Outcome(at)' = Outcome(at)
  BY <1>1, <1>2 DEF Outcome
<1>6. \/ Party(at)' = Party(at)
      \/ /\ Outcome(at) = "gathering"
         /\ Party(at) = usersWhoConfirmed[at]
         /\ Party(at)' = members
  BY <1>1, <1>2, <1>4 DEF Party, Outcome, Progress
<1> QED
  BY <1>3, <1>5, <1>6

LEMMA ClickGathers ==
  ASSUME ProgressInv, NEW k \in clicks, ClickStep(k)
  PROVE  [G!GatheringNext]_(G!gatheringVars)
<1>1. k.lobby \in Lobbies /\ k.user \in Users /\ phase[k.lobby] \notin {"none", "sending"} /\ PartyTypeOK
  BY DEF ProgressInv, PartyTypeOK, Click, ClicksFollowTheMessage
<1>2. CASE FilterDenies(k) \/ JoinPassesBusy(k)
  <2>1. UNCHANGED <<leader, phase, usersWhoConfirmed, promise, fetched>>
    BY <1>2 DEF FilterDenies, JoinPassesBusy, collectorVars
  <2> QED
    BY <2>1, Stutters DEF Party, Outcome
<1>3. CASE JoinRefused(k) \/ Refused(k) \/ StartHandled(k)
  <2>1. \E next \in {"ended", "deleting"}, stops \in BOOLEAN :
          Settles(k, usersWhoConfirmed[k.lobby], partyLockCache, stops, next)
    BY <1>3 DEF JoinRefused, Refused, OnlyReplies, StartHandled
  <2>2. leader' = leader /\ fetched' = fetched /\ promise' = promise
    BY <1>3 DEF JoinRefused, Refused, OnlyReplies, StartHandled, collectorVars
  <2>3. Elsewhere(k.lobby) /\ Outcome(k.lobby)' = Outcome(k.lobby) /\ Party(k.lobby)' = Party(k.lobby)
    BY <2>1, <2>2, SettlesStep
  <2> QED
    BY <2>2, <2>3, Stutters DEF Elsewhere
<1>4. CASE JoinHandled(k)
  <2> DEFINE members == usersWhoConfirmed[k.lobby] \cup {k.user}
  <2>1. /\ Settles(k, members, partyLockCache \cup {k.user}, IsFull(members), "ended")
        /\ leader' = leader /\ fetched' = fetched /\ promise' = promise
    BY <1>4 DEF JoinHandled, collectorVars
  <2> HIDE DEF members
  <2>2. /\ Elsewhere(k.lobby)
        /\ Outcome(k.lobby)' = Outcome(k.lobby)
        /\ \/ Party(k.lobby)' = Party(k.lobby)
           \/ /\ Outcome(k.lobby) = "gathering"
              /\ Party(k.lobby) = usersWhoConfirmed[k.lobby]
              /\ Party(k.lobby)' = members
    BY <2>1, SettlesStep
  <2>3. CASE Party(k.lobby)' = Party(k.lobby)
    BY <2>1, <2>2, <2>3, Stutters DEF Elsewhere
  <2>4. CASE Outcome(k.lobby) = "gathering" /\ Party(k.lobby)' = Party(k.lobby) \cup {k.user}
    BY <1>1, <2>1, <2>2, <2>4, StepJoins
  <2> QED
    BY <2>2, <2>3, <2>4 DEF members
<1>5. CASE LeaveHandled(k)
  <2> DEFINE members == usersWhoConfirmed[k.lobby] \ {k.user}
  <2>1. /\ Settles(k, members, partyLockCache \ {k.user}, FALSE, "ended")
        /\ leader' = leader /\ fetched' = fetched /\ promise' = promise
        /\ k.user # leader[k.lobby]
    BY <1>5 DEF LeaveHandled, Guests, collectorVars
  <2> HIDE DEF members
  <2>2. /\ Elsewhere(k.lobby)
        /\ Outcome(k.lobby)' = Outcome(k.lobby)
        /\ \/ Party(k.lobby)' = Party(k.lobby)
           \/ /\ Outcome(k.lobby) = "gathering"
              /\ Party(k.lobby) = usersWhoConfirmed[k.lobby]
              /\ Party(k.lobby)' = members
    BY <2>1, SettlesStep
  <2>3. CASE Party(k.lobby)' = Party(k.lobby)
    BY <2>1, <2>2, <2>3, Stutters DEF Elsewhere
  <2>4. CASE Outcome(k.lobby) = "gathering" /\ Party(k.lobby)' = Party(k.lobby) \ {k.user}
    BY <1>1, <2>1, <2>2, <2>4, StepLeaves
  <2> QED
    BY <2>2, <2>3, <2>4 DEF members
<1>6. CASE CancelHandled(k)
  <2>1. /\ Settles(k, usersWhoConfirmed[k.lobby], partyLockCache, TRUE, "ended")
        /\ leader' = leader /\ fetched' = fetched
    BY <1>6 DEF CancelHandled
  <2>2. ASSUME NEW l \in Lobbies
        PROVE  /\ \/ phase'[l] = phase[l]
                  \/ phase[l] \in {"open", "ended"} /\ phase'[l] \in {"ended", "deleting"}
               /\ usersWhoConfirmed'[l] = usersWhoConfirmed[l]
               /\ promise'[l] = IF l = k.lobby /\ promise[l] = "pending" THEN "rejected" ELSE promise[l]
    <3>1. /\ \/ phase'[l] = phase[l]
             \/ l = k.lobby /\ phase[l] \in {"open", "ended"} /\ phase'[l] \in {"ended", "deleting"}
          /\ usersWhoConfirmed'[l] = IF l = k.lobby THEN usersWhoConfirmed[k.lobby] ELSE usersWhoConfirmed[l]
      BY <1>1, <2>1, SettlesPhase
    <3>2. promise'[l] = IF l = k.lobby /\ promise[l] = "pending" THEN "rejected" ELSE promise[l]
      BY <1>1, <1>6 DEF CancelHandled, Answer, PartyTypeOK
    <3> QED
      BY <3>1, <3>2
  <2>3. Elsewhere(k.lobby)
    BY <1>1, <2>1, <2>2 DEF Elsewhere, Party, Outcome
  <2>4. CASE promise[k.lobby] = "pending"
    <3>1. Outcome(k.lobby) = "gathering" /\ Outcome(k.lobby)' = "off" /\ Party(k.lobby)' = {}
      BY <1>1, <2>1, <2>2, <2>4 DEF Outcome, Party
    <3> QED
      BY <1>1, <2>1, <2>3, <3>1, StepCalledOff
  <2>5. CASE promise[k.lobby] # "pending"
    <3>1. Outcome(k.lobby)' = Outcome(k.lobby) /\ Party(k.lobby)' = Party(k.lobby)
      BY <1>1, <2>1, <2>2, <2>5 DEF Outcome, Party
    <3> QED
      BY <2>1, <2>3, <3>1, Stutters DEF Elsewhere
  <2> QED
    BY <2>4, <2>5
<1> QED
  BY <1>2, <1>3, <1>4, <1>5, <1>6 DEF ClickStep

LEMMA CollectorGathers ==
  ASSUME ProgressInv, NEW l \in Lobbies, CollectorStep(l)
  PROVE  [G!GatheringNext]_(G!gatheringVars)
<1>1. PartyTypeOK /\ Progress(l)
  BY DEF ProgressInv
<1>2. CASE TimesUp(l) \/ TimerFires(l) \/ FetchFails(l)
  <2>1. UNCHANGED <<leader, promise, fetched, usersWhoConfirmed>>
    BY <1>2 DEF TimesUp, TimerFires, FetchFails, collectorVars
  <2>2. \A m \in Lobbies : phase'[m] = "none" <=> phase[m] = "none"
    BY <1>1, <1>2 DEF TimesUp, TimerFires, FetchFails, Collecting, PartyTypeOK
  <2> QED
    BY <2>1, <2>2, Stutters DEF Party, Outcome
<1>3. CASE DeletedWithFew(l)
  <2>1. UNCHANGED <<leader, fetched, usersWhoConfirmed>> /\ phase[l] = "deleting"
    BY <1>3 DEF DeletedWithFew
  <2>2. ASSUME NEW m \in Lobbies
        PROVE  /\ phase'[m] = "none" <=> phase[m] = "none"
               /\ promise'[m] = IF m = l /\ promise[m] = "pending" THEN "rejected" ELSE promise[m]
    BY <1>1, <1>3 DEF DeletedWithFew, Answer, PartyTypeOK
  <2>3. Elsewhere(l)
    BY <2>1, <2>2 DEF Elsewhere, Party, Outcome
  <2>4. CASE promise[l] = "pending"
    <3>1. Outcome(l) = "gathering" /\ Outcome(l)' = "off" /\ Party(l)' = {}
      BY <2>1, <2>2, <2>4 DEF Outcome, Party
    <3> QED
      BY <2>1, <2>3, <3>1, StepCalledOff
  <2>5. CASE promise[l] # "pending"
    BY <2>1, <2>2, <2>5, Stutters DEF Outcome, Party
  <2> QED
    BY <2>4, <2>5
<1>4. CASE DeletedAndReads(l)
  <2>1. UNCHANGED <<leader, promise, usersWhoConfirmed>> /\ fetched[l] = {}
    BY <1>1, <1>4 DEF DeletedAndReads, Progress
  <2>2. ASSUME NEW m \in Lobbies
        PROVE  /\ phase'[m] = "none" <=> phase[m] = "none"
               /\ fetched'[m] = IF m = l THEN usersWhoConfirmed[l] ELSE fetched[m]
    BY <1>1, <1>4 DEF DeletedAndReads, PartyTypeOK
  <2> QED
    BY <2>1, <2>2, Stutters DEF Party, Outcome
<1>5. CASE Fetched(l)
  <2>1. UNCHANGED <<leader, fetched, usersWhoConfirmed>> /\ phase[l] = "fetching" /\ fetched[l] # {}
    BY <1>1, <1>5 DEF Fetched, Progress
  <2>2. ASSUME NEW m \in Lobbies
        PROVE  /\ phase'[m] = "none" <=> phase[m] = "none"
               /\ promise'[m] = IF m = l /\ promise[m] = "pending" THEN "resolved" ELSE promise[m]
    BY <1>1, <1>5 DEF Fetched, Answer, PartyTypeOK
  <2>3. Elsewhere(l)
    BY <2>1, <2>2 DEF Elsewhere, Party, Outcome
  <2>4. CASE promise[l] = "pending"
    <3>1. Outcome(l) = "gathering" /\ Outcome(l)' = "departed" /\ Party(l)' = Party(l)
      BY <2>1, <2>2, <2>4 DEF Outcome, Party
    <3>2. Cardinality(Party(l)) >= MinSize
      BY <1>1, <2>1, <2>4 DEF Party, Progress
    <3> QED
      BY <2>1, <2>3, <3>1, <3>2, StepDeparts
  <2>5. CASE promise[l] # "pending"
    BY <2>1, <2>2, <2>5, Stutters DEF Outcome, Party
  <2> QED
    BY <2>4, <2>5
<1> QED
  BY <1>2, <1>3, <1>4, <1>5 DEF CollectorStep

LEMMA CommandGathers ==
  ASSUME ProgressInv, NEW l \in Lobbies, CommandStep(l)
  PROVE  [G!GatheringNext]_(G!gatheringVars)
<1>1. PartyTypeOK /\ Progress(l)
  BY DEF ProgressInv
<1>2. CASE MessageSent(l)
  <2>1. UNCHANGED <<leader, promise, fetched, usersWhoConfirmed>>
    BY <1>2 DEF MessageSent, collectorVars
  <2>2. \A m \in Lobbies : phase'[m] = "none" <=> phase[m] = "none"
    BY <1>1, <1>2 DEF MessageSent, PartyTypeOK
  <2> QED
    BY <2>1, <2>2, Stutters DEF Party, Outcome
<1>3. CASE SendingFails(l)
  <2>1. UNCHANGED <<leader, fetched, usersWhoConfirmed>> /\ phase[l] = "sending" /\ promise[l] = "pending"
    BY <1>1, <1>3 DEF SendingFails, Progress
  <2>2. ASSUME NEW m \in Lobbies
        PROVE  /\ phase'[m] = "none" <=> phase[m] = "none"
               /\ promise'[m] = IF m = l THEN "rejected" ELSE promise[m]
    BY <1>1, <1>3 DEF SendingFails, PartyTypeOK
  <2>3. Elsewhere(l)
    BY <2>1, <2>2 DEF Elsewhere, Party, Outcome
  <2>4. Outcome(l) = "gathering" /\ Outcome(l)' = "off" /\ Party(l)' = {}
    BY <2>1, <2>2 DEF Outcome, Party
  <2> QED
    BY <2>1, <2>3, <2>4, StepCalledOff
<1>4. CASE TakesAlong(l) \/ TripRefused(l) \/ TripDeparts(l)
  <2>1. UNCHANGED <<leader, phase, promise, fetched, usersWhoConfirmed>>
    BY <1>4 DEF TakesAlong, TripRefused, TripDeparts, collectorVars
  <2> QED
    BY <2>1, Stutters DEF Party, Outcome
<1>5. ASSUME NEW u \in Hosts[l], SetsUp(l, u) PROVE G!GatheringNext
  <2>1. phase[l] = "none" /\ promise[l] = "pending" /\ fetched[l] = {} /\ u \in Users
    BY <1>1, <1>5, PartyAssumption DEF SetsUp, Progress
  <2>2. promise' = promise /\ fetched' = fetched /\ leader' = [leader EXCEPT ![l] = u]
    BY <1>5 DEF SetsUp
  <2>3. ASSUME NEW m \in Lobbies
        PROVE  /\ phase'[m] = IF m = l THEN "sending" ELSE phase[m]
               /\ usersWhoConfirmed'[m] = IF m = l THEN {u} ELSE usersWhoConfirmed[m]
    BY <1>1, <1>5 DEF SetsUp, PartyTypeOK
  <2>4. Elsewhere(l)
    BY <2>2, <2>3 DEF Elsewhere, Party, Outcome
  <2>5. Outcome(l) = "none" /\ Outcome(l)' = "gathering" /\ Party(l)' = {u}
    BY <2>1, <2>2, <2>3 DEF Party, Outcome
  <2>6. G!Gathers(l, u)
    BY <2>2, <2>4, <2>5 DEF G!Gathers, Elsewhere
  <2> QED
    BY <2>1, <2>6 DEF G!GatheringNext
<1> QED
  BY <1>2, <1>3, <1>4, <1>5 DEF CommandStep

(* A party is a gathering: every step of a lobby is one of Gathering, or a *)
(* stutter (party.ts:79-237).                                              *)
THEOREM PartiesImplementGathering == PartySpec => ImplementsGathering
<1>1. PartyInit => G!GatheringInit
  BY DEF PartyInit, G!GatheringInit, Party, Outcome
<1>2. ProgressInv /\ [PartyNext]_partyVars => [G!GatheringNext]_(G!gatheringVars)
  <2> SUFFICES ASSUME ProgressInv, [PartyNext]_partyVars PROVE [G!GatheringNext]_(G!gatheringVars)
    OBVIOUS
  <2>1. CASE LocksClear
    BY <2>1, Stutters DEF LocksClear, collectorVars, Party, Outcome
  <2>2. ASSUME NEW l \in Lobbies, NEW u \in Users, NEW b \in Buttons, ClickArrives(l, u, b)
        PROVE  UNCHANGED G!gatheringVars
    BY <2>2, Stutters DEF ClickArrives, collectorVars, Party, Outcome
  <2>3. CASE UNCHANGED partyVars
    BY <2>3, Stutters DEF partyVars, collectorVars, Party, Outcome
  <2> QED
    BY <2>1, <2>2, <2>3, ClickGathers, CollectorGathers, CommandGathers DEF PartyNext
<1> QED
  BY <1>1, <1>2, ProgressCorrect, PTL DEF PartySpec, ImplementsGathering, G!GatheringSpec

-----------------------------------------------------------------------------
(* The locks.                                                              *)
GuestsAreLocked ==
  \A l \in Lobbies : Collecting(l) => Guests(l) \subseteq partyLockCache \cup unlocked

LockInv == GuestsAreLocked /\ OneParty /\ LocksAreReleased

(* What a handled click does to the locks: who joins had none and gets     *)
(* one, who leaves gives his back, and nobody else gets one.               *)
LocksFollow(l, members, locks) ==
  LET joined == members \ usersWhoConfirmed[l]
  IN /\ joined \cap partyLockCache = {} /\ joined \subseteq locks
     /\ locks \subseteq partyLockCache \cup joined
     /\ locks \cap (usersWhoConfirmed[l] \ members) = {}
     /\ \A m \in Lobbies :
          late'[m] = IF m # l \/ Collecting(m) THEN late[m] ELSE late[m] \cup joined

LEMMA SettlesLocks ==
  ASSUME ProgressInv, LockInv,
         NEW k \in clicks, NEW members, NEW locks, NEW stops, NEW next \in {"ended", "deleting"},
         Settles(k, members, locks, stops, next),
         leader' = leader,
         LocksFollow(k.lobby, members, locks)
  PROVE  LockInv'
<1> DEFINE at == k.lobby
<1>1. at \in Lobbies /\ phase[at] \notin {"none", "sending"} /\ PartyTypeOK /\ Progress(at)
  BY DEF ProgressInv, PartyTypeOK, Click, ClicksFollowTheMessage
<1>2. leader[at] \in usersWhoConfirmed[at]
  BY <1>1 DEF Progress
<1>3. PICK ends \in BOOLEAN :
        /\ ends => Collecting(at)
        /\ partyLockCache' = IF ends THEN locks \ members ELSE locks
        /\ phase' = [phase EXCEPT ![at] = IF ends \/ @ = "ended" THEN next ELSE @]
  BY DEF Settles, Unlocks
<1>4. \A l \in Lobbies : phase'[l] = "open" <=> (phase[l] = "open" /\ ~(l = at /\ ends))
  BY <1>1, <1>3 DEF PartyTypeOK, Collecting
<1>5. \A l \in Lobbies : usersWhoConfirmed'[l] = IF l = at THEN members ELSE usersWhoConfirmed[l]
  BY <1>1, SettlesPhase
<1>6. ASSUME NEW u, NEW l \in Lobbies, phase'[l] = "open", u \in usersWhoConfirmed'[l] \ {leader[l]},
             u \in unlocked \/ u \in partyLockCache \ partyLockCache'
      PROVE  u \in unlocked'
  BY <1>6 DEF Settles, MarksUnlocked
<1>0. PICK joined :
        /\ joined = members \ usersWhoConfirmed[at]
        /\ joined \cap partyLockCache = {} /\ joined \subseteq locks
        /\ locks \subseteq partyLockCache \cup joined
        /\ locks \cap (usersWhoConfirmed[at] \ members) = {}
        /\ \A l \in Lobbies :
             late'[l] = IF l # at \/ Collecting(l) THEN late[l] ELSE late[l] \cup joined
  BY DEF LocksFollow
<1> HIDE DEF at
<1>7. GuestsAreLocked'
  <2> SUFFICES ASSUME NEW l \in Lobbies, Collecting(l)', NEW u \in Guests(l)'
               PROVE  u \in partyLockCache' \cup unlocked'
    BY DEF GuestsAreLocked
  <2>1. phase'[l] = "open" /\ phase[l] = "open" /\ ~(l = at /\ ends) /\ u \in usersWhoConfirmed'[l] \ {leader[l]}
    BY <1>4 DEF Collecting, Guests
  <2>2. CASE u \in usersWhoConfirmed[l]
    <3>1. u \in partyLockCache \/ u \in unlocked
      BY <2>1, <2>2 DEF LockInv, GuestsAreLocked, Collecting, Guests
    <3> QED
      BY <1>6, <2>1, <3>1
  <2>3. CASE u \notin usersWhoConfirmed[l]
    <3>1. l = at /\ u \in joined
      BY <1>0, <1>5, <2>1, <2>3
    <3> QED
      BY <1>0, <1>3, <2>1, <3>1
  <2> QED
    BY <2>2, <2>3
<1>8. OneParty'
  <2> SUFFICES ASSUME NEW l \in Lobbies, NEW m \in Lobbies, l # m,
                      Collecting(l)', Collecting(m)', NEW u \in Guests(l)' \cap Guests(m)'
               PROVE  u \in unlocked'
    BY DEF OneParty
  <2>1. /\ phase'[l] = "open" /\ phase[l] = "open" /\ u \in usersWhoConfirmed'[l] \ {leader[l]}
        /\ phase'[m] = "open" /\ phase[m] = "open" /\ u \in usersWhoConfirmed'[m] \ {leader[m]}
    BY <1>4 DEF Collecting, Guests
  <2>2. CASE u \in usersWhoConfirmed[l] /\ u \in usersWhoConfirmed[m]
    <3>1. u \in unlocked
      BY <2>1, <2>2 DEF LockInv, OneParty, Collecting, Guests
    <3> QED
      BY <1>6, <2>1, <3>1
  <2>3. CASE ~(u \in usersWhoConfirmed[l] /\ u \in usersWhoConfirmed[m])
    <3>1. u \in joined /\ \E n \in {l, m} : n # at /\ u \in usersWhoConfirmed[n]
      BY <1>0, <1>5, <2>1, <2>3
    <3>2. u \in unlocked
      BY <1>0, <2>1, <3>1 DEF LockInv, GuestsAreLocked, Collecting, Guests
    <3> QED
      BY <1>6, <2>1, <3>2
  <2> QED
    BY <2>2, <2>3
<1>9. LocksAreReleased'
  <2> SUFFICES ASSUME NEW u \in partyLockCache'
               PROVE  \E l \in Lobbies : u \in (IF Collecting(l)' THEN Guests(l)' ELSE late'[l])
    BY DEF LocksAreReleased
  <2>1. u \in locks /\ (ends => u \notin members)
    BY <1>3
  <2>2. CASE u \in joined
    <3>1. u \in members /\ u # leader[at] /\ ~ends
      BY <1>0, <1>2, <2>1, <2>2
    <3>2. CASE Collecting(at)
      BY <1>1, <1>4, <1>5, <3>1, <3>2 DEF Collecting, Guests
    <3>3. CASE ~Collecting(at)
      BY <1>0, <1>1, <1>4, <2>2, <3>3 DEF Collecting
    <3> QED
      BY <3>2, <3>3
  <2>3. CASE u \notin joined
    <3>1. PICK l \in Lobbies : u \in (IF Collecting(l) THEN Guests(l) ELSE late[l])
      BY <1>0, <2>1, <2>3 DEF LockInv, LocksAreReleased
    <3>2. CASE Collecting(l)
      <4>1. u \in usersWhoConfirmed[l] \ {leader[l]}
        BY <3>1, <3>2 DEF Guests
      <4>2. u \in usersWhoConfirmed'[l]
        BY <1>0, <1>5, <2>1, <4>1
      <4>3. ~(l = at /\ ends)
        BY <1>5, <2>1, <4>2
      <4> QED
        BY <1>4, <3>2, <4>1, <4>2, <4>3 DEF Collecting, Guests
    <3>3. CASE ~Collecting(l)
      BY <1>0, <1>4, <3>1, <3>3 DEF Collecting
    <3> QED
      BY <3>2, <3>3
  <2> QED
    BY <2>2, <2>3
<1> QED
  BY <1>7, <1>8, <1>9 DEF LockInv

LEMMA ClickLocks ==
  ASSUME ProgressInv, LockInv, NEW k \in clicks, ClickStep(k)
  PROVE  LockInv'
<1> DEFINE at == k.lobby
<1>1. at \in Lobbies /\ PartyTypeOK
  BY DEF ProgressInv, PartyTypeOK, Click
<1>2. CASE FilterDenies(k) \/ JoinPassesBusy(k)
  BY <1>2 DEF FilterDenies, JoinPassesBusy, collectorVars,
              LockInv, GuestsAreLocked, OneParty, LocksAreReleased, Collecting, Guests
<1>3. CASE JoinRefused(k) \/ Refused(k) \/ CancelHandled(k) \/ StartHandled(k)
  <2>1. PICK next \in {"ended", "deleting"}, stops \in BOOLEAN :
          Settles(k, usersWhoConfirmed[at], partyLockCache, stops, next)
    BY <1>3 DEF JoinRefused, Refused, OnlyReplies, CancelHandled, StartHandled
  <2>2. leader' = leader /\ late' = late
    BY <1>3 DEF JoinRefused, Refused, OnlyReplies, CancelHandled, StartHandled, collectorVars
  <2>3. LocksFollow(at, usersWhoConfirmed[at], partyLockCache)
    BY <2>2 DEF LocksFollow
  <2> QED
    BY <2>1, <2>2, <2>3, SettlesLocks
<1>4. CASE JoinHandled(k)
  <2> DEFINE members == usersWhoConfirmed[at] \cup {k.user}
             locks   == partyLockCache \cup {k.user}
             joined  == members \ usersWhoConfirmed[at]
  <2>1. /\ Settles(k, members, locks, IsFull(members), "ended")
        /\ leader' = leader
        /\ k.user \notin usersWhoConfirmed[at] /\ k.user \notin partyLockCache
        /\ late' = [late EXCEPT ![at] = IF Collecting(at) THEN @ ELSE @ \cup {k.user}]
    BY <1>4 DEF JoinHandled, MayJoin, collectorVars
  <2>2. joined = {k.user}
    BY <2>1
  <2>3. \A l \in Lobbies :
          late'[l] = IF l # at \/ Collecting(l) THEN late[l] ELSE late[l] \cup joined
    BY <1>1, <2>1, <2>2 DEF PartyTypeOK
  <2>4. LocksFollow(at, members, locks)
    BY <2>1, <2>2, <2>3 DEF LocksFollow
  <2> HIDE DEF members, locks
  <2> QED
    BY <2>1, <2>4, SettlesLocks
<1>5. CASE LeaveHandled(k)
  <2> DEFINE members == usersWhoConfirmed[at] \ {k.user}
             locks   == partyLockCache \ {k.user}
  <2>1. /\ Settles(k, members, locks, FALSE, "ended")
        /\ leader' = leader /\ late' = late
    BY <1>5 DEF LeaveHandled, collectorVars
  <2>2. LocksFollow(at, members, locks)
    BY <2>1 DEF LocksFollow
  <2> HIDE DEF members, locks
  <2> QED
    BY <2>1, <2>2, SettlesLocks
<1> QED
  BY <1>2, <1>3, <1>4, <1>5 DEF ClickStep

(* The steps that neither open nor end a party, nor touch its members.     *)
LEMMA QuietLocks ==
  ASSUME LockInv, UNCHANGED <<partyLockCache, late, unlocked>>,
         \A l \in Lobbies :
           /\ phase'[l] = "open" <=> phase[l] = "open"
           /\ phase[l] = "open" => usersWhoConfirmed'[l] = usersWhoConfirmed[l] /\ leader'[l] = leader[l]
  PROVE  LockInv'
<1>1. GuestsAreLocked' /\ OneParty'
  BY DEF LockInv, GuestsAreLocked, OneParty, Collecting, Guests
<1>2. LocksAreReleased'
  BY DEF LockInv, LocksAreReleased, Collecting, Guests
<1> QED
  BY <1>1, <1>2 DEF LockInv

LEMMA NextLocks ==
  ASSUME ProgressInv, LockInv, [PartyNext]_partyVars
  PROVE  LockInv'
<1>1. PartyTypeOK
  BY DEF ProgressInv
<1>2. CASE LocksClear
  <2>1. partyLockCache' = {} /\ UNCHANGED <<phase, usersWhoConfirmed, late, leader>>
    BY <1>2 DEF LocksClear, collectorVars
  <2>2. ASSUME NEW u, NEW l \in Lobbies, phase[l] = "open", u \in usersWhoConfirmed[l] \ {leader[l]},
               u \in unlocked \/ u \in partyLockCache
        PROVE  u \in unlocked'
    BY <1>2, <2>1, <2>2 DEF LocksClear, MarksUnlocked
  <2> QED
    BY <2>1, <2>2 DEF LockInv, GuestsAreLocked, OneParty, LocksAreReleased, Collecting, Guests
<1>3. ASSUME NEW l \in Lobbies, TimesUp(l) PROVE LockInv'
  <2>1. /\ partyLockCache' = partyLockCache \ usersWhoConfirmed[l]
        /\ UNCHANGED <<usersWhoConfirmed, late, leader>>
    BY <1>3 DEF TimesUp, Unlocks, collectorVars
  <2>2. \A m \in Lobbies : phase'[m] = "open" <=> (phase[m] = "open" /\ m # l)
    BY <1>1, <1>3 DEF TimesUp, PartyTypeOK
  <2>3. ASSUME NEW u, NEW m \in Lobbies, phase'[m] = "open", u \in usersWhoConfirmed[m] \ {leader[m]},
               u \in unlocked \/ u \in partyLockCache \ partyLockCache'
        PROVE  u \in unlocked'
    BY <1>3, <2>1, <2>3 DEF TimesUp, MarksUnlocked
  <2>4. GuestsAreLocked' /\ OneParty'
    BY <2>1, <2>2, <2>3 DEF LockInv, GuestsAreLocked, OneParty, Collecting, Guests
  <2>5. LocksAreReleased'
    BY <2>1, <2>2 DEF LockInv, LocksAreReleased, Collecting, Guests
  <2> QED
    BY <2>4, <2>5 DEF LockInv
<1>4. ASSUME NEW l \in Lobbies, TimerFires(l) \/ FetchFails(l) \/ DeletedWithFew(l) \/ DeletedAndReads(l) \/ Fetched(l)
      PROVE  LockInv'
  <2>1. UNCHANGED <<partyLockCache, late, unlocked, usersWhoConfirmed, leader>>
    BY <1>4 DEF TimerFires, FetchFails, DeletedWithFew, DeletedAndReads, Fetched, collectorVars
  <2>2. \A m \in Lobbies : phase'[m] = "open" <=> phase[m] = "open"
    BY <1>1, <1>4 DEF TimerFires, FetchFails, DeletedWithFew, DeletedAndReads, Fetched, PartyTypeOK
  <2> QED
    BY <2>1, <2>2, QuietLocks
<1>5. ASSUME NEW l \in Lobbies, MessageSent(l) PROVE LockInv'
  <2>1. UNCHANGED <<partyLockCache, late, unlocked, usersWhoConfirmed, leader>> /\ phase[l] = "sending"
    BY <1>5 DEF MessageSent, collectorVars
  <2>2. Guests(l)' = {} /\ late[l] = {}
    BY <2>1 DEF ProgressInv, Progress, Guests
  <2>3. \A m \in Lobbies : phase'[m] = "open" <=> (phase[m] = "open" \/ m = l)
    BY <1>1, <1>5 DEF MessageSent, PartyTypeOK
  <2>4. GuestsAreLocked' /\ OneParty'
    BY <2>1, <2>2, <2>3 DEF LockInv, GuestsAreLocked, OneParty, Collecting, Guests
  <2>5. LocksAreReleased'
    BY <2>1, <2>2, <2>3 DEF LockInv, LocksAreReleased, Collecting, Guests
  <2> QED
    BY <2>4, <2>5 DEF LockInv
<1>6. ASSUME NEW l \in Lobbies, SendingFails(l) \/ TakesAlong(l) \/ TripRefused(l) \/ TripDeparts(l)
      PROVE  LockInv'
  <2>1. UNCHANGED <<partyLockCache, late, unlocked, usersWhoConfirmed, leader>>
    BY <1>6 DEF SendingFails, TakesAlong, TripRefused, TripDeparts, collectorVars
  <2>2. \A m \in Lobbies : phase'[m] = "open" <=> phase[m] = "open"
    BY <1>1, <1>6 DEF SendingFails, TakesAlong, TripRefused, TripDeparts, PartyTypeOK
  <2> QED
    BY <2>1, <2>2, QuietLocks
<1>7. ASSUME NEW l \in Lobbies, NEW u \in Hosts[l], SetsUp(l, u) PROVE LockInv'
  <2>1. UNCHANGED <<partyLockCache, late, unlocked>>
    BY <1>7 DEF SetsUp
  <2>2. \A m \in Lobbies :
          /\ phase'[m] = "open" <=> phase[m] = "open"
          /\ phase[m] = "open" => usersWhoConfirmed'[m] = usersWhoConfirmed[m] /\ leader'[m] = leader[m]
    BY <1>1, <1>7 DEF SetsUp, PartyTypeOK
  <2> QED
    BY <2>1, <2>2, QuietLocks
<1>8. ASSUME NEW l \in Lobbies, NEW u \in Users, NEW b \in Buttons, ClickArrives(l, u, b) PROVE LockInv'
  BY <1>8, QuietLocks DEF ClickArrives, collectorVars
<1>9. CASE UNCHANGED partyVars
  BY <1>9, QuietLocks DEF partyVars, collectorVars
<1> QED
  BY <1>2, <1>3, <1>4, <1>5, <1>6, <1>7, <1>8, <1>9, ClickLocks DEF PartyNext, CollectorStep, CommandStep

LEMMA LocksCorrect == PartySpec => []LockInv
<1>1. PartyInit => LockInv
  BY DEF PartyInit, LockInv, GuestsAreLocked, OneParty, LocksAreReleased, Collecting, Guests
<1>2. ProgressInv /\ LockInv /\ [PartyNext]_partyVars => LockInv'
  BY NextLocks
<1> QED
  BY <1>1, <1>2, ProgressCorrect, PTL DEF PartySpec

(* For any number of lobbies: a user is a guest of one open party, unless  *)
(* he lost his lock (party.ts:161-170, 226-231).                           *)
THEOREM OnePartyCorrect == PartySpec => []OneParty
<1>1. LockInv => OneParty
  BY DEF LockInv
<1> QED
  BY <1>1, LocksCorrect, PTL

(* No lock outlives its party, but for joins after the end.                *)
THEOREM LocksAreReleasedCorrect == PartySpec => []LocksAreReleased
<1>1. LockInv => LocksAreReleased
  BY DEF LockInv
<1> QED
  BY <1>1, LocksCorrect, PTL

-----------------------------------------------------------------------------
(* The sizes.                                                              *)
Few(S) == Cardinality(S) <= MaxSize

(* A party with a place left collects; one that is over has no more than   *)
(* its places, but for those who joined after the end.                     *)
Sizes(l) ==
  /\ Collecting(l) => ~IsFull(usersWhoConfirmed[l])
  /\ Few(usersWhoConfirmed[l] \ late[l])
  /\ Few(fetched[l] \ late[l])
  /\ Few(team[l] \ late[l])
  /\ l \in Sliced => Few(team[l])

SizeInv == \A l \in Lobbies : Sizes(l)

LEMMA FewerAreFew ==
  ASSUME PartyTypeOK, NEW S \in SUBSET Users, NEW T \in SUBSET S
  PROVE  /\ Few(S) => Few(T)
         /\ ~IsFull(S) => ~IsFull(T) /\ Few(T)
<1>1. IsFiniteSet(S) /\ Cardinality(S) \in Nat /\ Cardinality(T) \in Nat /\ MaxSize \in Nat
  BY MembersAreCounted, PartyAssumption
<1>2. Cardinality(T) <= Cardinality(S)
  BY <1>1, FS_Subset
<1> QED
  BY <1>1, <1>2 DEF Few, IsFull

(* A step that opens no party and lets nobody in.                          *)
Shrinks(l) ==
  /\ phase'[l] = "open" => phase[l] = "open"
  /\ usersWhoConfirmed'[l] \subseteq usersWhoConfirmed[l]
  /\ fetched'[l] \subseteq fetched[l]
  /\ team'[l] \subseteq team[l]
  /\ late[l] \subseteq late'[l]

LEMMA ShrinkingSizes ==
  ASSUME PartyTypeOK, NEW l \in Lobbies, Sizes(l), Shrinks(l)
  PROVE  Sizes(l)'
<1>1. usersWhoConfirmed[l] \in SUBSET Users /\ fetched[l] \in SUBSET Users /\ team[l] \in SUBSET Users
  BY DEF PartyTypeOK
<1>2. Few(usersWhoConfirmed'[l] \ late'[l])
  BY <1>1, FewerAreFew DEF Sizes, Shrinks
<1>3. Few(fetched'[l] \ late'[l])
  BY <1>1, FewerAreFew DEF Sizes, Shrinks
<1>4. Few(team'[l] \ late'[l]) /\ (l \in Sliced => Few(team'[l]))
  BY <1>1, FewerAreFew DEF Sizes, Shrinks
<1>5. phase'[l] = "open" => ~IsFull(usersWhoConfirmed'[l])
  BY <1>1, FewerAreFew DEF Sizes, Shrinks, Collecting
<1>6. /\ Few(usersWhoConfirmed[l] \ late[l])' /\ Few(fetched[l] \ late[l])' /\ Few(team[l] \ late[l])'
      /\ (l \in Sliced => Few(team[l]))'
  BY <1>2, <1>3, <1>4 DEF Few
<1>7. (Collecting(l) => ~IsFull(usersWhoConfirmed[l]))'
  BY <1>5 DEF Collecting, IsFull
<1> QED
  BY <1>6, <1>7 DEF Sizes

(* Who joins takes a place that was left, or comes late.                   *)
LEMMA JoinSizes ==
  ASSUME ProgressInv, SizeInv, NEW k \in clicks, JoinHandled(k)
  PROVE  SizeInv'
<1> DEFINE at      == k.lobby
           members == usersWhoConfirmed[at] \cup {k.user}
<1>1. at \in Lobbies /\ k.user \in Users /\ PartyTypeOK /\ members \in SUBSET Users
  BY DEF ProgressInv, PartyTypeOK, Click
<1>2. UNCHANGED <<fetched, team>>
  BY DEF JoinHandled, Settles, collectorVars, tripVars
<1>3. /\ phase'[at] = "open" => phase[at] = "open" /\ ~IsFull(members)
      /\ usersWhoConfirmed'[at] = members
      /\ late'[at] = IF Collecting(at) THEN late[at] ELSE late[at] \cup {k.user}
  BY <1>1 DEF JoinHandled, Settles, Collecting, PartyTypeOK
<1>4. ASSUME NEW l \in Lobbies, l # at PROVE Shrinks(l)
  BY <1>1, <1>2, <1>4 DEF JoinHandled, Settles, Collecting, PartyTypeOK, Shrinks
<1>5. Sizes(at)
  BY <1>1 DEF SizeInv
<1>6. Few(members \ late'[at])
  <2>1. usersWhoConfirmed[at] \in SUBSET Users
    BY <1>1 DEF PartyTypeOK
  <2>2. CASE Collecting(at)
    <3>1. IsFiniteSet(usersWhoConfirmed[at]) /\ Cardinality(usersWhoConfirmed[at]) \in Nat /\ MaxSize \in Nat
      BY <1>1, <2>1, MembersAreCounted, PartyAssumption
    <3>2. Cardinality(usersWhoConfirmed[at]) < MaxSize
      BY <1>5, <2>2, <3>1 DEF Sizes, IsFull
    <3>3. Few(members)
      BY <3>1, <3>2, FS_AddElement DEF Few
    <3> QED
      BY <1>1, <3>3, FewerAreFew
  <2>3. CASE ~Collecting(at)
    <3>1. members \ late'[at] \subseteq usersWhoConfirmed[at] \ late[at]
      BY <1>3, <2>3
    <3> QED
      BY <1>1, <1>5, <2>1, <3>1, FewerAreFew DEF Sizes
  <2> QED
    BY <2>2, <2>3
<1> HIDE DEF at, members
<1>7. Sizes(at)'
  <2>1. fetched[at] \in SUBSET Users /\ team[at] \in SUBSET Users /\ late[at] \subseteq late'[at]
    BY <1>1, <1>3 DEF PartyTypeOK
  <2>2. Few(fetched[at] \ late'[at]) /\ Few(team[at] \ late'[at])
    BY <1>1, <1>5, <2>1, FewerAreFew DEF Sizes
  <2>3. /\ Few(usersWhoConfirmed[at] \ late[at])' /\ Few(fetched[at] \ late[at])' /\ Few(team[at] \ late[at])'
        /\ (at \in Sliced => Few(team[at]))'
    BY <1>2, <1>3, <1>5, <1>6, <2>2 DEF Sizes, Few
  <2>4. (Collecting(at) => ~IsFull(usersWhoConfirmed[at]))'
    BY <1>3 DEF Collecting, IsFull
  <2> QED
    BY <2>3, <2>4 DEF Sizes
<1> QED
  BY <1>1, <1>4, <1>7, ShrinkingSizes DEF SizeInv

LEMMA ClickSizes ==
  ASSUME ProgressInv, SizeInv, NEW k \in clicks, ClickStep(k)
  PROVE  SizeInv'
<1>1. k.lobby \in Lobbies /\ PartyTypeOK
  BY DEF ProgressInv, PartyTypeOK, Click
<1>2. CASE FilterDenies(k) \/ JoinPassesBusy(k)
  <2>1. UNCHANGED <<phase, usersWhoConfirmed, fetched, team, late>>
    BY <1>2 DEF FilterDenies, JoinPassesBusy, collectorVars, tripVars
  <2> QED
    BY <1>1, <2>1, ShrinkingSizes DEF Shrinks, SizeInv
<1>3. CASE JoinRefused(k) \/ Refused(k) \/ CancelHandled(k) \/ StartHandled(k)
  <2>1. PICK next \in {"ended", "deleting"}, stops \in BOOLEAN :
          Settles(k, usersWhoConfirmed[k.lobby], partyLockCache, stops, next)
    BY <1>3 DEF JoinRefused, Refused, OnlyReplies, CancelHandled, StartHandled
  <2>2. UNCHANGED <<fetched, team, late>>
    BY <1>3 DEF JoinRefused, Refused, OnlyReplies, CancelHandled, StartHandled, Settles, collectorVars, tripVars
  <2>3. \A l \in Lobbies : Shrinks(l)
    BY <1>1, <2>1, <2>2, SettlesPhase DEF Shrinks
  <2> QED
    BY <1>1, <2>3, ShrinkingSizes DEF SizeInv
<1>4. CASE LeaveHandled(k)
  <2> DEFINE members == usersWhoConfirmed[k.lobby] \ {k.user}
             locks   == partyLockCache \ {k.user}
  <2>1. Settles(k, members, locks, FALSE, "ended") /\ members \subseteq usersWhoConfirmed[k.lobby]
    BY <1>4 DEF LeaveHandled
  <2>2. UNCHANGED <<fetched, team, late>>
    BY <1>4 DEF LeaveHandled, Settles, collectorVars, tripVars
  <2> HIDE DEF members, locks
  <2>3. ASSUME NEW l \in Lobbies PROVE Shrinks(l)
    <3>1. /\ phase'[l] = phase[l] \/ phase'[l] \in {"ended", "deleting"}
          /\ usersWhoConfirmed'[l] = IF l = k.lobby THEN members ELSE usersWhoConfirmed[l]
      BY <1>1, <2>1, SettlesPhase
    <3> QED
      BY <2>1, <2>2, <3>1 DEF Shrinks
  <2> QED
    BY <1>1, <2>3, ShrinkingSizes DEF SizeInv
<1> QED
  BY <1>2, <1>3, <1>4, JoinSizes DEF ClickStep

LEMMA NextSizes ==
  ASSUME ProgressInv, SizeInv, [PartyNext]_partyVars
  PROVE  SizeInv'
<1>1. PartyTypeOK
  BY DEF ProgressInv
<1>2. CASE LocksClear \/ UNCHANGED partyVars
  <2>1. UNCHANGED <<phase, usersWhoConfirmed, fetched, team, late>>
    BY <1>2 DEF LocksClear, partyVars, collectorVars, tripVars
  <2> QED
    BY <1>1, <2>1, ShrinkingSizes DEF Shrinks, SizeInv
<1>3. ASSUME NEW l \in Lobbies, NEW u \in Users, NEW b \in Buttons, ClickArrives(l, u, b) PROVE SizeInv'
  <2>1. UNCHANGED <<phase, usersWhoConfirmed, fetched, team, late>>
    BY <1>3 DEF ClickArrives, collectorVars, tripVars
  <2> QED
    BY <1>1, <2>1, ShrinkingSizes DEF Shrinks, SizeInv
<1>4. ASSUME NEW l \in Lobbies,
             \/ TimesUp(l) \/ TimerFires(l) \/ DeletedWithFew(l) \/ Fetched(l) \/ FetchFails(l)
             \/ SendingFails(l) \/ TripDeparts(l)
      PROVE  SizeInv'
  <2>1. UNCHANGED <<usersWhoConfirmed, fetched, team, late>>
    BY <1>4 DEF TimesUp, TimerFires, DeletedWithFew, Fetched, FetchFails, SendingFails, TripDeparts,
                collectorVars, tripVars
  <2>2. \A m \in Lobbies : phase'[m] = "open" => phase[m] = "open"
    BY <1>1, <1>4 DEF TimesUp, TimerFires, DeletedWithFew, Fetched, FetchFails, SendingFails, TripDeparts,
                PartyTypeOK
  <2> QED
    BY <1>1, <2>1, <2>2, ShrinkingSizes DEF Shrinks, SizeInv
<1>5. ASSUME NEW l \in Lobbies, TripRefused(l) PROVE SizeInv'
  <2>1. /\ UNCHANGED <<phase, usersWhoConfirmed, fetched, late>>
        /\ \A m \in Lobbies : team'[m] \subseteq team[m]
    BY <1>1, <1>5 DEF TripRefused, PartyTypeOK, collectorVars
  <2> QED
    BY <1>1, <2>1, ShrinkingSizes DEF Shrinks, SizeInv
<1>6. ASSUME NEW l \in Lobbies, MessageSent(l) PROVE SizeInv'
  <2>1. phase[l] = "sending" /\ UNCHANGED <<usersWhoConfirmed, fetched, team, late>>
    BY <1>6 DEF MessageSent, collectorVars, tripVars
  <2>2. \A m \in Lobbies : m # l => Shrinks(m)
    BY <1>1, <1>6, <2>1 DEF MessageSent, PartyTypeOK, Shrinks
  <2>3. usersWhoConfirmed[l] = {leader[l]}
    BY <2>1 DEF ProgressInv, Progress
  <2>4. ~IsFull(usersWhoConfirmed[l])
    <3>1. Cardinality({leader[l]}) = 1 /\ MaxSize \in Nat /\ MaxSize >= 2
      BY FS_Singleton, PartyAssumption
    <3> QED
      BY <2>3, <3>1 DEF IsFull
  <2>5. Sizes(l)'
    BY <2>1, <2>4 DEF SizeInv, Sizes, Few, IsFull
  <2> QED
    BY <1>1, <2>2, <2>5, ShrinkingSizes DEF SizeInv
<1>7. ASSUME NEW l \in Lobbies, DeletedAndReads(l) PROVE SizeInv'
  <2>1. UNCHANGED <<usersWhoConfirmed, team, late>> /\ fetched'[l] = usersWhoConfirmed[l] /\ phase'[l] = "fetching"
    BY <1>1, <1>7 DEF DeletedAndReads, PartyTypeOK, tripVars
  <2>2. \A m \in Lobbies : m # l => Shrinks(m)
    BY <1>1, <1>7, <2>1 DEF DeletedAndReads, PartyTypeOK, Shrinks
  <2>3. Sizes(l)'
    BY <2>1 DEF SizeInv, Sizes, Few, Collecting
  <2> QED
    BY <1>1, <2>2, <2>3, ShrinkingSizes DEF SizeInv
<1>8. ASSUME NEW l \in Lobbies, TakesAlong(l) PROVE SizeInv'
  <2>1. UNCHANGED <<phase, usersWhoConfirmed, fetched, late>>
    BY <1>8 DEF TakesAlong, collectorVars
  <2>2. PICK users \in SUBSET Available(l) :
          /\ IF l \in Sliced /\ Cardinality(Available(l)) > MaxSize
               THEN Cardinality(users) = MaxSize
               ELSE users = Available(l)
          /\ team' = [team EXCEPT ![l] = users]
    BY <1>8 DEF TakesAlong
  <2>3. \A m \in Lobbies : m # l => Shrinks(m)
    BY <1>1, <2>1, <2>2 DEF PartyTypeOK, Shrinks
  <2>4. /\ team'[l] = users /\ fetched[l] \in SUBSET Users /\ Available(l) \in SUBSET fetched[l]
        /\ Available(l) \in SUBSET Users
    BY <1>1, <2>2 DEF PartyTypeOK, Available
  <2>5. Few(users \ late[l])
    <3>1. /\ users \ late[l] \in SUBSET (fetched[l] \ late[l])
          /\ fetched[l] \ late[l] \in SUBSET Users
      BY <2>4
    <3>2. Few(fetched[l] \ late[l])
      BY DEF SizeInv, Sizes
    <3> QED
      BY <1>1, <3>1, <3>2, FewerAreFew
  <2>6. l \in Sliced => Few(users)
    <3>1. Cardinality(Available(l)) \in Nat /\ MaxSize \in Nat
      BY <1>1, <2>4, MembersAreCounted, PartyAssumption
    <3> QED
      BY <2>2, <3>1 DEF Few
  <2>7. Sizes(l)'
    BY <2>1, <2>4, <2>5, <2>6 DEF SizeInv, Sizes, Few, IsFull, Collecting
  <2> QED
    BY <1>1, <2>3, <2>7, ShrinkingSizes DEF SizeInv
<1>9. ASSUME NEW l \in Lobbies, NEW u \in Hosts[l], SetsUp(l, u) PROVE SizeInv'
  <2>1. UNCHANGED <<fetched, team, late>> /\ usersWhoConfirmed'[l] = {u} /\ phase'[l] = "sending"
    BY <1>1, <1>9 DEF SetsUp, PartyTypeOK, tripVars
  <2>2. \A m \in Lobbies : m # l => Shrinks(m)
    BY <1>1, <1>9, <2>1 DEF SetsUp, PartyTypeOK, Shrinks
  <2>3. Few({u} \ late[l])
    <3>1. {u} \in SUBSET Users /\ Cardinality({u}) = 1 /\ MaxSize \in Nat /\ MaxSize >= 2
      BY FS_Singleton, PartyAssumption
    <3> QED
      BY <1>1, <3>1, FewerAreFew DEF Few
  <2>4. Sizes(l)'
    BY <2>1, <2>3 DEF SizeInv, Sizes, Few, Collecting
  <2> QED
    BY <1>1, <2>2, <2>4, ShrinkingSizes DEF SizeInv
<1> QED
  BY <1>2, <1>3, <1>4, <1>5, <1>6, <1>7, <1>8, <1>9, ClickSizes DEF PartyNext, CollectorStep, CommandStep

(* No trip is larger than its command allows, but for those who joined     *)
(* after the end (party.ts:163-175, tobCommand.ts' slice).                 *)
THEOREM TeamFitsCorrect == PartySpec => []TeamFits
<1>1. PartyInit => SizeInv
  <2>1. Few({}) /\ {} \ {} = {}
    BY FS_EmptySet, PartyAssumption DEF Few
  <2> QED
    BY <2>1 DEF PartyInit, SizeInv, Sizes, Collecting
<1>2. ProgressInv /\ SizeInv /\ [PartyNext]_partyVars => SizeInv'
  BY NextSizes
<1>3. SizeInv => TeamFits
  BY DEF SizeInv, Sizes, Few, TeamFits
<1> QED
  BY <1>1, <1>2, <1>3, ProgressCorrect, PTL DEF PartySpec

-----------------------------------------------------------------------------
(* What a command may expect of the promise it waits for.                  *)

(* Only a party that was lost leaves its command waiting: as long as the   *)
(* promise is pending the collector, its timer, the deletion or the        *)
(* fetches are still to come (party.ts:92-237).  This is what there is of  *)
(* LobbiesSettle without fairness.                                         *)
WaitsForAStep ==
  \A l \in Lobbies : Waiting(l) => phase[l] \in {"open", "ended", "deleting", "fetching"}

(* Whoever is told that his party departs gets enough members, himself     *)
(* among them, whatever was clicked while they were fetched                *)
(* (party.ts:130-146).                                                     *)
AnsweredWithEnough ==
  \A l \in Lobbies :
    promise[l] = "resolved" =>
      leader[l] \in fetched[l] /\ Cardinality(fetched[l]) >= MinSize

(* Of one lobby: what AnsweredWithEnough rests on from the read on.        *)
Answered(l) ==
  /\ phase[l] = "done" => promise[l] # "pending"
  /\ phase[l] \in {"fetching", "done"} /\ fetched[l] # {} => leader[l] \in fetched[l]
  /\ promise[l] = "resolved" =>
       phase[l] = "done" /\ Cardinality(fetched[l]) >= MinSize

AnswerInv == \A l \in Lobbies : Answered(l)

(* A click leaves to a lobby the leader and the members that were read; it *)
(* takes back no answer.                                                   *)
LEMMA ClickAnswers ==
  ASSUME ProgressInv, AnswerInv, NEW k \in clicks, ClickStep(k)
  PROVE  AnswerInv'
<1>1. k.lobby \in Lobbies /\ PartyTypeOK
  BY DEF ProgressInv, PartyTypeOK, Click
<1>2. leader' = leader /\ fetched' = fetched
  BY DEF ClickStep, FilterDenies, JoinPassesBusy, JoinRefused, JoinHandled, LeaveHandled, Refused,
         OnlyReplies, CancelHandled, StartHandled, collectorVars
<1>3. promise' = promise \/ Answer(k.lobby, "rejected")
  BY DEF ClickStep, FilterDenies, JoinPassesBusy, JoinRefused, JoinHandled, LeaveHandled, Refused,
         OnlyReplies, CancelHandled, StartHandled, collectorVars
<1>4. ASSUME NEW l \in Lobbies
      PROVE  \/ phase'[l] = phase[l]
             \/ phase[l] \in {"open", "ended"} /\ phase'[l] \in {"ended", "deleting"}
  <2>1. ASSUME NEW members, NEW locks, NEW stops, NEW next \in {"ended", "deleting"},
               Settles(k, members, locks, stops, next)
        PROVE  \/ phase'[l] = phase[l]
               \/ phase[l] \in {"open", "ended"} /\ phase'[l] \in {"ended", "deleting"}
    BY <1>1, <2>1, SettlesPhase
  <2>2. CASE FilterDenies(k) \/ JoinPassesBusy(k)
    BY <2>2 DEF FilterDenies, JoinPassesBusy
  <2>3. CASE JoinRefused(k) \/ Refused(k)
    BY <2>1, <2>3 DEF JoinRefused, Refused, OnlyReplies
  <2>4. CASE JoinHandled(k)
    BY <2>1, <2>4 DEF JoinHandled
  <2>5. CASE LeaveHandled(k)
    BY <2>1, <2>5 DEF LeaveHandled
  <2>6. CASE CancelHandled(k) \/ StartHandled(k)
    BY <2>1, <2>6 DEF CancelHandled, StartHandled
  <2> QED
    BY <2>2, <2>3, <2>4, <2>5, <2>6 DEF ClickStep
<1>5. ASSUME NEW l \in Lobbies
      PROVE  promise'[l] = promise[l] \/ (promise[l] = "pending" /\ promise'[l] = "rejected")
  BY <1>1, <1>3 DEF Answer, PartyTypeOK
<1> QED
  BY <1>2, <1>4, <1>5 DEF AnswerInv, Answered

(* The step that ends the awaits of startTrip settles the promise, unless  *)
(* a fetch failed.                                                         *)
LEMMA CollectorAnswers ==
  ASSUME ProgressInv, AnswerInv, NEW l \in Lobbies, CollectorStep(l)
  PROVE  AnswerInv'
<1>1. /\ PartyTypeOK /\ Progress(l) /\ Answered(l)
      /\ promise \in [Lobbies -> {"pending", "resolved", "rejected"}]
  BY DEF ProgressInv, AnswerInv, PartyTypeOK
<1>2. ASSUME NEW m \in Lobbies, m # l PROVE Answered(m)'
  <2>1. /\ leader' = leader /\ phase'[m] = phase[m] /\ promise'[m] = promise[m]
        /\ fetched'[m] = fetched[m]
    BY <1>1, <1>2 DEF CollectorStep, TimesUp, TimerFires, DeletedWithFew, DeletedAndReads, Fetched,
                      FetchFails, Answer, collectorVars, PartyTypeOK
  <2> QED
    BY <2>1 DEF AnswerInv, Answered
<1>3. CASE TimesUp(l) \/ TimerFires(l) \/ FetchFails(l)
  <2>1. /\ leader' = leader /\ promise' = promise /\ fetched' = fetched
        /\ phase[l] # "done" /\ phase'[l] \in {"ended", "deleting", "lost"}
    BY <1>1, <1>3 DEF TimesUp, TimerFires, FetchFails, Collecting, collectorVars, PartyTypeOK
  <2> QED
    BY <1>1, <1>2, <2>1 DEF AnswerInv, Answered
<1>4. CASE DeletedWithFew(l)
  <2>1. /\ leader' = leader /\ fetched' = fetched /\ fetched[l] = {}
        /\ phase[l] = "deleting" /\ phase'[l] = "done" /\ promise[l] # "resolved"
        /\ promise'[l] = "rejected"
    BY <1>1, <1>4 DEF DeletedWithFew, Answer, PartyTypeOK, Progress
  <2> QED
    BY <1>1, <1>2, <2>1 DEF AnswerInv, Answered
<1>5. CASE DeletedAndReads(l)
  <2>1. /\ leader' = leader /\ promise' = promise /\ fetched'[l] = usersWhoConfirmed[l]
        /\ phase[l] = "deleting" /\ phase'[l] = "fetching"
        /\ leader[l] \in usersWhoConfirmed[l]
    BY <1>1, <1>5 DEF DeletedAndReads, PartyTypeOK, Progress
  <2> QED
    BY <1>1, <1>2, <2>1 DEF AnswerInv, Answered
<1>6. CASE Fetched(l)
  <2>1. /\ leader' = leader /\ fetched' = fetched /\ fetched[l] # {}
        /\ phase[l] = "fetching" /\ phase'[l] = "done"
        /\ promise'[l] = IF promise[l] = "pending" THEN "resolved" ELSE promise[l]
        /\ promise[l] = "pending" => Cardinality(fetched[l]) >= MinSize
    BY <1>1, <1>6 DEF Fetched, Answer, PartyTypeOK, Progress
  <2> QED
    BY <1>1, <1>2, <2>1 DEF AnswerInv, Answered
<1> QED
  BY <1>3, <1>4, <1>5, <1>6 DEF CollectorStep

(* The command that waits touches no answer but by failing to send.        *)
LEMMA CommandAnswers ==
  ASSUME ProgressInv, AnswerInv, NEW l \in Lobbies, CommandStep(l)
  PROVE  AnswerInv'
<1>1. /\ PartyTypeOK /\ Progress(l) /\ Answered(l)
      /\ \A m \in Lobbies : Answered(m)
  BY DEF ProgressInv, AnswerInv
<1>2. CASE MessageSent(l)
  BY <1>1, <1>2 DEF MessageSent, collectorVars, PartyTypeOK, AnswerInv, Answered
<1>3. CASE SendingFails(l)
  BY <1>1, <1>3 DEF SendingFails, PartyTypeOK, AnswerInv, Answered, Progress
<1>4. CASE TakesAlong(l) \/ TripRefused(l) \/ TripDeparts(l)
  BY <1>1, <1>4 DEF TakesAlong, TripRefused, TripDeparts, collectorVars, AnswerInv, Answered
<1>5. ASSUME NEW u \in Hosts[l], SetsUp(l, u) PROVE AnswerInv'
  BY <1>1, <1>5 DEF SetsUp, PartyTypeOK, AnswerInv, Answered, Progress
<1> QED
  BY <1>2, <1>3, <1>4, <1>5 DEF CommandStep

(* For any lobbies, users and clicks: nobody waits for a party on which    *)
(* nothing is under way, and whoever departs does so with enough members.  *)
THEOREM AnswersCorrect == PartySpec => [](WaitsForAStep /\ AnsweredWithEnough)
<1>1. PartyInit => AnswerInv
  BY DEF PartyInit, AnswerInv, Answered
<1>2. ProgressInv /\ AnswerInv /\ [PartyNext]_partyVars => AnswerInv'
  <2> SUFFICES ASSUME ProgressInv, AnswerInv, [PartyNext]_partyVars PROVE AnswerInv'
    OBVIOUS
  <2>1. CASE LocksClear
    BY <2>1 DEF LocksClear, collectorVars, AnswerInv, Answered
  <2>2. ASSUME NEW l \in Lobbies, NEW u \in Users, NEW b \in Buttons, ClickArrives(l, u, b)
        PROVE  AnswerInv'
    BY <2>2 DEF ClickArrives, collectorVars, AnswerInv, Answered
  <2>3. CASE UNCHANGED partyVars
    BY <2>3 DEF partyVars, collectorVars, AnswerInv, Answered
  <2> QED
    BY <2>1, <2>2, <2>3, ClickAnswers, CollectorAnswers, CommandAnswers DEF PartyNext
<1>3. ProgressInv /\ AnswerInv => WaitsForAStep /\ AnsweredWithEnough
  BY DEF ProgressInv, PartyTypeOK, PartyPhases, Progress, AnswerInv, Answered, WaitsForAStep,
         AnsweredWithEnough, Waiting
<1> QED
  BY <1>1, <1>2, <1>3, ProgressCorrect, PTL DEF PartySpec
=============================================================================
