------------------------------ MODULE UserBank ------------------------------
(***************************************************************************)
(* How transactItems keeps that promise on a table row that every          *)
(* transaction reads, computes anew and writes back as a whole: a queue    *)
(* per user in the memory of the process runs them one by one.  The coins  *)
(* are written as an increment; the collection log, like the bank, as a    *)
(* whole, and some commands write log and coins without the queue.         *)
(***************************************************************************)
EXTENDS AtomicBank, Sequences, FiniteSets

CONSTANTS
  Calls,       \* slots for calls of transactItems
  DirectLogs,  \* slots for writes of the collection log outside the queue
  Wagers,      \* slots for wagers taken from the coins outside the queue
  Stake,       \* coins of one wager
  NoRequest

ASSUME UserBankAssumption ==
  /\ NoRequest \notin RequestType
  /\ Stake \in Nat
  /\ Calls \cap DirectLogs = {} /\ Calls \cap Wagers = {} /\ DirectLogs \cap Wagers = {}
  /\ IsFiniteSet(Wagers)

VARIABLES
  clog,     \* the collection log of each user
  queue,    \* calls waiting in the queue of each user
  at,       \* how far each call or direct write is
  request,  \* what each call asks for
  snap      \* the row each call or direct write has read

bankVars == <<bank, gp, clog, queue, at, request, snap>>

Writers == Calls \cup DirectLogs \cup Wagers

Progress == {"unused", "queued", "fetched", "staked", "ok", "failed", "lost"}

RowOf(u) == [bank |-> bank[u], gp |-> gp[u], clog |-> clog[u]]
EmptyRow == [bank |-> NoItems, gp |-> 0, clog |-> NoItems]

BankTypeOK ==
  /\ bank \in [Users -> [Items -> Int]]
  /\ gp \in [Users -> Int]
  /\ clog \in [Users -> Banks]
  /\ queue \in [Users -> Seq(Calls)]
  /\ at \in [Writers -> Progress]
  /\ request \in [Writers -> Requests \cup {NoRequest}]
  /\ \A w \in Writers : at[w] # "unused" => request[w] \in Requests
  /\ snap \in [Writers -> [bank : [Items -> Int], gp : Int, clog : Banks]]

-----------------------------------------------------------------------------
\* A slip: nothing counts as running, so the queue starts everything at once.
RunningUncounted(u) == {}

\* The transactions the queue of u is running.
Running(u) == {o \in Calls : at[o] = "fetched" /\ request[o].user = u}

\* A slip: what is handed in is taken off the log again.
LogAfterRemoval(log, b, r) == [i \in Items |-> log[i] + Gains(b, r)[i] - r.remove[i]]

Adds(r) == r.add # NoItems \/ r.coinsAdd > 0

LogAfter(log, b, r) == [i \in Items |-> log[i] + Gains(b, r)[i]]

\* A slip: a failing transaction is never reported to the queue.
SettlesOnSuccess(w, outcome) ==
  /\ at' = [at EXCEPT ![w] = IF outcome = "ok" THEN "ok" ELSE @]
  /\ snap' = [snap EXCEPT ![w] = EmptyRow]

Settles(w, outcome) ==
  /\ at' = [at EXCEPT ![w] = outcome]
  /\ snap' = [snap EXCEPT ![w] = EmptyRow]

-----------------------------------------------------------------------------
UserBankInit ==
  /\ BankInit
  /\ clog = [u \in Users |-> NoItems]
  /\ queue = [u \in Users |-> <<>>]
  /\ at = [w \in Writers |-> "unused"]
  /\ request = [w \in Writers |-> NoRequest]
  /\ snap = [w \in Writers |-> EmptyRow]

(* transactItems is called: its work goes to the end of the user's queue.  *)
Enqueue(o, r) ==
  /\ at[o] = "unused"
  /\ at' = [at EXCEPT ![o] = "queued"]
  /\ request' = [request EXCEPT ![o] = r]
  /\ queue' = [queue EXCEPT ![r.user] = Append(@, o)]
  /\ UNCHANGED <<bank, gp, clog, snap>>

(* The queue, of concurrency one, starts its first call, which reads the   *)
(* user's row.                                                             *)
Fetch(o) ==
  LET u == request[o].user IN
  /\ at[o] = "queued"
  /\ Running(u) = {}
  /\ queue[u] # <<>> /\ o = Head(queue[u])
  /\ queue' = [queue EXCEPT ![u] = Tail(@)]
  /\ at' = [at EXCEPT ![o] = "fetched"]
  /\ snap' = [snap EXCEPT ![o] = RowOf(u)]
  /\ UNCHANGED <<bank, gp, clog, request>>

GrantedCall(o) == Granted(snap[o].bank, snap[o].gp, request[o])

(* Not enough coins or items in the row that was read.                     *)
Refuse(o) ==
  /\ at[o] = "fetched"
  /\ ~GrantedCall(o)
  /\ Settles(o, "failed")
  /\ UNCHANGED <<bank, gp, clog, queue, request>>

(* One update writes the new bank and log, computed from the row that was  *)
(* read, and increments the coins. If nothing is added, the log is written *)
(* back when an empty bank was passed and left alone when none was.        *)
Commit(o) ==
  LET r == request[o]
      u == r.user
  IN
  /\ at[o] = "fetched"
  /\ GrantedCall(o)
  /\ bank' = [bank EXCEPT ![u] = BankAfter(snap[o].bank, r)]
  /\ gp' = [gp EXCEPT ![u] = @ + CoinChange(r)]
  /\ \/ r.log /\ clog' = [clog EXCEPT ![u] = LogAfter(snap[o].clog, snap[o].bank, r)]
     \/ ~(r.log /\ Adds(r)) /\ clog' = clog
  /\ Settles(o, "ok")
  /\ UNCHANGED <<queue, request>>

(* A query throws; the queue goes on with the next call.                   *)
QueryFails(o) ==
  /\ at[o] = "fetched"
  /\ Settles(o, "failed")
  /\ UNCHANGED <<bank, gp, clog, queue, request>>

-----------------------------------------------------------------------------
(* addItemsToCollectionLog: a user object that was fetched some time ago   *)
(* gives the log that is written.                                          *)
LogFetch(d, r) ==
  /\ at[d] = "unused"
  /\ at' = [at EXCEPT ![d] = "fetched"]
  /\ request' = [request EXCEPT ![d] = r]
  /\ snap' = [snap EXCEPT ![d] = RowOf(r.user)]
  /\ UNCHANGED <<bank, gp, clog, queue>>

LogWrite(d) ==
  /\ at[d] = "fetched"
  /\ clog' = [clog EXCEPT ![request[d].user] = [i \in Items |-> snap[d].clog[i] + request[d].add[i]]]
  /\ Settles(d, "ok")
  /\ UNCHANGED <<bank, gp, queue, request>>

(* hotColdCommand: the coins are checked after the prompt; adding the      *)
(* flower to the bank is a call of transactItems, which may throw.         *)
WagerChecks(g, r) ==
  /\ at[g] = "unused"
  /\ gp[r.user] >= Stake
  /\ at' = [at EXCEPT ![g] = "fetched"]
  /\ request' = [request EXCEPT ![g] = r]
  /\ UNCHANGED <<bank, gp, clog, queue, snap>>

WagerThrows(g) ==
  /\ at[g] = "fetched"
  /\ Settles(g, "failed")
  /\ UNCHANGED <<bank, gp, clog, queue, request>>

CoinsMove(g, amount) == gp' = [gp EXCEPT ![request[g].user] = @ + amount]

(* A black or white flower pays five stakes and takes none; any other      *)
(* takes the stake by a decrement of its own, without a second check.      *)
WagerIsSpecial(g) ==
  /\ at[g] = "fetched"
  /\ CoinsMove(g, 5 * Stake)
  /\ Settles(g, "ok")
  /\ UNCHANGED <<bank, clog, queue, request>>

WagerTakes(g) ==
  /\ at[g] = "fetched"
  /\ CoinsMove(g, 0 - Stake)
  /\ Settles(g, "staked")
  /\ UNCHANGED <<bank, clog, queue, request>>

WagerEnds(g) ==
  /\ at[g] = "staked"
  /\ \/ CoinsMove(g, 2 * Stake)
     \/ UNCHANGED gp
  /\ Settles(g, "ok")
  /\ UNCHANGED <<bank, clog, queue, request>>

(* The process dies: the queues and whatever ran are gone, the row stays.  *)
ProcessDies ==
  /\ queue' = [u \in Users |-> <<>>]
  /\ at' = [w \in Writers |-> IF at[w] \in {"queued", "fetched", "staked"} THEN "lost" ELSE at[w]]
  /\ snap' = [w \in Writers |-> EmptyRow]
  /\ UNCHANGED <<bank, gp, clog, request>>

-----------------------------------------------------------------------------
Serve(o) == Fetch(o) \/ Refuse(o) \/ Commit(o) \/ QueryFails(o)

UserBankNext ==
  \/ \E o \in Calls : Serve(o) \/ \E r \in Requests : Enqueue(o, r)
  \/ \E d \in DirectLogs : LogWrite(d) \/ \E r \in Requests : LogFetch(d, r)
  \/ \E g \in Wagers :
       \/ WagerThrows(g) \/ WagerIsSpecial(g) \/ WagerTakes(g) \/ WagerEnds(g)
       \/ \E r \in Requests : WagerChecks(g, r)
  \/ ProcessDies

UserBankSafety == UserBankInit /\ [][UserBankNext]_bankVars

\* Queries are answered, so every started transaction ends.
UserBankSpec == UserBankSafety /\ \A o \in Calls : WF_bankVars(Serve(o))

-----------------------------------------------------------------------------
(* While the queue runs a transaction of a user, the bank it read is the   *)
(* bank in the table: its whole-row write overwrites nobody's change.      *)
SnapshotIsCurrent ==
  \A o \in Calls : at[o] = "fetched" => snap[o].bank = bank[request[o].user]

(* The collection log of a user never loses an item, as long as only the   *)
(* queue writes it.                                                        *)
LogOnlyGrows ==
  [][DirectLogs = {} =>
       \A u \in Users : \A i \in Items : clog'[u][i] >= clog[u][i]]_bankVars

(* With wagers, which decrement the coins after a check of their own, the  *)
(* coins may go below zero, but by no more than the stakes of the wagers    *)
(* that passed their check                                                 *)
(* (hotColdCommand.ts:102-128, transactItemsFromBank.ts:44-56).            *)
OverdraftIsWagered ==
  \A u \in Users :
    gp[u] + Stake * Cardinality({g \in Wagers : at[g] # "unused" /\ request[g].user = u}) >= 0

(* Every call is answered, or dies with the process: a refused or failed   *)
(* transaction does not block the queue behind it.                         *)
CallsAreAnswered == \A o \in Calls : (at[o] = "queued") ~> (at[o] \in {"ok", "failed", "lost"})
=============================================================================
