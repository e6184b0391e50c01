--------------------------- MODULE UserBank_proofs ---------------------------
(***************************************************************************)
(* For any users, items and requests: the queued whole-row writes          *)
(* implement the atomic bank; wagers outside the queue overdraw the coins  *)
(* by no more than their stakes and harm no items; no line is ever stuck.  *)
(***************************************************************************)
EXTENDS UserBank, AtomicBank_proofs

(* The types of the queued bank.                                           *)
LEMMA RowTyped ==
  ASSUME BankTypeOK, NEW u \in Users
  PROVE  RowOf(u) \in [bank : [Items -> Int], gp : Int, clog : Banks]
BY DEF BankTypeOK, RowOf

LEMMA EmptyRowTyped == EmptyRow \in [bank : [Items -> Int], gp : Int, clog : Banks]
BY DEF EmptyRow, NoItems, Banks

LEMMA RequestTyped ==
  ASSUME BankTypeOK, NEW w \in Writers, at[w] # "unused"
  PROVE  /\ request[w] \in Requests /\ request[w].user \in Users
         /\ request[w].add \in Banks /\ request[w].remove \in Banks
         /\ CoinChange(request[w]) \in Int
<1>1. request[w] \in Requests
  BY DEF BankTypeOK
<1> QED
  BY <1>1, BankAssumption DEF RequestType, CoinChange

LEMMA SettlingTyped ==
  ASSUME BankTypeOK, NEW w \in Writers, at[w] # "unused", NEW outcome \in Progress,
         Settles(w, outcome), request' = request
  PROVE  /\ at' \in [Writers -> Progress]
         /\ \A v \in Writers : at'[v] # "unused" => request'[v] \in Requests
         /\ snap' \in [Writers -> [bank : [Items -> Int], gp : Int, clog : Banks]]
BY EmptyRowTyped DEF BankTypeOK, Settles

LEMMA BankInitTyped == UserBankInit => BankTypeOK
<1> SUFFICES ASSUME UserBankInit
             PROVE  BankTypeOK
  OBVIOUS
<1>1. NoItems \in Banks /\ NoItems \in [Items -> Int]
  BY DEF NoItems, Banks
<1>2. bank \in [Users -> [Items -> Int]] /\ gp \in [Users -> Int] /\ clog \in [Users -> Banks]
  BY <1>1 DEF UserBankInit, BankInit
<1>3. queue \in [Users -> Seq(Calls)]
  BY DEF UserBankInit
<1>4. at \in [Writers -> Progress] /\ \A w \in Writers : at[w] = "unused"
  BY DEF UserBankInit, Progress
<1>5. request \in [Writers -> Requests \cup {NoRequest}]
  BY DEF UserBankInit
<1>6. snap \in [Writers -> [bank : [Items -> Int], gp : Int, clog : Banks]]
  BY EmptyRowTyped DEF UserBankInit
<1> QED
  BY <1>2, <1>3, <1>4, <1>5, <1>6 DEF BankTypeOK

LEMMA BankTypeStep == BankTypeOK /\ [UserBankNext]_bankVars => BankTypeOK'
<1> SUFFICES ASSUME BankTypeOK, [UserBankNext]_bankVars
             PROVE  BankTypeOK'
  OBVIOUS
<1>1. Calls \subseteq Writers /\ DirectLogs \subseteq Writers /\ Wagers \subseteq Writers
  BY DEF Writers
<1>2. ASSUME NEW o \in Calls, NEW r \in Requests, Enqueue(o, r)
      PROVE  BankTypeOK'
  <2>1. r.user \in Users
    BY BankAssumption DEF RequestType
  <2>2. queue' \in [Users -> Seq(Calls)]
    BY <1>2, <2>1 DEF BankTypeOK, Enqueue
  <2> QED
    BY <1>1, <1>2, <2>2 DEF BankTypeOK, Enqueue, Progress
<1>3. ASSUME NEW o \in Calls, Fetch(o)
      PROVE  BankTypeOK'
  <2>1. request[o].user \in Users
    BY <1>1, <1>3, RequestTyped DEF Fetch
  <2>2. queue' \in [Users -> Seq(Calls)]
    BY <1>3, <2>1 DEF BankTypeOK, Fetch
  <2>3. RowOf(request[o].user) \in [bank : [Items -> Int], gp : Int, clog : Banks]
    BY <2>1, RowTyped
  <2> QED
    BY <1>1, <1>3, <2>2, <2>3 DEF BankTypeOK, Fetch, Progress
<1>4. ASSUME NEW o \in Calls, Refuse(o) \/ QueryFails(o)
      PROVE  BankTypeOK'
  <2>1. at[o] # "unused" /\ Settles(o, "failed") /\ request' = request
    BY <1>4 DEF Refuse, QueryFails
  <2>2. "failed" \in Progress
    BY DEF Progress
  <2> QED
    BY <1>1, <1>4, <2>1, <2>2, SettlingTyped DEF BankTypeOK, Refuse, QueryFails
<1>5. ASSUME NEW o \in Calls, Commit(o)
      PROVE  BankTypeOK'
  <2>1. at[o] # "unused" /\ Settles(o, "ok") /\ request' = request /\ "ok" \in Progress
    BY <1>5 DEF Commit, Progress
  <2>2. /\ request[o] \in Requests /\ request[o].user \in Users
        /\ request[o].remove \in Banks /\ CoinChange(request[o]) \in Int
    BY <1>1, <2>1, RequestTyped
  <2>3. Gains(snap[o].bank, request[o]) \in Banks
    BY <2>2, BankAssumption, GainsTyped
  <2>4. snap[o].bank \in [Items -> Int] /\ snap[o].clog \in Banks
    BY <1>1 DEF BankTypeOK
  <2>5. BankAfter(snap[o].bank, request[o]) \in [Items -> Int]
    BY <2>2, <2>3, <2>4 DEF BankAfter, Banks
  <2>6. LogAfter(snap[o].clog, snap[o].bank, request[o]) \in Banks
    BY <2>3, <2>4 DEF LogAfter, Banks
  <2>7. bank' \in [Users -> [Items -> Int]] /\ gp' \in [Users -> Int] /\ clog' \in [Users -> Banks]
    <3>1. bank' \in [Users -> [Items -> Int]] /\ gp' \in [Users -> Int]
      BY <1>5, <2>2, <2>5 DEF BankTypeOK, Commit
    <3>2. CASE clog' = clog
      BY <1>1, <3>1, <3>2 DEF BankTypeOK
    <3>3. CASE clog' = [clog EXCEPT ![request[o].user] =
                          LogAfter(snap[o].clog, snap[o].bank, request[o])]
      BY <1>1, <2>6, <3>1, <3>3 DEF BankTypeOK
    <3> QED
      BY <1>5, <3>2, <3>3 DEF Commit
  <2>8. queue' = queue
    BY <1>5 DEF Commit
  <2> QED
    BY <1>1, <2>1, <2>7, <2>8, SettlingTyped DEF BankTypeOK
<1>6. ASSUME NEW d \in DirectLogs, NEW r \in Requests, LogFetch(d, r)
      PROVE  BankTypeOK'
  <2>1. r.user \in Users
    BY BankAssumption DEF RequestType
  <2>2. RowOf(r.user) \in [bank : [Items -> Int], gp : Int, clog : Banks]
    BY <2>1, RowTyped
  <2> QED
    BY <1>1, <1>6, <2>2 DEF BankTypeOK, LogFetch, Progress
<1>7. ASSUME NEW d \in DirectLogs, LogWrite(d)
      PROVE  BankTypeOK'
  <2>1. at[d] # "unused" /\ Settles(d, "ok") /\ request' = request /\ "ok" \in Progress
    BY <1>7 DEF LogWrite, Progress
  <2>2. request[d].add \in Banks /\ request[d].user \in Users
    BY <1>1, <2>1, RequestTyped
  <2>3. snap[d].clog \in Banks
    BY <1>1 DEF BankTypeOK
  <2>4. clog' \in [Users -> Banks]
    BY <1>7, <2>2, <2>3 DEF BankTypeOK, LogWrite, Banks
  <2> QED
    BY <1>1, <1>7, <2>1, <2>4, SettlingTyped DEF BankTypeOK, LogWrite
<1>8. ASSUME NEW g \in Wagers, NEW r \in Requests, WagerChecks(g, r)
      PROVE  BankTypeOK'
  BY <1>1, <1>8 DEF BankTypeOK, WagerChecks, Progress
<1>9. ASSUME NEW g \in Wagers, WagerThrows(g) \/ WagerIsSpecial(g) \/ WagerTakes(g) \/ WagerEnds(g)
      PROVE  BankTypeOK'
  <2>1. at[g] # "unused" /\ request' = request
    BY <1>9 DEF WagerThrows, WagerIsSpecial, WagerTakes, WagerEnds
  <2>2. request[g].user \in Users
    BY <1>1, <2>1, RequestTyped
  <2>3. PICK outcome \in Progress : Settles(g, outcome)
    BY <1>9 DEF WagerThrows, WagerIsSpecial, WagerTakes, WagerEnds, Progress
  <2>4. gp' \in [Users -> Int]
    BY <1>9, <2>2, UserBankAssumption
    DEF BankTypeOK, WagerThrows, WagerIsSpecial, WagerTakes, WagerEnds, CoinsMove
  <2>5. UNCHANGED <<bank, clog, queue>>
    BY <1>9 DEF WagerThrows, WagerIsSpecial, WagerTakes, WagerEnds
  <2> QED
    BY <1>1, <2>1, <2>3, <2>4, <2>5, SettlingTyped DEF BankTypeOK
<1>10. CASE ProcessDies
  <2>1. queue' \in [Users -> Seq(Calls)]
    BY <1>10 DEF ProcessDies
  <2>2. snap' \in [Writers -> [bank : [Items -> Int], gp : Int, clog : Banks]]
    BY <1>10, EmptyRowTyped DEF ProcessDies
  <2>3. at' \in [Writers -> Progress] /\ \A w \in Writers : at'[w] # "unused" => at[w] # "unused"
    BY <1>10 DEF BankTypeOK, ProcessDies, Progress
  <2> QED
    BY <1>10, <2>1, <2>2, <2>3 DEF BankTypeOK, ProcessDies
<1>11. CASE UNCHANGED bankVars
  BY <1>11 DEF BankTypeOK, bankVars
<1> QED
  BY <1>2, <1>3, <1>4, <1>5, <1>6, <1>7, <1>8, <1>9, <1>10, <1>11 DEF UserBankNext, Serve

(* The types of the queued bank hold in every reachable state.             *)
THEOREM BankTypeCorrect == UserBankSafety => []BankTypeOK
BY BankInitTyped, BankTypeStep, PTL DEF UserBankSafety

-----------------------------------------------------------------------------
(* Why the whole-row writes lose nothing: at most one transaction of a     *)
(* user is past its read, so nothing but wagers and direct writes of the   *)
(* log changes the row before it writes.                                   *)
RunsAlone ==
  \A o, p \in Calls :
    at[o] = "fetched" /\ at[p] = "fetched" /\ request[o].user = request[p].user => o = p

CoinsAreCurrent ==
  Wagers = {} => \A o \in Calls : at[o] = "fetched" => snap[o].gp = gp[request[o].user]

LogIsCurrent ==
  DirectLogs = {} => \A o \in Calls : at[o] = "fetched" => snap[o].clog = clog[request[o].user]

QueueInv == BankTypeOK /\ RunsAlone /\ SnapshotIsCurrent /\ CoinsAreCurrent /\ LogIsCurrent

LEMMA QueueInit == UserBankInit => QueueInv
<1> SUFFICES ASSUME UserBankInit
             PROVE  QueueInv
  OBVIOUS
<1>1. \A o \in Calls : at[o] = "unused"
  BY DEF UserBankInit, Writers
<1> QED
  BY <1>1, BankInitTyped DEF QueueInv, RunsAlone, SnapshotIsCurrent, CoinsAreCurrent, LogIsCurrent

(* A call that settles leaves the others as they were.                     *)
LEMMA OthersRun ==
  ASSUME BankTypeOK, NEW o \in Writers, NEW outcome \in {"ok", "failed", "staked"},
         Settles(o, outcome)
  PROVE  \A p \in Calls : at'[p] = "fetched" =>
           p # o /\ at[p] = "fetched" /\ snap'[p] = snap[p]
BY DEF BankTypeOK, Settles, Writers

(* A step that starts no call, and changes only what is not read, keeps    *)
(* the running calls current.                                              *)
LEMMA KeepsRunning ==
  ASSUME QueueInv, BankTypeOK', bank' = bank,
         \A p \in Calls : at'[p] = "fetched" =>
           at[p] = "fetched" /\ snap'[p] = snap[p] /\ request'[p] = request[p],
         Wagers = {} => gp' = gp,
         DirectLogs = {} => clog' = clog
  PROVE  QueueInv'
BY DEF QueueInv, RunsAlone, SnapshotIsCurrent, CoinsAreCurrent, LogIsCurrent

LEMMA QueueStep == QueueInv /\ [UserBankNext]_bankVars => QueueInv'
<1> SUFFICES ASSUME QueueInv, [UserBankNext]_bankVars
             PROVE  QueueInv'
  OBVIOUS
<1>0. BankTypeOK /\ BankTypeOK'
  BY BankTypeStep DEF QueueInv
<1>1. Calls \subseteq Writers /\ DirectLogs \subseteq Writers /\ Wagers \subseteq Writers
  BY DEF Writers
<1>2. ASSUME NEW o \in Calls, NEW r \in Requests, Enqueue(o, r)
      PROVE  QueueInv'
  <2>1. \A p \in Calls : at'[p] = "fetched" =>
          at[p] = "fetched" /\ snap'[p] = snap[p] /\ request'[p] = request[p]
    BY <1>0, <1>1, <1>2 DEF BankTypeOK, Enqueue
  <2> QED
    BY <1>0, <1>2, <2>1, KeepsRunning DEF Enqueue
<1>3. ASSUME NEW o \in Calls, Fetch(o)
      PROVE  QueueInv'
  <2>1. /\ at' = [at EXCEPT ![o] = "fetched"]
        /\ snap' = [snap EXCEPT ![o] = RowOf(request[o].user)]
        /\ UNCHANGED <<bank, gp, clog, request>>
        /\ Running(request[o].user) = {}
    BY <1>3 DEF Fetch
  <2>2. \A p \in Calls : at[p] = "fetched" => request[p].user # request[o].user
    BY <2>1 DEF Running
  <2>3. \A p \in Calls : at'[p] = "fetched" /\ p # o => at[p] = "fetched" /\ snap'[p] = snap[p]
    BY <1>0, <1>1, <2>1 DEF BankTypeOK
  <2>4. snap'[o] = RowOf(request[o].user)
    BY <1>0, <1>1, <2>1 DEF BankTypeOK
  <2>5. RunsAlone'
    BY <2>1, <2>2, <2>3 DEF QueueInv, RunsAlone
  <2>6. SnapshotIsCurrent' /\ CoinsAreCurrent' /\ LogIsCurrent'
    BY <2>1, <2>3, <2>4 DEF QueueInv, SnapshotIsCurrent, CoinsAreCurrent, LogIsCurrent, RowOf
  <2> QED
    BY <1>0, <2>5, <2>6 DEF QueueInv
<1>4. ASSUME NEW o \in Calls, Refuse(o) \/ QueryFails(o)
      PROVE  QueueInv'
  <2>1. Settles(o, "failed") /\ UNCHANGED <<bank, gp, clog, request>>
    BY <1>4 DEF Refuse, QueryFails
  <2> QED
    BY <1>0, <1>1, <2>1, OthersRun, KeepsRunning
<1>5. ASSUME NEW o \in Calls, Commit(o)
      PROVE  QueueInv'
  <2>1. at[o] = "fetched" /\ Settles(o, "ok") /\ request' = request
    BY <1>5 DEF Commit
  <2>2. \A p \in Calls : at'[p] = "fetched" => p # o /\ at[p] = "fetched" /\ snap'[p] = snap[p]
    BY <1>0, <1>1, <2>1, OthersRun
  <2>3. \A p \in Calls : at'[p] = "fetched" => request[p].user # request[o].user
    BY <2>1, <2>2 DEF QueueInv, RunsAlone
  <2>4. \A p \in Calls : at'[p] = "fetched" => request[p].user \in Users
    BY <1>0, <1>1, <2>2, RequestTyped
  <2>5. \A u \in Users \ {request[o].user} : bank'[u] = bank[u] /\ gp'[u] = gp[u] /\ clog'[u] = clog[u]
    BY <1>0, <1>5 DEF BankTypeOK, Commit
  <2>6. RunsAlone'
    BY <2>1, <2>2 DEF QueueInv, RunsAlone
  <2>7. SnapshotIsCurrent' /\ CoinsAreCurrent' /\ LogIsCurrent'
    BY <2>1, <2>2, <2>3, <2>4, <2>5 DEF QueueInv, SnapshotIsCurrent, CoinsAreCurrent, LogIsCurrent
  <2> QED
    BY <1>0, <2>6, <2>7 DEF QueueInv
<1>6. ASSUME NEW d \in DirectLogs, NEW r \in Requests, LogFetch(d, r)
      PROVE  QueueInv'
  <2>1. d \notin Calls
    BY UserBankAssumption
  <2>2. \A p \in Calls : at'[p] = "fetched" =>
          at[p] = "fetched" /\ snap'[p] = snap[p] /\ request'[p] = request[p]
    BY <1>0, <1>1, <1>6, <2>1 DEF BankTypeOK, LogFetch
  <2> QED
    BY <1>0, <1>6, <2>2, KeepsRunning DEF LogFetch
<1>7. ASSUME NEW d \in DirectLogs, LogWrite(d)
      PROVE  QueueInv'
  <2>1. Settles(d, "ok") /\ UNCHANGED <<bank, gp, request>> /\ DirectLogs # {}
    BY <1>7 DEF LogWrite
  <2> QED
    BY <1>0, <1>1, <2>1, OthersRun, KeepsRunning
<1>8. ASSUME NEW g \in Wagers, NEW r \in Requests, WagerChecks(g, r)
      PROVE  QueueInv'
  <2>1. g \notin Calls
    BY UserBankAssumption
  <2>2. \A p \in Calls : at'[p] = "fetched" =>
          at[p] = "fetched" /\ snap'[p] = snap[p] /\ request'[p] = request[p]
    BY <1>0, <1>1, <1>8, <2>1 DEF BankTypeOK, WagerChecks
  <2> QED
    BY <1>0, <1>8, <2>2, KeepsRunning DEF WagerChecks
<1>9. ASSUME NEW g \in Wagers, WagerThrows(g) \/ WagerIsSpecial(g) \/ WagerTakes(g) \/ WagerEnds(g)
      PROVE  QueueInv'
  <2>1. UNCHANGED <<bank, clog, request>> /\ Wagers # {}
    BY <1>9 DEF WagerThrows, WagerIsSpecial, WagerTakes, WagerEnds
  <2>2. PICK outcome \in {"ok", "failed", "staked"} : Settles(g, outcome)
    BY <1>9 DEF WagerThrows, WagerIsSpecial, WagerTakes, WagerEnds
  <2> QED
    BY <1>0, <1>1, <2>1, <2>2, OthersRun, KeepsRunning
<1>10. CASE ProcessDies
  <2>1. \A p \in Calls : at'[p] # "fetched"
    BY <1>0, <1>1, <1>10 DEF BankTypeOK, ProcessDies
  <2> QED
    BY <1>0, <1>10, <2>1, KeepsRunning DEF ProcessDies
<1>11. CASE UNCHANGED bankVars
  BY <1>0, <1>11, KeepsRunning DEF bankVars
<1> QED
  BY <1>2, <1>3, <1>4, <1>5, <1>6, <1>7, <1>8, <1>9, <1>10, <1>11 DEF UserBankNext, Serve

(* The bank a transaction computes with is the bank in the table, whatever *)
(* other calls, wagers, direct writes and crashes interleave with it       *)
(* (userQueues.ts:3-17, transactItemsFromBank.ts:34-124).                  *)
THEOREM SnapshotIsCurrentCorrect == UserBankSafety => []SnapshotIsCurrent
<1>1. QueueInv => SnapshotIsCurrent
  BY DEF QueueInv
<1> QED
  BY <1>1, QueueInit, QueueStep, PTL DEF UserBankSafety

(* A committing call is the atomic transaction it asks for.                *)
LEMMA CommitIsTransaction ==
  ASSUME QueueInv, Wagers = {}, NEW o \in Calls, Commit(o)
  PROVE  request[o] \in Requests /\ Transaction(request[o])
<1>1. o \in Writers /\ at[o] = "fetched"
  BY DEF Commit, Writers
<1>2. request[o] \in Requests
  BY <1>1, RequestTyped DEF QueueInv
<1>3. snap[o].bank = bank[request[o].user] /\ snap[o].gp = gp[request[o].user]
  BY <1>1 DEF QueueInv, SnapshotIsCurrent, CoinsAreCurrent
<1> QED
  BY <1>2, <1>3 DEF Commit, GrantedCall, Transaction

(* Only a commit touches the ledger when nobody wagers.                    *)
LEMMA LedgerSteps ==
  ASSUME QueueInv, Wagers = {}, [UserBankNext]_bankVars
  PROVE  [BankNext]_ledger
<1>1. ASSUME NEW o \in Calls, Commit(o)
      PROVE  BankNext
  BY <1>1, CommitIsTransaction DEF BankNext
<1>2. ASSUME NEW o \in Calls, Fetch(o) \/ Refuse(o) \/ QueryFails(o)
      PROVE  UNCHANGED ledger
  BY <1>2 DEF Fetch, Refuse, QueryFails, ledger
<1>3. ASSUME NEW o \in Calls, NEW r \in Requests, Enqueue(o, r)
      PROVE  UNCHANGED ledger
  BY <1>3 DEF Enqueue, ledger
<1>4. ASSUME NEW d \in DirectLogs, LogWrite(d) \/ \E r \in Requests : LogFetch(d, r)
      PROVE  UNCHANGED ledger
  BY <1>4 DEF LogWrite, LogFetch, ledger
<1>5. CASE ProcessDies
  BY <1>5 DEF ProcessDies, ledger
<1>6. CASE UNCHANGED bankVars
  BY <1>6 DEF bankVars, ledger
<1> QED
  BY <1>1, <1>2, <1>3, <1>4, <1>5, <1>6 DEF UserBankNext, Serve

(* While nobody wagers, the queued whole-row writes are atomic             *)
(* transactions: no interleaving of calls, direct writes of the log,       *)
(* failing queries and crashes shows on the bank or the coins              *)
(* (transactItemsFromBank.ts:34-159).                                      *)
THEOREM ImplementsAtomicBank ==
  ASSUME Wagers = {}
  PROVE  UserBankSafety => BankSpec
<1>1. UserBankInit => BankInit
  BY DEF UserBankInit
<1>2. QueueInv /\ [UserBankNext]_bankVars => [BankNext]_ledger
  BY LedgerSteps
<1> QED
  BY <1>1, <1>2, QueueInit, QueueStep, PTL DEF UserBankSafety, BankSpec

(* So it inherits what the atomic bank guarantees.                         *)
THEOREM UserBankCorrect ==
  ASSUME Wagers = {}
  PROVE  UserBankSafety => [](Solvent /\ OneClueOfATier)
BY ImplementsAtomicBank, LedgerCorrect, PTL

-----------------------------------------------------------------------------
LEMMA LogStep ==
  ASSUME QueueInv, [UserBankNext]_bankVars, DirectLogs = {}, NEW u \in Users, NEW i \in Items
  PROVE  clog'[u][i] >= clog[u][i]
<1>0. BankTypeOK /\ clog[u][i] \in Nat
  BY DEF QueueInv, BankTypeOK, Banks
<1>1. ASSUME NEW o \in Calls, Commit(o)
      PROVE  clog'[u][i] >= clog[u][i]
  <2>1. o \in Writers /\ at[o] = "fetched"
    BY <1>1 DEF Commit, Writers
  <2>2. request[o] \in Requests /\ request[o].user \in Users
    BY <1>0, <2>1, RequestTyped
  <2>3. snap[o].clog = clog[request[o].user]
    BY <2>1 DEF QueueInv, LogIsCurrent
  <2>4. Gains(snap[o].bank, request[o])[i] \in Nat
    BY <2>2, BankAssumption, GainsTyped DEF Banks
  <2>5. CASE u = request[o].user /\ clog' = [clog EXCEPT ![request[o].user] =
                                             LogAfter(snap[o].clog, snap[o].bank, request[o])]
    <3>1. clog'[u] = LogAfter(clog[u], snap[o].bank, request[o])
      BY <1>0, <2>3, <2>5 DEF BankTypeOK
    <3>2. clog'[u][i] = clog[u][i] + Gains(snap[o].bank, request[o])[i]
      BY <3>1 DEF LogAfter
    <3> QED
      BY <1>0, <2>4, <3>2
  <2>6. CASE clog'[u] = clog[u]
    BY <1>0, <2>6
  <2> QED
    BY <1>0, <1>1, <2>5, <2>6 DEF Commit, BankTypeOK
<1>2. CASE UNCHANGED clog
  BY <1>0, <1>2
<1> QED
  BY <1>1, <1>2 DEF UserBankNext, Serve, Fetch, Refuse, QueryFails, Enqueue, WagerChecks, WagerThrows,
     WagerIsSpecial, WagerTakes, WagerEnds, ProcessDies, bankVars

(* The collection log only grows while the queue alone writes it           *)
(* (transactItemsFromBank.ts:61-73, MUser.ts:540-555).                     *)
THEOREM LogOnlyGrowsCorrect == UserBankSafety => LogOnlyGrows
<1>1. QueueInv /\ [UserBankNext]_bankVars =>
        [DirectLogs = {} => \A u \in Users : \A i \in Items : clog'[u][i] >= clog[u][i]]_bankVars
  BY LogStep
<1> QED
  BY <1>1, QueueInit, QueueStep, PTL DEF UserBankSafety, LogOnlyGrows

-----------------------------------------------------------------------------
(* Why the overdraft is wagered.  The wagers past their throw are the ones *)
(* that may have taken a stake.  Their stakes back the coins of the user,  *)
(* and back what a running call has read: the call pays no more than it    *)
(* read, and its user runs no second call, so the coins never fall below   *)
(* zero by more than what the wagers took since.                           *)
Thrown(u) == {g \in Wagers : at[g] \notin {"unused", "fetched"} /\ request[g].user = u}

Backing(u) == gp[u] + Stake * Cardinality(Thrown(u))

CoinsAreBacked == \A u \in Users : Backing(u) >= 0

ReadIsBacked == \A o \in Calls : at[o] = "fetched" => Backing(request[o].user) >= snap[o].gp

OverdraftInv == QueueInv /\ CoinsAreBacked /\ ReadIsBacked

LEMMA BackingTyped ==
  ASSUME BankTypeOK, NEW u \in Users
  PROVE  /\ IsFiniteSet(Thrown(u)) /\ Cardinality(Thrown(u)) \in Nat
         /\ Stake * Cardinality(Thrown(u)) \in Nat
         /\ gp[u] \in Int /\ Backing(u) \in Int /\ Backing(u) >= gp[u]
<1>1. IsFiniteSet(Thrown(u)) /\ Cardinality(Thrown(u)) \in Nat
  BY UserBankAssumption, FS_Subset, FS_CardinalityType DEF Thrown
<1>2. Stake * Cardinality(Thrown(u)) \in Nat
  BY <1>1, UserBankAssumption
<1>3. gp[u] \in Int
  BY DEF BankTypeOK
<1>4. \A s \in Nat : gp[u] + s \in Int /\ gp[u] + s >= gp[u]
  BY <1>3
<1> QED
  BY <1>1, <1>2, <1>3, <1>4 DEF Backing

LEMMA MoreStakes ==
  ASSUME NEW m \in Nat, NEW n \in Nat, m <= n
  PROVE  Stake * m <= Stake * n
BY UserBankAssumption

(* Coins that do not fall, while no wager is forgotten, stay backed.       *)
LEMMA BackingKept ==
  ASSUME BankTypeOK, BankTypeOK', NEW u \in Users, NEW c \in Int,
         Thrown(u) \subseteq Thrown(u)', gp'[u] >= gp[u] + c
  PROVE  Backing(u)' >= Backing(u) + c
<1>1. /\ IsFiniteSet(Thrown(u)) /\ Cardinality(Thrown(u)) \in Nat
      /\ Stake * Cardinality(Thrown(u)) \in Nat
      /\ gp[u] \in Int
  BY BackingTyped
<1>2. /\ IsFiniteSet(Thrown(u)') /\ Cardinality(Thrown(u)') \in Nat
      /\ Stake * Cardinality(Thrown(u)') \in Nat
      /\ gp'[u] \in Int
  <2>1. IsFiniteSet(Thrown(u)') /\ Cardinality(Thrown(u)') \in Nat
    BY UserBankAssumption, FS_Subset, FS_CardinalityType DEF Thrown
  <2> QED
    BY <2>1, UserBankAssumption DEF BankTypeOK
<1>3. Cardinality(Thrown(u)) <= Cardinality(Thrown(u)')
  BY <1>2, FS_Subset
<1>4. Stake * Cardinality(Thrown(u)) <= Stake * Cardinality(Thrown(u)')
  BY <1>1, <1>2, <1>3, MoreStakes
<1>5. Backing(u)' = gp'[u] + Stake * Cardinality(Thrown(u)')
  BY DEF Backing
<1>6. Backing(u) = gp[u] + Stake * Cardinality(Thrown(u))
  BY DEF Backing
<1> QED
  BY <1>1, <1>2, <1>4, <1>5, <1>6

(* A stake that is taken is backed by the wager that took it.              *)
LEMMA BackingOfAStake ==
  ASSUME BankTypeOK, BankTypeOK', NEW u \in Users, NEW g \in Wagers, g \notin Thrown(u),
         Thrown(u)' = Thrown(u) \cup {g}, gp'[u] = gp[u] - Stake
  PROVE  Backing(u)' = Backing(u)
<1>1. /\ IsFiniteSet(Thrown(u)) /\ Cardinality(Thrown(u)) \in Nat
      /\ Stake * Cardinality(Thrown(u)) \in Nat
      /\ gp[u] \in Int
  BY BackingTyped
<1>2. Cardinality(Thrown(u)') = Cardinality(Thrown(u)) + 1
  BY <1>1, FS_AddElement
<1>3. \A n \in Nat : Stake * (n + 1) = Stake * n + Stake
  BY UserBankAssumption
<1>4. Stake * (Cardinality(Thrown(u)) + 1) = Stake * Cardinality(Thrown(u)) + Stake
  BY <1>1, <1>3
<1>5. Backing(u)' = gp'[u] + Stake * Cardinality(Thrown(u)')
  BY DEF Backing
<1>6. Backing(u) = gp[u] + Stake * Cardinality(Thrown(u))
  BY DEF Backing
<1> QED
  BY <1>1, <1>2, <1>4, <1>5, <1>6, UserBankAssumption

(* A step that takes no coins, forgets no wager and starts no call keeps   *)
(* everything backed.                                                      *)
LEMMA OverdraftKept ==
  ASSUME OverdraftInv, QueueInv',
         \A u \in Users : Backing(u)' >= Backing(u),
         \A o \in Calls : at'[o] = "fetched" =>
           at[o] = "fetched" /\ snap'[o].gp = snap[o].gp /\ request'[o] = request[o]
  PROVE  OverdraftInv'
<1>1. BankTypeOK /\ BankTypeOK'
  BY DEF OverdraftInv, QueueInv
<1>2. \A u \in Users : Backing(u) \in Int
  BY <1>1, BackingTyped
<1>3. \A u \in Users : Backing(u)' \in Int
  <2>1. \A u \in Users : gp'[u] \in Int
    BY <1>1 DEF BankTypeOK
  <2>2. \A u \in Users : Cardinality(Thrown(u)') \in Nat
    BY UserBankAssumption, FS_Subset, FS_CardinalityType DEF Thrown
  <2> QED
    BY <2>1, <2>2, UserBankAssumption DEF Backing
<1>4. CoinsAreBacked'
  BY <1>2, <1>3 DEF OverdraftInv, CoinsAreBacked
<1>5. \A o \in Calls : at[o] = "fetched" => request[o].user \in Users /\ snap[o].gp \in Int
  BY <1>1, RequestTyped DEF BankTypeOK, Writers
<1>6. ReadIsBacked'
  BY <1>2, <1>3, <1>5 DEF OverdraftInv, ReadIsBacked
<1> QED
  BY <1>4, <1>6 DEF OverdraftInv

LEMMA OverdraftInit == UserBankInit => OverdraftInv
<1> SUFFICES ASSUME UserBankInit
             PROVE  OverdraftInv
  OBVIOUS
<1>1. QueueInv /\ BankTypeOK
  BY QueueInit DEF QueueInv
<1>2. \A w \in Writers : at[w] = "unused"
  BY DEF UserBankInit
<1>3. ReadIsBacked
  BY <1>2 DEF ReadIsBacked, Writers
<1>4. \A u \in Users : gp[u] = 0
  BY Zenon DEF UserBankInit, BankInit
<1>5. \A u \in Users : Backing(u) \in Int /\ Backing(u) >= gp[u]
  BY <1>1, BackingTyped, Zenon
<1>6. \A u \in Users : Backing(u) >= 0
  <2> TAKE u \in Users
  <2> QED
    BY <1>4, <1>5
<1>7. CoinsAreBacked
  BY <1>6 DEF CoinsAreBacked
<1> QED
  BY <1>1, <1>3, <1>7 DEF OverdraftInv

(* A writer that goes on leaves every wager that was thrown where it was.  *)
LEMMA ThrownStay ==
  ASSUME BankTypeOK, NEW u \in Users,
         \A g \in Wagers : at[g] \notin {"unused", "fetched"} =>
           at'[g] \notin {"unused", "fetched"} /\ request'[g] = request[g]
  PROVE  Thrown(u) \subseteq Thrown(u)'
BY DEF Thrown

LEMMA OverdraftStep == OverdraftInv /\ [UserBankNext]_bankVars => OverdraftInv'
<1> SUFFICES ASSUME OverdraftInv, [UserBankNext]_bankVars
             PROVE  OverdraftInv'
  OBVIOUS
<1>0. QueueInv /\ QueueInv' /\ BankTypeOK /\ BankTypeOK'
  BY QueueStep DEF OverdraftInv, QueueInv
<1>1. Calls \subseteq Writers /\ DirectLogs \subseteq Writers /\ Wagers \subseteq Writers
  BY DEF Writers
<1>2. \A u \in Users : gp[u] \in Int /\ gp'[u] \in Int
  BY <1>0 DEF BankTypeOK
<1>3. ASSUME \A g \in Wagers : at[g] \notin {"unused", "fetched"} =>
               at'[g] \notin {"unused", "fetched"} /\ request'[g] = request[g],
             \A u \in Users : gp'[u] >= gp[u]
      PROVE  \A u \in Users : Backing(u)' >= Backing(u)
  <2> TAKE u \in Users
  <2>1. Thrown(u) \subseteq Thrown(u)'
    BY <1>0, <1>3, ThrownStay
  <2>2. gp'[u] >= gp[u] + 0
    BY <1>2, <1>3
  <2>3. Backing(u)' >= Backing(u) + 0
    BY <1>0, <2>1, <2>2, BackingKept
  <2> QED
    BY <1>0, <2>3, BackingTyped
<1>4. ASSUME NEW o \in Calls, NEW r \in Requests, Enqueue(o, r)
      PROVE  OverdraftInv'
  <2>1. o \notin Wagers
    BY UserBankAssumption
  <2>2. \A w \in Writers : w # o => at'[w] = at[w] /\ request'[w] = request[w]
    BY <1>0, <1>4 DEF BankTypeOK, Enqueue
  <2>3. at'[o] = "queued" /\ UNCHANGED <<gp, snap>>
    BY <1>0, <1>1, <1>4 DEF BankTypeOK, Enqueue
  <2>4. \A u \in Users : Backing(u)' >= Backing(u)
    BY <1>1, <1>2, <1>3, <2>1, <2>2, <2>3
  <2>5. \A p \in Calls : at'[p] = "fetched" =>
          at[p] = "fetched" /\ snap'[p].gp = snap[p].gp /\ request'[p] = request[p]
    BY <1>1, <2>2, <2>3
  <2> QED
    BY <1>0, <2>4, <2>5, OverdraftKept
<1>5. ASSUME NEW o \in Calls, Fetch(o)
      PROVE  OverdraftInv'
  <2>1. o \notin Wagers /\ at[o] = "queued" /\ o \in Writers
    BY <1>1, <1>5, UserBankAssumption DEF Fetch
  <2>2. request[o].user \in Users
    BY <1>0, <2>1, RequestTyped
  <2>3. \A w \in Writers : w # o => at'[w] = at[w] /\ snap'[w] = snap[w]
    BY <1>0, <1>5 DEF BankTypeOK, Fetch
  <2>4. snap'[o].gp = gp[request[o].user] /\ UNCHANGED <<gp, request>>
    BY <1>0, <1>5, <2>1 DEF BankTypeOK, Fetch, RowOf
  <2>5. \A u \in Users : Thrown(u)' = Thrown(u)
    BY <1>1, <2>1, <2>3, <2>4 DEF Thrown
  <2>6. \A u \in Users : Backing(u)' = Backing(u)
    BY <2>4, <2>5 DEF Backing
  <2>7. \A u \in Users : Backing(u) >= gp[u]
    BY <1>0, BackingTyped
  <2>8. CoinsAreBacked'
    BY <2>6 DEF OverdraftInv, CoinsAreBacked
  <2>9. ReadIsBacked'
    <3> SUFFICES ASSUME NEW p \in Calls, at'[p] = "fetched"
                 PROVE  Backing(request[p].user)' >= snap'[p].gp
      BY DEF ReadIsBacked
    <3>1. CASE p = o
      BY <2>2, <2>4, <2>6, <2>7, <3>1
    <3>2. CASE p # o
      <4>1. at[p] = "fetched" /\ snap'[p] = snap[p] /\ request'[p] = request[p]
        BY <1>1, <2>3, <2>4, <3>2
      <4>2. request[p].user \in Users
        BY <1>0, <1>1, <4>1, RequestTyped
      <4> QED
        BY <2>6, <4>1, <4>2 DEF OverdraftInv, ReadIsBacked
    <3> QED
      BY <3>1, <3>2
  <2> QED
    BY <1>0, <2>8, <2>9 DEF OverdraftInv
<1>6. ASSUME NEW o \in Writers, o \notin Wagers \/ at[o] # "unused",
             NEW outcome \in {"ok", "failed", "staked"},
             Settles(o, outcome), request' = request, \A u \in Users : gp'[u] >= gp[u]
      PROVE  OverdraftInv'
  <2>1. \A w \in Writers : w # o => at'[w] = at[w]
    BY <1>0, <1>6 DEF BankTypeOK, Settles
  <2>2. at'[o] \in {"ok", "failed", "staked"}
    BY <1>0, <1>6 DEF BankTypeOK, Settles
  <2>3. \A u \in Users : Backing(u)' >= Backing(u)
    BY <1>1, <1>3, <1>6, <2>1, <2>2
  <2> QED
    BY <1>0, <1>6, <2>3, OthersRun, OverdraftKept
<1>7. ASSUME NEW o \in Calls, Refuse(o) \/ QueryFails(o)
      PROVE  OverdraftInv'
  <2>1. at[o] = "fetched" /\ Settles(o, "failed") /\ UNCHANGED <<gp, request>>
    BY <1>7 DEF Refuse, QueryFails
  <2> QED
    BY <1>1, <1>2, <1>6, <2>1
<1>8. ASSUME NEW o \in Calls, Commit(o)
      PROVE  OverdraftInv'
  <2>1. at[o] = "fetched" /\ Settles(o, "ok") /\ request' = request /\ o \in Writers /\ o \notin Wagers
    BY <1>1, <1>8, UserBankAssumption DEF Commit
  <2>0. request[o] \in Requests /\ request[o].user \in Users /\ CoinChange(request[o]) \in Int
    BY <1>0, <2>1, RequestTyped
  <2>2. PICK u \in Users, c \in Int : u = request[o].user /\ c = CoinChange(request[o])
    BY <2>0
  <2>3. gp' = [gp EXCEPT ![u] = @ + c]
    BY <1>8, <2>2 DEF Commit
  <2>4. \A v \in Users : v # u => gp'[v] = gp[v]
    BY <1>0, <2>3 DEF BankTypeOK
  <2>5. gp'[u] = gp[u] + c
    BY <1>0, <2>2, <2>3 DEF BankTypeOK
  <2>6. snap[o].gp \in Int
    BY <1>0, <2>1 DEF BankTypeOK
  <2>7. c < 0 => snap[o].gp + c >= 0
    <3>1. request[o].coinsAdd \in Nat /\ request[o].coinsRemove \in Nat
      BY <2>0, BankAssumption DEF RequestType
    <3>2. c < 0 => request[o].coinsRemove > 0
      BY <2>2, <3>1 DEF CoinChange
    <3>3. Removes(request[o]) => snap[o].gp >= request[o].coinsRemove - request[o].coinsAdd
      BY <1>8 DEF Commit, GrantedCall, Granted
    <3> QED
      BY <2>2, <2>6, <3>1, <3>2, <3>3 DEF Removes, CoinChange
  <2>8. \A w \in Writers : w # o => at'[w] = at[w]
    BY <1>0, <2>1 DEF BankTypeOK, Settles
  <2>9. \A v \in Users : Thrown(v)' = Thrown(v)
    BY <1>1, <2>1, <2>8 DEF Thrown
  <2>10. \A v \in Users : v # u => Backing(v)' = Backing(v)
    BY <2>4, <2>9 DEF Backing
  <2>11. Backing(u)' = Backing(u) + c
    <3>1. Backing(u)' = gp'[u] + Stake * Cardinality(Thrown(u))
      BY <2>1, <2>2, <2>9 DEF Backing
    <3>2. Stake * Cardinality(Thrown(u)) \in Nat /\ gp[u] \in Int
      BY <1>0, <2>2, BackingTyped
    <3> QED
      BY <2>2, <2>5, <3>1, <3>2 DEF Backing
  <2>12. Backing(u) \in Int /\ Backing(u) >= 0 /\ Backing(u) >= snap[o].gp
    BY <1>0, <2>1, <2>2, BackingTyped DEF OverdraftInv, CoinsAreBacked, ReadIsBacked
  <2>13. Backing(u)' >= 0
    BY <2>2, <2>6, <2>7, <2>11, <2>12
  <2>14. CoinsAreBacked'
    BY <2>10, <2>13 DEF OverdraftInv, CoinsAreBacked
  <2>15. \A p \in Calls : at'[p] = "fetched" => p # o /\ at[p] = "fetched" /\ snap'[p] = snap[p]
    BY <1>0, <2>1, OthersRun
  <2>16. \A p \in Calls : at'[p] = "fetched" => request[p].user # u
    BY <1>0, <2>1, <2>2, <2>15 DEF QueueInv, RunsAlone
  <2>17. \A p \in Calls : at'[p] = "fetched" => request[p].user \in Users
    BY <1>0, <1>1, <2>15, RequestTyped
  <2>18. ReadIsBacked'
    BY <2>1, <2>10, <2>15, <2>16, <2>17 DEF OverdraftInv, ReadIsBacked
  <2> QED
    BY <1>0, <2>14, <2>18 DEF OverdraftInv
<1>9. ASSUME NEW d \in DirectLogs, NEW r \in Requests, LogFetch(d, r)
      PROVE  OverdraftInv'
  <2>1. d \notin Wagers /\ d \notin Calls
    BY UserBankAssumption
  <2>2. \A w \in Writers : w # d => at'[w] = at[w] /\ request'[w] = request[w] /\ snap'[w] = snap[w]
    BY <1>0, <1>9 DEF BankTypeOK, LogFetch
  <2>3. gp' = gp
    BY <1>9 DEF LogFetch
  <2>4. \A u \in Users : Backing(u)' >= Backing(u)
    BY <1>1, <1>2, <1>3, <2>1, <2>2, <2>3
  <2>5. \A p \in Calls : at'[p] = "fetched" =>
          at[p] = "fetched" /\ snap'[p].gp = snap[p].gp /\ request'[p] = request[p]
    BY <1>1, <2>1, <2>2
  <2> QED
    BY <1>0, <2>4, <2>5, OverdraftKept
<1>10. ASSUME NEW d \in DirectLogs, LogWrite(d)
       PROVE  OverdraftInv'
  <2>1. at[d] = "fetched" /\ Settles(d, "ok") /\ UNCHANGED <<gp, request>>
    BY <1>10 DEF LogWrite
  <2> QED
    BY <1>1, <1>2, <1>6, <2>1
<1>11. ASSUME NEW g \in Wagers, NEW r \in Requests, WagerChecks(g, r)
       PROVE  OverdraftInv'
  <2>1. at[g] = "unused" /\ g \notin Calls
    BY <1>11, UserBankAssumption DEF WagerChecks
  <2>2. \A w \in Writers : w # g => at'[w] = at[w] /\ request'[w] = request[w]
    BY <1>0, <1>11 DEF BankTypeOK, WagerChecks
  <2>3. UNCHANGED <<gp, snap>>
    BY <1>11 DEF WagerChecks
  <2>4. \A u \in Users : Backing(u)' >= Backing(u)
    BY <1>1, <1>2, <1>3, <2>1, <2>2, <2>3
  <2>5. \A p \in Calls : at'[p] = "fetched" =>
          at[p] = "fetched" /\ snap'[p].gp = snap[p].gp /\ request'[p] = request[p]
    BY <1>1, <2>1, <2>2, <2>3
  <2> QED
    BY <1>0, <2>4, <2>5, OverdraftKept
<1>12. ASSUME NEW g \in Wagers, WagerThrows(g)
       PROVE  OverdraftInv'
  <2>1. at[g] = "fetched" /\ Settles(g, "failed") /\ UNCHANGED <<gp, request>>
    BY <1>12 DEF WagerThrows
  <2> QED
    BY <1>1, <1>2, <1>6, <2>1
<1>13. ASSUME NEW g \in Wagers, WagerIsSpecial(g)
       PROVE  OverdraftInv'
  <2>2. 5 * Stake \in Nat
    BY UserBankAssumption
  <2>1. /\ at[g] = "fetched" /\ Settles(g, "ok") /\ request' = request
        /\ \E n \in Nat : gp' = [gp EXCEPT ![request[g].user] = @ + n]
    BY <1>13, <2>2 DEF WagerIsSpecial, CoinsMove
  <2>3. \A u \in Users : gp'[u] >= gp[u]
    BY <1>0, <1>2, <2>1 DEF BankTypeOK
  <2> QED
    BY <1>1, <1>6, <2>1, <2>3
<1>14. ASSUME NEW g \in Wagers, WagerTakes(g)
       PROVE  OverdraftInv'
  <2>1. /\ at[g] = "fetched" /\ Settles(g, "staked") /\ request' = request
        /\ gp' = [gp EXCEPT ![request[g].user] = @ + (0 - Stake)] /\ g \in Writers
    BY <1>1, <1>14 DEF WagerTakes, CoinsMove
  <2>2. PICK u \in Users : u = request[g].user
    BY <1>0, <2>1, RequestTyped
  <2>3. gp'[u] = gp[u] - Stake
    BY <1>0, <1>2, <2>1, <2>2, UserBankAssumption DEF BankTypeOK
  <2>4. \A w \in Writers : w # g => at'[w] = at[w]
    BY <1>0, <2>1 DEF BankTypeOK, Settles
  <2>5. at'[g] = "staked"
    BY <1>0, <2>1 DEF BankTypeOK, Settles
  <2>6. g \notin Thrown(u) /\ Thrown(u)' = Thrown(u) \cup {g}
    BY <1>1, <2>1, <2>2, <2>4, <2>5 DEF Thrown
  <2>7. Backing(u)' = Backing(u)
    BY <1>0, <2>2, <2>3, <2>6, BackingOfAStake
  <2>8. ASSUME NEW v \in Users, v # u
        PROVE  Backing(v)' = Backing(v)
    <3>1. Thrown(v)' = Thrown(v)
      BY <1>1, <2>1, <2>2, <2>4, <2>5, <2>8 DEF Thrown
    <3>2. gp'[v] = gp[v]
      BY <1>0, <2>1, <2>2, <2>8 DEF BankTypeOK
    <3> QED
      BY <3>1, <3>2 DEF Backing
  <2>9. \A v \in Users : Backing(v)' >= Backing(v)
    BY <1>0, <2>7, <2>8, BackingTyped
  <2> QED
    BY <1>0, <2>1, <2>9, OthersRun, OverdraftKept
<1>15. ASSUME NEW g \in Wagers, WagerEnds(g)
       PROVE  OverdraftInv'
  <2>2. 2 * Stake \in Nat
    BY UserBankAssumption
  <2>1. /\ at[g] = "staked" /\ Settles(g, "ok") /\ request' = request
        /\ CoinsMove(g, 2 * Stake) \/ UNCHANGED gp
    BY <1>15 DEF WagerEnds
  <2>4. (\E n \in Nat : gp' = [gp EXCEPT ![request[g].user] = @ + n]) \/ UNCHANGED gp
    BY <2>1, <2>2 DEF CoinsMove
  <2>3. \A u \in Users : gp'[u] >= gp[u]
    <3>1. ASSUME NEW n \in Nat, gp' = [gp EXCEPT ![request[g].user] = @ + n]
          PROVE  \A u \in Users : gp'[u] >= gp[u]
      BY <1>0, <1>2, <3>1 DEF BankTypeOK
    <3>2. CASE UNCHANGED gp
      BY <1>2, <3>2
    <3> QED
      BY <2>4, <3>1, <3>2
  <2> QED
    BY <1>1, <1>6, <2>1, <2>3
<1>16. CASE ProcessDies
  <2>1. UNCHANGED <<gp, request>>
    BY <1>16 DEF ProcessDies
  <2>2. \A w \in Writers : at[w] \notin {"unused", "fetched"} => at'[w] \notin {"unused", "fetched"}
    BY <1>16 DEF ProcessDies
  <2>3. \A p \in Calls : at'[p] # "fetched"
    BY <1>1, <1>16 DEF ProcessDies
  <2>4. \A u \in Users : Backing(u)' >= Backing(u)
    BY <1>1, <1>2, <1>3, <2>1, <2>2
  <2> QED
    BY <1>0, <2>3, <2>4, OverdraftKept
<1>17. CASE UNCHANGED bankVars
  <2>1. UNCHANGED <<gp, request, at, snap>>
    BY <1>17 DEF bankVars
  <2>2. \A u \in Users : Backing(u)' >= Backing(u)
    BY <1>2, <1>3, <2>1
  <2> QED
    BY <1>0, <2>1, <2>2, OverdraftKept
<1> QED
  BY <1>4, <1>5, <1>7, <1>8, <1>9, <1>10, <1>11, <1>12, <1>13, <1>14, <1>15, <1>16, <1>17
  DEF UserBankNext, Serve

(* Coins fall below zero by no more than the stakes of the wagers that     *)
(* passed their check, whatever transactions the queue interleaves with    *)
(* them and wherever the process dies                                      *)
(* (hotColdCommand.ts:102-128, transactItemsFromBank.ts:44-56).            *)
THEOREM OverdraftIsWageredCorrect == UserBankSafety => []OverdraftIsWagered
<1>1. OverdraftInv => OverdraftIsWagered
  <2> SUFFICES ASSUME OverdraftInv
               PROVE  \A u \in Users : gp[u] + Stake * Cardinality({g \in Wagers : at[g] # "unused" /\ request[g].user = u}) >= 0
    BY Zenon DEF OverdraftIsWagered
  <2> TAKE u \in Users
  <2> DEFINE started == {g \in Wagers : at[g] # "unused" /\ request[g].user = u}
  <2>1. BankTypeOK /\ Backing(u) >= 0
    BY DEF OverdraftInv, QueueInv, CoinsAreBacked
  <2>2. IsFiniteSet(started) /\ Cardinality(started) \in Nat
    BY UserBankAssumption, FS_Subset, FS_CardinalityType
  <2>3. Thrown(u) \subseteq started
    BY DEF Thrown
  <2>4. Cardinality(Thrown(u)) <= Cardinality(started)
    BY <2>2, <2>3, FS_Subset
  <2>5. /\ Cardinality(Thrown(u)) \in Nat /\ Stake * Cardinality(Thrown(u)) \in Nat
        /\ gp[u] \in Int
    BY <2>1, BackingTyped
  <2>6. Stake * Cardinality(Thrown(u)) <= Stake * Cardinality(started)
    BY <2>2, <2>4, <2>5, MoreStakes
  <2>7. Stake * Cardinality(started) \in Nat
    BY <2>2, UserBankAssumption
  <2> HIDE DEF started
  <2>8. gp[u] + Stake * Cardinality(started) >= 0
    BY <2>1, <2>5, <2>6, <2>7 DEF Backing
  <2> QED
    BY <2>8 DEF started
<1> QED
  BY <1>1, OverdraftInit, OverdraftStep, PTL DEF UserBankSafety

-----------------------------------------------------------------------------
(* The items, wagers or not.  Wagers touch the coins alone, so the stale   *)
(* coins a call may compute with never spoil the bank it writes back.      *)
ItemsAreWhole == bank \in [Users -> Banks] /\ OneClueOfATier

LEMMA OnlyCommitsWriteBanks ==
  ASSUME [UserBankNext]_bankVars
  PROVE  bank' = bank \/ \E o \in Calls : Commit(o)
BY DEF UserBankNext, Serve, Fetch, Refuse, QueryFails, Enqueue, LogFetch, LogWrite, WagerChecks,
       WagerThrows, WagerIsSpecial, WagerTakes, WagerEnds, ProcessDies, bankVars

LEMMA ItemsStep == QueueInv /\ ItemsAreWhole /\ [UserBankNext]_bankVars => ItemsAreWhole'
<1> SUFFICES ASSUME QueueInv, ItemsAreWhole, [UserBankNext]_bankVars
             PROVE  ItemsAreWhole'
  OBVIOUS
<1>1. CASE bank' = bank
  BY <1>1 DEF ItemsAreWhole, OneClueOfATier
<1>2. ASSUME NEW o \in Calls, Commit(o)
      PROVE  ItemsAreWhole'
  <2> DEFINE u == request[o].user
             b == bank[u]
             r == request[o]
  <2>1. o \in Writers /\ at[o] = "fetched"
    BY <1>2 DEF Commit, Writers
  <2>2. r \in RequestType /\ u \in Users
    BY <2>1, RequestTyped, BankAssumption DEF QueueInv
  <2>3. snap[o].bank = b /\ snap[o].gp \in Int /\ b \in Banks
    BY <2>1, <2>2 DEF QueueInv, BankTypeOK, SnapshotIsCurrent, ItemsAreWhole
  <2>4. Granted(b, snap[o].gp, r)
    BY <1>2, <2>3 DEF Commit, GrantedCall
  <2>5. bank' = [bank EXCEPT ![u] = BankAfter(b, r)]
    BY <1>2, <2>3 DEF Commit
  <2>6. BankAfter(b, r) \in Banks
    BY <2>2, <2>3, <2>4, BankAfterTyped
  <2>7. \A i \in Clues : b[i] <= 1 => BankAfter(b, r)[i] <= 1
    BY <2>2, <2>3, <2>4, NoSecondClue
  <2> HIDE DEF u, b, r
  <2>8. \A i \in Clues : b[i] <= 1
    BY <2>2 DEF b, ItemsAreWhole, OneClueOfATier
  <2>9. \A v \in Users : bank'[v] = IF v = u THEN BankAfter(b, r) ELSE bank[v]
    BY <2>2, <2>5 DEF ItemsAreWhole
  <2>10. bank' \in [Users -> Banks]
    BY <2>2, <2>5, <2>6 DEF ItemsAreWhole
  <2>11. OneClueOfATier'
    BY <2>7, <2>8, <2>9 DEF ItemsAreWhole, OneClueOfATier
  <2> QED
    BY <2>10, <2>11 DEF ItemsAreWhole
<1> QED
  BY <1>1, <1>2, OnlyCommitsWriteBanks

(* Whatever wagers take behind the queue's back, nobody owns a negative    *)
(* number of an item, or two clues of a tier                               *)
(* (transactItemsFromBank.ts:58-118, clueUtils.ts:9-23).                   *)
THEOREM ItemsAreWholeCorrect == UserBankSafety => []ItemsAreWhole
<1>1. UserBankInit => ItemsAreWhole
  BY LedgerInit DEF UserBankInit, LedgerInv, Solvent, ItemsAreWhole
<1> QED
  BY <1>1, ItemsStep, QueueInit, QueueStep, PTL DEF UserBankSafety

-----------------------------------------------------------------------------
(* The queue.  A call that waits does so once, in the line of its user, and *)
(* while anyone waits there the line can move on: its user's transaction   *)
(* is running, or the first call may start.                                *)
WaitsInLine ==
  /\ \A u \in Users : \A i \in 1..Len(queue[u]) :
       LET o == queue[u][i] IN
         /\ at[o] = "queued" /\ request[o].user = u
         /\ \A j \in 1..Len(queue[u]) : queue[u][j] = o => j = i
  /\ \A o \in Calls : at[o] = "queued" =>
       \E i \in 1..Len(queue[request[o].user]) : queue[request[o].user][i] = o

\* The guard of Fetch.
CanStart(o) ==
  /\ at[o] = "queued"
  /\ Running(request[o].user) = {}
  /\ queue[request[o].user] # <<>> /\ o = Head(queue[request[o].user])

QueueMovesOn ==
  \A o \in Calls : at[o] = "queued" =>
    \E p \in Calls : (at[p] = "fetched" \/ CanStart(p)) /\ request[p].user = request[o].user

LineInv == BankTypeOK /\ WaitsInLine

LEMMA LineInit == UserBankInit => LineInv
<1> SUFFICES ASSUME UserBankInit
             PROVE  LineInv
  OBVIOUS
<1>1. \A u \in Users : Len(queue[u]) = 0
  BY DEF UserBankInit
<1>2. \A o \in Calls : at[o] # "queued"
  BY DEF UserBankInit, Writers
<1> QED
  BY <1>1, <1>2, BankInitTyped DEF LineInv, WaitsInLine

(* Steps that leave the lines and who waits in them alone.                 *)
LEMMA LineStays ==
  ASSUME BankTypeOK, WaitsInLine, queue' = queue,
         \A o \in Calls : at'[o] = "queued" <=> at[o] = "queued",
         \A o \in Calls : at[o] = "queued" => request'[o] = request[o]
  PROVE  WaitsInLine'
<1>1. \A u \in Users : \A i \in 1..Len(queue[u]) : queue[u][i] \in Calls
  BY DEF BankTypeOK
<1>2. \A u \in Users : \A i \in 1..Len(queue[u]) :
        LET o == queue[u][i] IN
          /\ at'[o] = "queued" /\ request'[o].user = u
          /\ \A j \in 1..Len(queue[u]) : queue[u][j] = o => j = i
  BY <1>1 DEF WaitsInLine
<1>3. \A o \in Calls : at'[o] = "queued" =>
        \E i \in 1..Len(queue[request'[o].user]) : queue[request'[o].user][i] = o
  BY DEF WaitsInLine
<1> QED
  BY <1>2, <1>3 DEF WaitsInLine

LEMMA EnqueueStep ==
  ASSUME BankTypeOK, WaitsInLine, NEW o \in Calls, NEW r \in Requests, Enqueue(o, r)
  PROVE  WaitsInLine'
<1> DEFINE u == r.user
           q == queue[u]
<1>1. u \in Users /\ q \in Seq(Calls) /\ o \in Writers
  BY BankAssumption DEF RequestType, BankTypeOK, Writers
<1>2. /\ \A p \in Calls : at'[p] = IF p = o THEN "queued" ELSE at[p]
      /\ \A p \in Calls : request'[p] = IF p = o THEN r ELSE request[p]
      /\ \A v \in Users : queue'[v] = IF v = u THEN Append(q, o) ELSE queue[v]
      /\ at[o] = "unused"
  BY <1>1 DEF Enqueue, BankTypeOK, Writers
<1>3. /\ Len(Append(q, o)) = Len(q) + 1 /\ Len(q) \in Nat
      /\ Append(q, o)[Len(q) + 1] = o
      /\ \A i \in 1..Len(q) : Append(q, o)[i] = q[i]
  BY <1>1
<1>4. \A v \in Users : \A i \in 1..Len(queue[v]) : queue[v][i] \in Calls /\ queue[v][i] # o
  BY <1>2 DEF BankTypeOK, WaitsInLine
<1>5. ASSUME NEW v \in Users, NEW i \in 1..Len(queue'[v])
      PROVE  LET p == queue'[v][i] IN
               /\ at'[p] = "queued" /\ request'[p].user = v
               /\ \A j \in 1..Len(queue'[v]) : queue'[v][j] = p => j = i
  <2>1. CASE v # u
    <3>1. queue'[v] = queue[v]
      BY <1>2, <2>1
    <3> QED
      BY <1>2, <1>4, <3>1 DEF WaitsInLine
  <2>2. CASE v = u /\ i \in 1..Len(q)
    <3>1. queue'[v] = Append(q, o) /\ queue'[v][i] = q[i] /\ q[i] \in Calls /\ q[i] # o
      BY <1>1, <1>2, <1>3, <1>4, <2>2
    <3>2. at[q[i]] = "queued" /\ request[q[i]].user = u
      BY <1>1, <2>2 DEF WaitsInLine
    <3>3. ASSUME NEW j \in 1..Len(queue'[v]), queue'[v][j] = q[i]
          PROVE  j = i
      <4>1. j \in 1..Len(q)
        BY <1>3, <3>1, <3>3
      <4>2. q[j] = q[i]
        BY <1>3, <3>1, <3>3, <4>1
      <4> QED
        BY <1>1, <2>2, <4>1, <4>2 DEF WaitsInLine
    <3> QED
      BY <1>2, <2>2, <3>1, <3>2, <3>3
  <2>3. CASE v = u /\ i = Len(q) + 1
    <3>1. queue'[v] = Append(q, o) /\ queue'[v][i] = o
      BY <1>1, <1>2, <1>3, <2>3
    <3>2. ASSUME NEW j \in 1..Len(queue'[v]), queue'[v][j] = o
          PROVE  j = i
      <4>1. j \in 1..Len(q) => Append(q, o)[j] # o
        BY <1>1, <1>3, <1>4
      <4> QED
        BY <1>3, <2>3, <3>1, <3>2, <4>1
    <3> QED
      BY <1>2, <2>3, <3>1, <3>2
  <2>4. ASSUME v = u
        PROVE  i \in 1..Len(q) \/ i = Len(q) + 1
    <3>1. queue'[v] = Append(q, o)
      BY <1>1, <1>2, <2>4
    <3>2. i \in 1..(Len(q) + 1)
      BY <1>3, <3>1
    <3> QED
      BY <1>3, <3>2
  <2> QED
    BY <2>1, <2>2, <2>3, <2>4
<1>6. ASSUME NEW p \in Calls, at'[p] = "queued"
      PROVE  \E i \in 1..Len(queue'[request'[p].user]) : queue'[request'[p].user][i] = p
  <2>1. CASE p = o
    <3>1. request'[p].user = u /\ queue'[u] = Append(q, o)
      BY <1>1, <1>2, <2>1
    <3>2. Len(q) + 1 \in 1..Len(Append(q, o)) /\ Append(q, o)[Len(q) + 1] = p
      BY <1>3, <2>1
    <3> QED
      BY <3>1, <3>2
  <2>2. CASE p # o
    <3>1. at[p] = "queued" /\ request'[p] = request[p]
      BY <1>2, <1>6, <2>2
    <3>2. request[p].user \in Users
      BY <3>1, RequestTyped DEF Writers
    <3>3. PICK i \in 1..Len(queue[request[p].user]) : queue[request[p].user][i] = p
      BY <3>1 DEF WaitsInLine
    <3>4. CASE request[p].user = u
      <4>1. queue'[u] = Append(q, o) /\ i \in 1..Len(q) /\ q[i] = p
        BY <1>1, <1>2, <3>3, <3>4
      <4>2. i \in 1..Len(Append(q, o)) /\ Append(q, o)[i] = p
        BY <1>3, <4>1
      <4> QED
        BY <3>1, <3>4, <4>1, <4>2
    <3>5. CASE request[p].user # u
      <4>1. queue'[request[p].user] = queue[request[p].user]
        BY <1>2, <3>2, <3>5
      <4> QED
        BY <3>1, <3>3, <4>1
    <3> QED
      BY <3>4, <3>5
  <2> QED
    BY <2>1, <2>2
<1> QED
  BY <1>5, <1>6 DEF WaitsInLine

LEMMA FetchStep ==
  ASSUME BankTypeOK, WaitsInLine, NEW o \in Calls, Fetch(o)
  PROVE  WaitsInLine'
<1>0. PICK u : u = request[o].user
  OBVIOUS
<1> DEFINE q == queue[u]
<1>1. u \in Users /\ q \in Seq(Calls) /\ o \in Writers
  BY <1>0, RequestTyped DEF Fetch, BankTypeOK, Writers
<1>2. /\ \A p \in Calls : at'[p] = IF p = o THEN "fetched" ELSE at[p]
      /\ request' = request
      /\ \A v \in Users : queue'[v] = IF v = u THEN Tail(q) ELSE queue[v]
      /\ q # <<>> /\ o = Head(q)
  BY <1>0, <1>1 DEF Fetch, BankTypeOK, Writers
<1>3. /\ Len(q) \in Nat /\ Len(q) >= 1 /\ q[1] = o
      /\ Len(Tail(q)) = Len(q) - 1
      /\ \A i \in 1..(Len(q) - 1) : Tail(q)[i] = q[i + 1]
  BY <1>1, <1>2
<1>4. \A v \in Users : \A i \in 1..Len(queue[v]) : queue[v][i] \in Calls
  BY DEF BankTypeOK
<1>5. ASSUME NEW v \in Users, NEW i \in 1..Len(queue'[v])
      PROVE  LET p == queue'[v][i] IN
               /\ at'[p] = "queued" /\ request'[p].user = v
               /\ \A j \in 1..Len(queue'[v]) : queue'[v][j] = p => j = i
  <2>1. CASE v # u
    <3>1. queue'[v] = queue[v]
      BY <1>2, <2>1
    <3>2. queue[v][i] \in Calls /\ request[queue[v][i]].user = v /\ queue[v][i] # o
      BY <1>0, <1>4, <2>1, <3>1 DEF WaitsInLine
    <3> QED
      BY <1>2, <3>1, <3>2 DEF WaitsInLine
  <2>2. CASE v = u
    <3>1. queue'[v] = Tail(q) /\ i \in 1..(Len(q) - 1) /\ queue'[v][i] = q[i + 1]
      BY <1>1, <1>2, <1>3, <2>2
    <3>2. i + 1 \in 1..Len(q) /\ 1 \in 1..Len(q) /\ i + 1 # 1
      BY <1>3, <3>1
    <3>3. q[i + 1] \in Calls /\ at[q[i + 1]] = "queued" /\ request[q[i + 1]].user = u
      BY <1>1, <1>4, <3>2 DEF WaitsInLine
    <3>4. q[i + 1] # o
      BY <1>1, <1>3, <3>2 DEF WaitsInLine
    <3>5. ASSUME NEW j \in 1..Len(queue'[v]), queue'[v][j] = q[i + 1]
          PROVE  j = i
      <4>1. j + 1 \in 1..Len(q) /\ q[j + 1] = q[i + 1]
        BY <1>3, <3>1, <3>5
      <4>2. j + 1 = i + 1
        BY <1>1, <3>2, <4>1 DEF WaitsInLine
      <4> QED
        BY <3>1, <4>2, <1>3
    <3> QED
      BY <1>2, <2>2, <3>1, <3>3, <3>4, <3>5
  <2> QED
    BY <2>1, <2>2
<1>6. ASSUME NEW p \in Calls, at'[p] = "queued"
      PROVE  \E i \in 1..Len(queue'[request'[p].user]) : queue'[request'[p].user][i] = p
  <2>1. p # o /\ at[p] = "queued" /\ request' = request
    BY <1>2, <1>6
  <2>2. request[p].user \in Users
    BY <2>1, RequestTyped DEF Writers
  <2>3. PICK i \in 1..Len(queue[request[p].user]) : queue[request[p].user][i] = p
    BY <2>1 DEF WaitsInLine
  <2>4. CASE request[p].user = u
    <3>1. i \in 1..Len(q) /\ q[i] = p /\ i # 1
      BY <1>3, <2>1, <2>3, <2>4
    <3>2. i - 1 \in 1..(Len(q) - 1) /\ (i - 1) + 1 = i
      BY <1>3, <3>1
    <3>3. i - 1 \in 1..Len(Tail(q)) /\ Tail(q)[i - 1] = p
      BY <1>3, <3>1, <3>2
    <3>4. queue'[u] = Tail(q)
      BY <1>1, <1>2
    <3> QED
      BY <2>1, <2>4, <3>3, <3>4
  <2>5. CASE request[p].user # u
    <3>1. queue'[request[p].user] = queue[request[p].user]
      BY <1>2, <2>2, <2>5
    <3> QED
      BY <2>1, <2>3, <3>1
  <2> QED
    BY <2>4, <2>5
<1> QED
  BY <1>5, <1>6 DEF WaitsInLine

LEMMA LineStep == LineInv /\ [UserBankNext]_bankVars => LineInv'
<1> SUFFICES ASSUME LineInv, [UserBankNext]_bankVars
             PROVE  LineInv'
  OBVIOUS
<1>0. BankTypeOK /\ BankTypeOK' /\ WaitsInLine
  BY BankTypeStep DEF LineInv
<1>1. Calls \subseteq Writers
  BY DEF Writers
<1>2. ASSUME NEW o \in Calls, NEW r \in Requests, Enqueue(o, r)
      PROVE  WaitsInLine'
  BY <1>0, <1>2, EnqueueStep
<1>3. ASSUME NEW o \in Calls, Fetch(o)
      PROVE  WaitsInLine'
  BY <1>0, <1>3, FetchStep
<1>4. ASSUME NEW o \in Calls, Refuse(o) \/ Commit(o) \/ QueryFails(o)
      PROVE  WaitsInLine'
  <2>1. PICK outcome \in {"ok", "failed"} : Settles(o, outcome) /\ at[o] = "fetched"
    BY <1>4 DEF Refuse, Commit, QueryFails
  <2>2. queue' = queue /\ request' = request
    BY <1>4 DEF Refuse, Commit, QueryFails
  <2>3. \A p \in Calls : at'[p] = "queued" <=> at[p] = "queued"
    BY <1>0, <1>1, <2>1 DEF Settles, BankTypeOK
  <2> QED
    BY <1>0, <2>2, <2>3, LineStays
<1>5. ASSUME NEW w \in DirectLogs \cup Wagers, queue' = queue,
             \A v \in Writers \ {w} : at'[v] = at[v] /\ request'[v] = request[v]
      PROVE  WaitsInLine'
  <2>1. w \notin Calls
    BY UserBankAssumption
  <2> QED
    BY <1>0, <1>1, <1>5, <2>1, LineStays
<1>6. ASSUME NEW d \in DirectLogs, LogWrite(d) \/ \E r \in Requests : LogFetch(d, r)
      PROVE  WaitsInLine'
  <2>1. queue' = queue /\ \A v \in Writers \ {d} : at'[v] = at[v] /\ request'[v] = request[v]
    BY <1>0, <1>6 DEF LogWrite, LogFetch, Settles, BankTypeOK
  <2> QED
    BY <1>5, <2>1
<1>7. ASSUME NEW g \in Wagers,
             \/ WagerThrows(g) \/ WagerIsSpecial(g) \/ WagerTakes(g) \/ WagerEnds(g)
             \/ \E r \in Requests : WagerChecks(g, r)
      PROVE  WaitsInLine'
  <2>1. queue' = queue /\ \A v \in Writers \ {g} : at'[v] = at[v] /\ request'[v] = request[v]
    BY <1>0, <1>7
    DEF WagerThrows, WagerIsSpecial, WagerTakes, WagerEnds, WagerChecks, Settles, BankTypeOK
  <2> QED
    BY <1>5, <2>1
<1>8. ASSUME ProcessDies
      PROVE  WaitsInLine'
  <2>1. \A u \in Users : Len(queue'[u]) = 0
    BY <1>8 DEF ProcessDies
  <2>2. \A o \in Calls : at'[o] # "queued"
    BY <1>0, <1>1, <1>8 DEF ProcessDies
  <2> QED
    BY <2>1, <2>2 DEF WaitsInLine
<1>9. ASSUME UNCHANGED bankVars
      PROVE  WaitsInLine'
  <2>1. queue' = queue /\ at' = at /\ request' = request
    BY <1>9 DEF bankVars
  <2> QED
    BY <1>0, <2>1, LineStays
<1> QED
  BY <1>0, <1>2, <1>3, <1>4, <1>6, <1>7, <1>8, <1>9 DEF UserBankNext, Serve, LineInv

(* No call is lost, doubled or put in another user's line, and a line      *)
(* never stands still: a call that waits has a transaction of its user     *)
(* running before it, or the first of its line may start                   *)
(* (userQueues.ts:3-17).                                                   *)
THEOREM QueueMovesOnCorrect == UserBankSafety => [](WaitsInLine /\ QueueMovesOn)
<1>1. ASSUME LineInv, NEW o \in Calls, at[o] = "queued"
      PROVE  \E p \in Calls : (at[p] = "fetched" \/ CanStart(p)) /\ request[p].user = request[o].user
  <2>0. PICK u \in Users : u = request[o].user
    BY <1>1, RequestTyped DEF LineInv, Writers
  <2>1. PICK i \in 1..Len(queue[u]) : queue[u][i] = o
    BY <1>1, <2>0 DEF LineInv, WaitsInLine
  <2>2. queue[u] \in Seq(Calls)
    BY <1>1 DEF LineInv, BankTypeOK
  <2>3. queue[u] # <<>> /\ 1 \in 1..Len(queue[u]) /\ Head(queue[u]) = queue[u][1] /\ queue[u][1] \in Calls
    BY <2>1, <2>2
  <2>4. at[queue[u][1]] = "queued" /\ request[queue[u][1]].user = u
    BY <1>1, <2>3 DEF LineInv, WaitsInLine
  <2>5. CASE Running(u) = {}
    BY <2>0, <2>3, <2>4, <2>5 DEF CanStart
  <2>6. CASE Running(u) # {}
    BY <2>0, <2>6 DEF Running
  <2> QED
    BY <2>5, <2>6
<1>2. LineInv => WaitsInLine /\ QueueMovesOn
  BY <1>1 DEF LineInv, QueueMovesOn
<1> QED
  BY <1>2, LineInit, LineStep, PTL DEF UserBankSafety
=============================================================================
