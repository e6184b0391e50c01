-------------------------- MODULE AtomicBank_proofs --------------------------
(***************************************************************************)
(* For any users, items and requests: atomic transactions keep everyone    *)
(* solvent and leave nobody a second clue scroll; and how goods add up     *)
(* over finite sets of users, deals and giveaways.                         *)
(***************************************************************************)
EXTENDS AtomicBank, FiniteSetTheorems, TLAPS

(* Handing over a bundle is a request, and so is receiving one.            *)
LEMMA OutInTyped ==
  ASSUME NEW u \in Users, NEW p \in Purses
  PROVE  Out(u, p) \in RequestType /\ In(u, p) \in RequestType
<1>1. NoItems \in Banks /\ p.items \in Banks /\ p.coins \in Nat
  BY DEF NoItems, Banks, Purses
<1> QED
  BY <1>1 DEF Out, In, RequestType

(* The loot is a bank, after deduplication too.                            *)
LEMMA GainsTyped ==
  ASSUME NEW r \in RequestType, NEW b
  PROVE  Gains(b, r) \in Banks
<1>1. r.add \in Banks
  BY DEF RequestType
<1> QED
  BY <1>1 DEF Gains, Banks

(* What a granted request leaves in a bank is a bank.                      *)
LEMMA BankAfterTyped ==
  ASSUME NEW r \in RequestType, NEW b \in Banks, NEW coins \in Int, Granted(b, coins, r)
  PROVE  BankAfter(b, r) \in Banks
<1>1. r.remove \in Banks
  BY DEF RequestType
<1>2. Gains(b, r) \in Banks
  BY GainsTyped
<1>3. ASSUME NEW i \in Items
      PROVE  b[i] + Gains(b, r)[i] - r.remove[i] \in Nat
  <2>1. b[i] \in Nat /\ Gains(b, r)[i] \in Nat /\ r.remove[i] \in Nat
    BY <1>1, <1>2 DEF Banks
  <2>2. b[i] + Gains(b, r)[i] >= r.remove[i]
    BY DEF Granted
  <2> QED
    BY <2>1, <2>2
<1> QED
  BY <1>3 DEF BankAfter, Banks

(* A request that removes nothing takes no coins.                          *)
LEMMA CoinsStayNat ==
  ASSUME NEW r \in RequestType, NEW b, NEW coins \in Nat, Granted(b, coins, r)
  PROVE  coins + CoinChange(r) \in Nat
<1>1. r.coinsAdd \in Nat /\ r.coinsRemove \in Nat
  BY DEF RequestType
<1>2. CASE Removes(r)
  BY <1>1, <1>2 DEF Granted, CoinChange
<1>3. CASE ~Removes(r)
  <2>1. r.coinsRemove = 0
    BY <1>1, <1>3 DEF Removes
  <2> QED
    BY <1>1, <2>1 DEF CoinChange
<1> QED
  BY <1>2, <1>3

(* deduplicateClueScrolls never leaves two scrolls of a tier.              *)
LEMMA NoSecondClue ==
  ASSUME NEW r \in RequestType, NEW b \in Banks, NEW coins \in Int, Granted(b, coins, r),
         NEW i \in Clues, b[i] <= 1
  PROVE  BankAfter(b, r)[i] <= 1
<1>1. i \in Items /\ b[i] \in Nat /\ r.add[i] \in Nat /\ r.remove[i] \in Nat
  BY BankAssumption DEF RequestType, Banks
<1>2. BankAfter(b, r)[i] = b[i] + Gains(b, r)[i] - r.remove[i]
  BY <1>1 DEF BankAfter
<1>3. Less(b, r.remove)[i] = IF b[i] > r.remove[i] THEN b[i] - r.remove[i] ELSE 0
  BY <1>1 DEF Less
<1>4. Gains(b, r)[i] = IF r.add[i] > 0 THEN IF Less(b, r.remove)[i] > 0 THEN 0 ELSE 1 ELSE r.add[i]
  BY <1>1 DEF Gains
<1> QED
  BY <1>1, <1>2, <1>3, <1>4

-----------------------------------------------------------------------------
(* The atomic ledger.                                                      *)
LedgerInv == Solvent /\ OneClueOfATier

LEMMA LedgerInit == BankInit => LedgerInv
<1> SUFFICES ASSUME BankInit
             PROVE  LedgerInv
  OBVIOUS
<1>1. NoItems \in Banks
  BY DEF NoItems, Banks
<1>2. Solvent
  BY <1>1 DEF BankInit, Solvent
<1>3. OneClueOfATier
  BY BankAssumption DEF BankInit, OneClueOfATier, NoItems
<1> QED
  BY <1>2, <1>3 DEF LedgerInv

(* A transaction keeps everyone solvent.                                   *)
LEMMA TransactionKeepsSolvent ==
  ASSUME Solvent, NEW r \in RequestType, Transaction(r)
  PROVE  Solvent'
<1>1. r.user \in Users
  BY DEF RequestType
<1>2. /\ bank[r.user] \in Banks /\ gp[r.user] \in Nat
      /\ Granted(bank[r.user], gp[r.user], r)
  BY <1>1 DEF Solvent, Transaction
<1>3. BankAfter(bank[r.user], r) \in Banks /\ gp[r.user] + CoinChange(r) \in Nat
  BY <1>2, BankAfterTyped, CoinsStayNat
<1> QED
  BY <1>1, <1>3 DEF Solvent, Transaction

(* A transaction keeps everyone solvent and the clues single.              *)
LEMMA TransactionKeepsLedger ==
  ASSUME LedgerInv, NEW r \in RequestType, Transaction(r)
  PROVE  LedgerInv'
<1>1. r.user \in Users
  BY DEF RequestType
<1>2. /\ bank[r.user] \in Banks /\ gp[r.user] \in Nat
      /\ Granted(bank[r.user], gp[r.user], r)
  BY <1>1 DEF LedgerInv, Solvent, Transaction
<1>4. Solvent'
  BY TransactionKeepsSolvent DEF LedgerInv
<1>5. ASSUME NEW i \in Clues
      PROVE  BankAfter(bank[r.user], r)[i] <= 1
  <2>1. bank[r.user][i] <= 1
    BY <1>1 DEF LedgerInv, OneClueOfATier
  <2> QED
    BY <1>2, <2>1, NoSecondClue
<1>6. OneClueOfATier'
  BY <1>1, <1>5 DEF LedgerInv, Solvent, OneClueOfATier, Transaction
<1> QED
  BY <1>4, <1>6 DEF LedgerInv

LEMMA LedgerStep == LedgerInv /\ [BankNext]_ledger => LedgerInv'
<1> SUFFICES ASSUME LedgerInv, [BankNext]_ledger
             PROVE  LedgerInv'
  OBVIOUS
<1>1. ASSUME NEW r \in Requests, Transaction(r)
      PROVE  LedgerInv'
  BY <1>1, TransactionKeepsLedger, BankAssumption
<1>2. CASE UNCHANGED ledger
  BY <1>2 DEF LedgerInv, Solvent, OneClueOfATier, ledger
<1> QED
  BY <1>1, <1>2 DEF BankNext

(* Atomic transactions never overdraw a bank or the coins, nor leave two   *)
(* clue scrolls of a tier (transactItemsFromBank.ts:44-118,                *)
(* clueUtils.ts:9-23).                                                     *)
THEOREM LedgerCorrect == BankSpec => [](Solvent /\ OneClueOfATier)
BY LedgerInit, LedgerStep, PTL DEF BankSpec, LedgerInv
-----------------------------------------------------------------------------
(* Sums over finite sets.  The fold of the community modules unfolds at an *)
(* element of its own choice; these lemmas unfold it anywhere.             *)
Picked(T) == CHOOSE x \in T : TRUE

IsSum(f, S, g) ==
  g = [T \in SUBSET S |-> IF T = {} THEN 0 ELSE f[Picked(T)] + g[T \ {Picked(T)}]]

(* Among finite sets there is a smallest one: induction over a finite set, *)
(* without an operator to instantiate.                                     *)
LEMMA SmallestSet ==
  ASSUME NEW S, IsFiniteSet(S), NEW B \in SUBSET SUBSET S, B # {}
  PROVE  \E T \in B : \A U \in B : U \subseteq T => U = T
<1>1. FiniteSubsetsOf(S) = SUBSET S
  BY FS_FiniteSubsetsOfFinite
<1>2. IsWellFoundedOn(StrictSubsetOrdering(S), SUBSET S)
  BY <1>1, FS_StrictSubsetOrderingWellFounded
<1>3. PICK T \in B : \A U \in B : <<U, T>> \notin StrictSubsetOrdering(S)
  BY <1>2, WFMin
<1> QED
  BY <1>3 DEF StrictSubsetOrdering

(* The recursion that defines a sum has one solution ...                   *)
LEMMA SumsAgree ==
  ASSUME NEW f, NEW S, NEW V, NEW g, NEW h, IsFiniteSet(S), IsSum(f, S, g), IsSum(f, V, h),
         NEW T \in SUBSET S, T \in SUBSET V
  PROVE  g[T] = h[T]
<1> DEFINE B == {U \in SUBSET T : g[U] # h[U]}
<1> SUFFICES ASSUME B # {}
             PROVE  FALSE
  OBVIOUS
<1>1. IsFiniteSet(T)
  BY FS_Subset
<1>2. B \in SUBSET SUBSET T
  OBVIOUS
<1> HIDE DEF B
<1>3. PICK U \in B : \A W \in B : W \subseteq U => W = U
  BY <1>1, <1>2, SmallestSet
<1>4. U \in SUBSET S /\ U \in SUBSET V /\ U \in SUBSET T /\ g[U] # h[U]
  BY <1>3 DEF B
<1>5. g[U] = IF U = {} THEN 0 ELSE f[Picked(U)] + g[U \ {Picked(U)}]
  BY <1>4 DEF IsSum
<1>6. h[U] = IF U = {} THEN 0 ELSE f[Picked(U)] + h[U \ {Picked(U)}]
  BY <1>4 DEF IsSum
<1>7. U # {}
  BY <1>4, <1>5, <1>6
<1>8. Picked(U) \in U
  BY <1>7 DEF Picked
<1>9. U \ {Picked(U)} \notin B
  BY <1>3, <1>8
<1>10. g[U \ {Picked(U)}] = h[U \ {Picked(U)}]
  BY <1>4, <1>9 DEF B
<1> QED
  BY <1>4, <1>5, <1>6, <1>10

(* ... and no fewer: patch the sums of the smaller sets together.          *)
LEMMA SumExists ==
  ASSUME NEW f, NEW S, IsFiniteSet(S)
  PROVE  \E g : IsSum(f, S, g)
<1> DEFINE B == {T \in SUBSET S : ~ \E g : IsSum(f, T, g)}
<1> SUFFICES ASSUME B # {}
             PROVE  FALSE
  <2>1. S \in SUBSET S
    OBVIOUS
  <2> QED
    BY <2>1
<1>1. B \in SUBSET SUBSET S
  OBVIOUS
<1> HIDE DEF B
<1>2. PICK T \in B : \A U \in B : U \subseteq T => U = T
  BY <1>1, SmallestSet
<1>3. T \in SUBSET S /\ IsFiniteSet(T)
  BY <1>1, <1>2, FS_Subset
<1> DEFINE sumOf(U) == CHOOSE g : IsSum(f, U, g)
           rest(U) == U \ {Picked(U)}
           s == [U \in SUBSET T |-> IF U = {} THEN 0 ELSE f[Picked(U)] + sumOf(rest(U))[rest(U)]]
<1>4. ASSUME NEW U \in SUBSET T, U # T
      PROVE  IsSum(f, U, sumOf(U))
  <2>1. U \notin B /\ U \in SUBSET S
    BY <1>2, <1>3, <1>4
  <2>2. \E g : IsSum(f, U, g)
    BY <2>1 DEF B
  <2> QED
    BY <2>2
<1>5. ASSUME NEW U \in SUBSET T, U # {}
      PROVE  rest(U) \in SUBSET T /\ rest(U) # T /\ rest(U) \subseteq U
  <2>1. Picked(U) \in U
    BY <1>5 DEF Picked
  <2> QED
    BY <2>1
<1>6. ASSUME NEW U \in SUBSET T, U # T
      PROVE  s[U] = sumOf(U)[U]
  <2>1. sumOf(U)[U] = IF U = {} THEN 0 ELSE f[Picked(U)] + sumOf(U)[rest(U)]
    <3>1. IsSum(f, U, sumOf(U)) /\ U \in SUBSET U
      BY <1>4, <1>6
    <3> HIDE DEF sumOf
    <3> QED
      BY <3>1 DEF IsSum
  <2>2. CASE U = {}
    BY <2>1, <2>2
  <2>3. CASE U # {}
    <3>1. IsSum(f, U, sumOf(U)) /\ IsSum(f, rest(U), sumOf(rest(U)))
      BY <1>4, <1>5, <1>6, <2>3
    <3>2. IsFiniteSet(U) /\ rest(U) \in SUBSET U /\ rest(U) \in SUBSET rest(U)
      BY <1>3, <1>5, <2>3, FS_Subset
    <3> HIDE DEF sumOf, rest
    <3>3. sumOf(U)[rest(U)] = sumOf(rest(U))[rest(U)]
      BY <3>1, <3>2, SumsAgree
    <3> QED
      BY <2>1, <2>3, <3>3
  <2> QED
    BY <2>2, <2>3
<1>7. ASSUME NEW U \in SUBSET T
      PROVE  s[U] = IF U = {} THEN 0 ELSE f[Picked(U)] + s[rest(U)]
  <2>1. s[U] = IF U = {} THEN 0 ELSE f[Picked(U)] + sumOf(rest(U))[rest(U)]
    OBVIOUS
  <2> HIDE DEF s, sumOf
  <2> QED
    BY <1>5, <1>6, <2>1
<1>8. IsSum(f, T, s)
  <2>1. s = [U \in SUBSET T |-> s[U]]
    OBVIOUS
  <2> HIDE DEF s
  <2> QED
    BY <1>7, <2>1 DEF IsSum
<1> HIDE DEF s
<1> QED
  BY <1>2, <1>8 DEF B

(* So the community module's sum over a finite set is that solution.       *)
LEMMA SumOf ==
  ASSUME NEW f, NEW S, IsFiniteSet(S)
  PROVE  \E g : IsSum(f, S, g) /\ SumFunctionOnSet(f, S) = g[S]
<1>1. SumFunctionOnSet(f, S) = (CHOOSE g : IsSum(f, S, g))[S]
  BY DEF SumFunctionOnSet, FoldFunctionOnSet, MapThenFoldSet, IsSum, Picked
<1> QED
  BY <1>1, SumExists

LEMMA SumOfSubset ==
  ASSUME NEW f, NEW S, IsFiniteSet(S), NEW g, IsSum(f, S, g), NEW T \in SUBSET S
  PROVE  SumFunctionOnSet(f, T) = g[T]
<1>1. IsFiniteSet(T) /\ T \in SUBSET T
  BY FS_Subset
<1>2. PICK h : IsSum(f, T, h) /\ SumFunctionOnSet(f, T) = h[T]
  BY <1>1, SumOf
<1> QED
  BY <1>1, <1>2, SumsAgree

(* A sum over nothing is zero; any other one is unfolded at the element    *)
(* its definition chooses.                                                 *)
LEMMA SumOfNothing == ASSUME NEW f PROVE SumFunctionOnSet(f, {}) = 0
<1>1. PICK g : IsSum(f, {}, g) /\ SumFunctionOnSet(f, {}) = g[{}]
  BY SumOf, FS_EmptySet
<1> QED
  BY <1>1 DEF IsSum

LEMMA SumUnfolds ==
  ASSUME NEW f, NEW S, IsFiniteSet(S), S # {}
  PROVE  \E x \in S : SumFunctionOnSet(f, S) = f[x] + SumFunctionOnSet(f, S \ {x})
<1>1. PICK g : IsSum(f, S, g) /\ SumFunctionOnSet(f, S) = g[S]
  BY SumOf
<1>2. Picked(S) \in S
  BY DEF Picked
<1>3. g[S] = f[Picked(S)] + g[S \ {Picked(S)}]
  BY <1>1 DEF IsSum
<1>4. SumFunctionOnSet(f, S \ {Picked(S)}) = g[S \ {Picked(S)}]
  BY <1>1, SumOfSubset
<1> QED
  BY <1>1, <1>2, <1>3, <1>4

(* Whole numbers add up to a whole number.                                 *)
LEMMA SumTyped ==
  ASSUME NEW f, NEW S, IsFiniteSet(S), \A x \in S : f[x] \in Int
  PROVE  SumFunctionOnSet(f, S) \in Int
<1> DEFINE B == {T \in SUBSET S : SumFunctionOnSet(f, T) \notin Int}
<1> SUFFICES ASSUME B # {}
             PROVE  FALSE
  <2>1. S \in SUBSET S
    OBVIOUS
  <2> QED
    BY <2>1
<1>1. B \in SUBSET SUBSET S
  OBVIOUS
<1> HIDE DEF B
<1>2. PICK T \in B : \A U \in B : U \subseteq T => U = T
  BY <1>1, SmallestSet
<1>3. T \in SUBSET S /\ IsFiniteSet(T) /\ SumFunctionOnSet(f, T) \notin Int
  BY <1>1, <1>2, FS_Subset DEF B
<1>4. T # {}
  BY <1>3, SumOfNothing
<1>5. PICK x \in T : SumFunctionOnSet(f, T) = f[x] + SumFunctionOnSet(f, T \ {x})
  BY <1>3, <1>4, SumUnfolds
<1>6. T \ {x} \in SUBSET S /\ T \ {x} \notin B
  BY <1>2, <1>3
<1>7. SumFunctionOnSet(f, T \ {x}) \in Int
  BY <1>6 DEF B
<1> QED
  BY <1>3, <1>5, <1>7

(* The order in which a sum is taken does not matter.                      *)
LEMMA SumAt ==
  ASSUME NEW f, NEW S, IsFiniteSet(S), \A x \in S : f[x] \in Int, NEW x \in S
  PROVE  SumFunctionOnSet(f, S) = f[x] + SumFunctionOnSet(f, S \ {x})
<1> DEFINE B == {T \in SUBSET S : \E y \in T :
                   SumFunctionOnSet(f, T) # f[y] + SumFunctionOnSet(f, T \ {y})}
<1> SUFFICES ASSUME B # {}
             PROVE  FALSE
  <2>1. S \in SUBSET S /\ S \notin B
    OBVIOUS
  <2>2. \A y \in S : SumFunctionOnSet(f, S) = f[y] + SumFunctionOnSet(f, S \ {y})
    BY <2>1
  <2> QED
    BY <2>2
<1>1. B \in SUBSET SUBSET S
  OBVIOUS
<1> HIDE DEF B
<1>2. PICK T \in B : \A U \in B : U \subseteq T => U = T
  BY <1>1, SmallestSet
<1>3. T \in SUBSET S /\ IsFiniteSet(T)
  BY <1>1, <1>2, FS_Subset
<1>4. PICK y \in T : SumFunctionOnSet(f, T) # f[y] + SumFunctionOnSet(f, T \ {y})
  BY <1>2 DEF B
<1>5. PICK p \in T : SumFunctionOnSet(f, T) = f[p] + SumFunctionOnSet(f, T \ {p})
  BY <1>3, <1>4, SumUnfolds
<1>6. p # y
  BY <1>4, <1>5
<1>7. T \ {p} \notin B /\ T \ {y} \notin B /\ T \ {p} \in SUBSET S /\ T \ {y} \in SUBSET S
  BY <1>2, <1>3
<1>8. SumFunctionOnSet(f, T \ {p}) = f[y] + SumFunctionOnSet(f, (T \ {p}) \ {y})
  BY <1>6, <1>7 DEF B
<1>9. SumFunctionOnSet(f, T \ {y}) = f[p] + SumFunctionOnSet(f, (T \ {y}) \ {p})
  BY <1>6, <1>7 DEF B
<1>10. (T \ {p}) \ {y} = (T \ {y}) \ {p}
  OBVIOUS
<1>11. SumFunctionOnSet(f, (T \ {p}) \ {y}) \in Int
  <2>1. IsFiniteSet((T \ {p}) \ {y})
    BY <1>3, FS_Subset
  <2> QED
    BY <1>3, <2>1, SumTyped
<1>12. f[p] \in Int /\ f[y] \in Int
  BY <1>3
<1>13. SumFunctionOnSet(f, T \ {y}) = f[p] + SumFunctionOnSet(f, (T \ {p}) \ {y})
  BY <1>9, <1>10
<1>14. SumFunctionOnSet(f, T) = f[p] + (f[y] + SumFunctionOnSet(f, (T \ {p}) \ {y}))
  BY <1>5, <1>8
<1>15. SumFunctionOnSet(f, T) = f[y] + (f[p] + SumFunctionOnSet(f, (T \ {p}) \ {y}))
  BY <1>11, <1>12, <1>14
<1> QED
  BY <1>4, <1>13, <1>15

(* A sum grows with its terms ...                                          *)
LEMMA SumGrows ==
  ASSUME NEW f, NEW g, NEW S, IsFiniteSet(S),
         \A x \in S : f[x] \in Int /\ g[x] \in Int /\ f[x] <= g[x]
  PROVE  SumFunctionOnSet(f, S) <= SumFunctionOnSet(g, S)
<1> DEFINE B == {T \in SUBSET S : ~ (SumFunctionOnSet(f, T) <= SumFunctionOnSet(g, T))}
<1> SUFFICES ASSUME B # {}
             PROVE  FALSE
  <2>1. S \in SUBSET S
    OBVIOUS
  <2> QED
    BY <2>1
<1>1. B \in SUBSET SUBSET S
  OBVIOUS
<1> HIDE DEF B
<1>2. PICK T \in B : \A U \in B : U \subseteq T => U = T
  BY <1>1, SmallestSet
<1>3. T \in SUBSET S /\ IsFiniteSet(T) /\ ~ (SumFunctionOnSet(f, T) <= SumFunctionOnSet(g, T))
  BY <1>1, <1>2, FS_Subset DEF B
<1>4. T # {}
  BY <1>3, SumOfNothing
<1>5. PICK x \in T : TRUE
  BY <1>4
<1>6. T \ {x} \in SUBSET S /\ T \ {x} \notin B /\ IsFiniteSet(T \ {x})
  BY <1>2, <1>3, FS_Subset
<1>7. SumFunctionOnSet(f, T \ {x}) <= SumFunctionOnSet(g, T \ {x})
  BY <1>6 DEF B
<1>8. SumFunctionOnSet(f, T \ {x}) \in Int /\ SumFunctionOnSet(g, T \ {x}) \in Int
  BY <1>6, SumTyped
<1>9. /\ SumFunctionOnSet(f, T) = f[x] + SumFunctionOnSet(f, T \ {x})
      /\ SumFunctionOnSet(g, T) = g[x] + SumFunctionOnSet(g, T \ {x})
  BY <1>3, SumAt
<1>10. f[x] \in Int /\ g[x] \in Int /\ f[x] <= g[x]
  BY <1>3
<1> QED
  BY <1>3, <1>7, <1>8, <1>9, <1>10

(* ... depends on nothing else ...                                         *)
LEMMA SumSame ==
  ASSUME NEW f, NEW g, NEW S, IsFiniteSet(S), \A x \in S : f[x] \in Int /\ g[x] = f[x]
  PROVE  SumFunctionOnSet(g, S) = SumFunctionOnSet(f, S)
<1>1. SumFunctionOnSet(f, S) <= SumFunctionOnSet(g, S)
  BY SumGrows
<1>2. SumFunctionOnSet(g, S) <= SumFunctionOnSet(f, S)
  BY SumGrows
<1>3. SumFunctionOnSet(f, S) \in Int /\ SumFunctionOnSet(g, S) \in Int
  BY SumTyped
<1> QED
  BY <1>1, <1>2, <1>3

(* ... and changes as the one term that changes.                           *)
LEMMA SumChanges ==
  ASSUME NEW f, NEW g, NEW S, IsFiniteSet(S), NEW x \in S,
         \A y \in S : f[y] \in Int /\ g[y] \in Int,
         \A y \in S \ {x} : g[y] = f[y]
  PROVE  SumFunctionOnSet(g, S) = SumFunctionOnSet(f, S) + (g[x] - f[x])
<1>1. IsFiniteSet(S \ {x})
  BY FS_Subset
<1>2. SumFunctionOnSet(g, S \ {x}) = SumFunctionOnSet(f, S \ {x})
  BY <1>1, SumSame
<1>3. SumFunctionOnSet(f, S \ {x}) \in Int
  BY <1>1, SumTyped
<1>4. /\ SumFunctionOnSet(f, S) = f[x] + SumFunctionOnSet(f, S \ {x})
      /\ SumFunctionOnSet(g, S) = g[x] + SumFunctionOnSet(g, S \ {x})
  BY SumAt
<1> QED
  BY <1>2, <1>3, <1>4

(* Fewer terms that are no debts add up to less.                           *)
LEMMA SumOfFewer ==
  ASSUME NEW f, NEW S, IsFiniteSet(S), \A x \in S : f[x] \in Nat, NEW T \in SUBSET S
  PROVE  SumFunctionOnSet(f, T) <= SumFunctionOnSet(f, S)
<1> DEFINE B == {V \in SUBSET S : ~ (SumFunctionOnSet(f, V \cap T) <= SumFunctionOnSet(f, V))}
<1> SUFFICES ASSUME B # {}
             PROVE  FALSE
  <2>1. S \in SUBSET S /\ S \notin B
    OBVIOUS
  <2>2. SumFunctionOnSet(f, S \cap T) <= SumFunctionOnSet(f, S)
    BY <2>1
  <2>3. S \cap T = T
    OBVIOUS
  <2> QED
    BY <2>2, <2>3
<1>1. B \in SUBSET SUBSET S
  OBVIOUS
<1> HIDE DEF B
<1>2. PICK V \in B : \A U \in B : U \subseteq V => U = V
  BY <1>1, SmallestSet
<1>3. /\ V \in SUBSET S /\ IsFiniteSet(V) /\ IsFiniteSet(V \cap T)
      /\ ~ (SumFunctionOnSet(f, V \cap T) <= SumFunctionOnSet(f, V))
  BY <1>1, <1>2, FS_Subset DEF B
<1>4. V # {}
  <2>1. V = {} => V \cap T = V
    OBVIOUS
  <2> QED
    BY <1>3, <2>1, SumOfNothing
<1>5. PICK x \in V : TRUE
  BY <1>4
<1>6. V \ {x} \in SUBSET S /\ V \ {x} \notin B
  BY <1>2, <1>3
<1>7. SumFunctionOnSet(f, (V \ {x}) \cap T) <= SumFunctionOnSet(f, V \ {x})
  BY <1>6 DEF B
<1>8. IsFiniteSet(V \ {x}) /\ IsFiniteSet((V \ {x}) \cap T)
  BY <1>3, FS_Subset
<1>9. SumFunctionOnSet(f, V \ {x}) \in Int /\ SumFunctionOnSet(f, (V \ {x}) \cap T) \in Int
  BY <1>3, <1>8, SumTyped
<1>10. SumFunctionOnSet(f, V) = f[x] + SumFunctionOnSet(f, V \ {x})
  BY <1>3, SumAt
<1>11. f[x] \in Nat
  BY <1>3
<1>12. CASE x \in T
  <2>1. SumFunctionOnSet(f, V \cap T) = f[x] + SumFunctionOnSet(f, (V \cap T) \ {x})
    BY <1>3, <1>12, SumAt
  <2>2. (V \cap T) \ {x} = (V \ {x}) \cap T
    OBVIOUS
  <2> QED
    BY <1>3, <1>7, <1>9, <1>10, <1>11, <2>1, <2>2
<1>13. CASE x \notin T
  <2>1. (V \ {x}) \cap T = V \cap T
    BY <1>13
  <2> QED
    BY <1>3, <1>7, <1>9, <1>10, <1>11, <2>1
<1> QED
  BY <1>12, <1>13

(* One more term.                                                          *)
LEMMA SumWith ==
  ASSUME NEW f, NEW S, IsFiniteSet(S), NEW x, x \notin S, \A y \in S \cup {x} : f[y] \in Int
  PROVE  SumFunctionOnSet(f, S \cup {x}) = SumFunctionOnSet(f, S) + f[x]
<1>1. IsFiniteSet(S \cup {x}) /\ (S \cup {x}) \ {x} = S
  BY FS_AddElement
<1>2. SumFunctionOnSet(f, S \cup {x}) = f[x] + SumFunctionOnSet(f, (S \cup {x}) \ {x})
  BY <1>1, SumAt
<1>3. SumFunctionOnSet(f, S) \in Int
  BY SumTyped
<1>4. f[x] \in Int
  OBVIOUS
<1>5. SumFunctionOnSet(f, S \cup {x}) = f[x] + SumFunctionOnSet(f, S)
  BY <1>1, <1>2
<1> QED
  BY <1>3, <1>4, <1>5

(* When two terms change and lose together, and no other grows, so does    *)
(* the sum.                                                                *)
LEMMA SumHandedOver ==
  ASSUME NEW f, NEW g, NEW S, IsFiniteSet(S), NEW a \in S, NEW b \in S, a # b,
         \A x \in S : f[x] \in Int /\ g[x] \in Int,
         g[a] + g[b] <= f[a] + f[b],
         \A x \in S \ {a, b} : g[x] <= f[x]
  PROVE  SumFunctionOnSet(g, S) <= SumFunctionOnSet(f, S)
<1> DEFINE A == S \ {a}
           B == A \ {b}
<1>1. IsFiniteSet(A) /\ IsFiniteSet(B) /\ b \in A /\ B = S \ {a, b}
  BY FS_Subset
<1>2. SumFunctionOnSet(f, S) = f[a] + SumFunctionOnSet(f, A)
  BY SumAt
<1>3. SumFunctionOnSet(g, S) = g[a] + SumFunctionOnSet(g, A)
  BY SumAt
<1>4. \A x \in A : f[x] \in Int /\ g[x] \in Int
  OBVIOUS
<1>5. \A x \in B : f[x] \in Int /\ g[x] \in Int /\ g[x] <= f[x]
  OBVIOUS
<1> HIDE DEF A, B
<1>6. SumFunctionOnSet(f, A) = f[b] + SumFunctionOnSet(f, A \ {b})
  BY <1>1, <1>4, SumAt
<1>7. SumFunctionOnSet(g, A) = g[b] + SumFunctionOnSet(g, A \ {b})
  BY <1>1, <1>4, SumAt
<1>8. SumFunctionOnSet(g, B) <= SumFunctionOnSet(f, B)
  BY <1>1, <1>5, SumGrows
<1>9. SumFunctionOnSet(g, B) \in Int /\ SumFunctionOnSet(f, B) \in Int
  BY <1>1, <1>5, SumTyped
<1>10. A \ {b} = B
  BY DEF B
<1>11. SumFunctionOnSet(f, A) = f[b] + SumFunctionOnSet(f, B)
  BY <1>6, <1>10
<1>12. SumFunctionOnSet(g, A) = g[b] + SumFunctionOnSet(g, B)
  BY <1>7, <1>10
<1>13. f[a] \in Int /\ f[b] \in Int /\ g[a] \in Int /\ g[b] \in Int
  OBVIOUS
<1> QED
  BY <1>2, <1>3, <1>8, <1>9, <1>11, <1>12, <1>13
=============================================================================
