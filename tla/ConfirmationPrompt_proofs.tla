----------------------- MODULE ConfirmationPrompt_proofs -----------------------
(***************************************************************************)
(* A prompt is answered with yes only by everyone who was asked, and a     *)
(* cancel is overruled only by a confirmation that came after it; whoever  *)
(* waits is waited on, unless a cancel's reply threw.                      *)
(***************************************************************************)
EXTENDS ConfirmationPrompt, FiniteSetTheorems, TLAPS

(* As many clicks as users asked, all of them from users asked: everyone   *)
(* has clicked.                                                            *)
LEMMA CountedIsAll ==
  ASSUME NEW who, who \subseteq Asked, IsConfirmed(who)
  PROVE  who = Asked
<1>1. IsFiniteSet(Asked)
  BY AskedAssumption, FS_Subset
<1> QED
  BY <1>1, FS_Subset DEF IsConfirmed

(* Before the message is sent nobody can have clicked.                     *)
UnsentIsFresh ==
  promise = "unsent" =>
    confirmed = {} /\ ~collecting /\ confirming = "none" /\ cancelling = "none"

(* confirm gets past its test once everyone confirmed, and then the        *)
(* collector is off: no cancel can begin any more.                         *)
ConfirmingIsFinal ==
  /\ confirming # "none" => confirmed = Asked /\ ~collecting
  /\ promise = "resolved" => confirming = "over"
  /\ confirming # "none" /\ cancelling # "none" => recanted

PromptInv == PromptTypeOK /\ UnsentIsFresh /\ ConfirmingIsFinal

(* The initial state satisfies the invariant.                              *)
LEMMA PromptInvInit == PromptInit => PromptInv
  BY DEF PromptInit, PromptInv, PromptTypeOK, UnsentIsFresh, ConfirmingIsFinal

(* Every click, deletion, reply and timeout preserves the invariant.       *)
LEMMA PromptInvStep == PromptInv /\ [PromptNext]_promptVars => PromptInv'
<1> SUFFICES ASSUME PromptInv, [PromptNext]_promptVars PROVE PromptInv'
  OBVIOUS
<1> USE DEF PromptInv, PromptTypeOK, UnsentIsFresh, ConfirmingIsFinal
<1>1. CASE SendFails
  BY <1>1 DEF SendFails
<1>2. CASE Sends
  BY <1>2 DEF Sends
<1>3. ASSUME NEW u \in Clickers, ClickConfirm(u)
      PROVE  PromptInv'
  <2>1. confirmed \cup {u} \subseteq Asked
    BY <1>3 DEF ClickConfirm, Takes
  <2>2. IsConfirmed(confirmed \cup {u}) => confirmed \cup {u} = Asked
    BY <2>1, CountedIsAll
  <2> QED
    BY <1>3, <2>1, <2>2 DEF ClickConfirm, Takes
<1>4. ASSUME NEW u \in Clickers, ClickCancel(u)
      PROVE  PromptInv'
  BY <1>4 DEF ClickCancel, BeginCancel, Takes
<1>5. CASE TimesUp
  BY <1>5 DEF TimesUp, BeginCancel
<1>6. CASE ConfirmDeletes
  BY <1>6 DEF ConfirmDeletes, Settle
<1>7. CASE CancelDeletes
  BY <1>7 DEF CancelDeletes
<1>8. CASE CancelReplied
  BY <1>8 DEF CancelReplied, Settle
<1>9. CASE CancelReplyFails
  BY <1>9 DEF CancelReplyFails
<1>10. CASE UNCHANGED promptVars
  BY <1>10 DEF promptVars
<1> QED
  BY <1>1, <1>2, <1>3, <1>4, <1>5, <1>6, <1>7, <1>8, <1>9, <1>10 DEF PromptNext

(* The invariant holds throughout.                                         *)
LEMMA PromptInvAlways == PromptSafety => []PromptInv
  BY PromptInvInit, PromptInvStep, PTL DEF PromptSafety

(* The state of a prompt stays well typed.                                 *)
THEOREM PromptTypeCorrect == PromptSafety => []PromptTypeOK
<1>1. PromptInv => PromptTypeOK
  BY DEF PromptInv
<1> QED
  BY <1>1, PromptInvAlways, PTL

(* The command goes on only after everyone it asked has confirmed.         *)
THEOREM ResolvedMeansConfirmedCorrect == PromptSafety => []ResolvedMeansConfirmed
<1>1. PromptInv => ResolvedMeansConfirmed
  BY DEF PromptInv, ConfirmingIsFinal, ResolvedMeansConfirmed
<1> QED
  BY <1>1, PromptInvAlways, PTL

(* No cancel that came after the last confirmation is overruled.           *)
THEOREM CancelIsHonouredCorrect == PromptSafety => []CancelIsHonoured
<1>1. PromptInv => CancelIsHonoured
  BY DEF PromptInv, ConfirmingIsFinal, CancelIsHonoured
<1> QED
  BY <1>1, PromptInvAlways, PTL

-----------------------------------------------------------------------------
(* Who is still at work on a prompt.                                       *)

\* A command that waits is waited on: the collector's timer runs, or a
\* message is being deleted or a reply sent; but for a cancel that threw.
PendingIsAwaited ==
  promise = "pending" =>
    collecting \/ confirming = "deleting" \/ cancelling \in {"deleting", "replying", "threw"}

\* The timer's end finds somebody missing, so it cancels; a call of confirm
\* or cancel that is over has settled the promise.
EndsSettle ==
  /\ collecting => ~IsConfirmed(confirmed)
  /\ confirming = "over" \/ cancelling = "over" => promise \in {"resolved", "rejected"}

AwaitInv == PromptInv /\ EndsSettle /\ PendingIsAwaited

LEMMA AwaitInvInit == PromptInit => AwaitInv
  BY PromptInvInit DEF PromptInit, AwaitInv, EndsSettle, PendingIsAwaited

LEMMA AwaitInvStep == AwaitInv /\ [PromptNext]_promptVars => AwaitInv'
<1> SUFFICES ASSUME AwaitInv, [PromptNext]_promptVars PROVE EndsSettle' /\ PendingIsAwaited'
  BY PromptInvStep DEF AwaitInv
<1> USE DEF AwaitInv, EndsSettle, PendingIsAwaited
<1>0. PromptInv /\ PromptInv'
  BY PromptInvStep
<1>1. CASE SendFails
  BY <1>0, <1>1 DEF SendFails, PromptInv, UnsentIsFresh
<1>2. CASE Sends
  <2>1. confirmed = {} /\ confirming = "none" /\ cancelling = "none"
    BY <1>0, <1>2 DEF Sends, PromptInv, UnsentIsFresh
  <2>2. ~IsConfirmed({})
    BY CountedIsAll, AskedAssumption
  <2>3. ~IsConfirmed(confirmed')
    BY <1>2, <2>1, <2>2 DEF Sends
  <2> QED
    BY <1>2, <2>1, <2>3 DEF Sends, IsConfirmed
<1>3. ASSUME NEW u \in Clickers, ClickConfirm(u)
      PROVE  EndsSettle' /\ PendingIsAwaited'
  BY <1>0, <1>3 DEF ClickConfirm, Takes, IsConfirmed, PromptInv, PromptTypeOK
<1>4. ASSUME NEW u \in Clickers, ClickCancel(u)
      PROVE  EndsSettle' /\ PendingIsAwaited'
  BY <1>4 DEF ClickCancel, BeginCancel, Takes, IsConfirmed
<1>5. CASE TimesUp
  BY <1>0, <1>5 DEF TimesUp, BeginCancel, IsConfirmed, PromptInv, PromptTypeOK
<1>6. CASE ConfirmDeletes
  BY <1>0, <1>6 DEF ConfirmDeletes, Settle, IsConfirmed, PromptInv, PromptTypeOK, UnsentIsFresh
<1>7. CASE CancelDeletes
  BY <1>7 DEF CancelDeletes, IsConfirmed
<1>8. CASE CancelReplied
  BY <1>0, <1>8 DEF CancelReplied, Settle, IsConfirmed, PromptInv, PromptTypeOK, UnsentIsFresh
<1>9. CASE CancelReplyFails
  BY <1>9 DEF CancelReplyFails, IsConfirmed
<1>10. CASE UNCHANGED promptVars
  BY <1>10 DEF promptVars, IsConfirmed
<1> QED
  BY <1>1, <1>2, <1>3, <1>4, <1>5, <1>6, <1>7, <1>8, <1>9, <1>10 DEF PromptNext

(* No interleaving of clicks, the timer, deletions and replies leaves a    *)
(* command waiting with nothing under way, except that the reply to a      *)
(* cancel failed (mahojiSettings.ts:95-145).                               *)
THEOREM PendingIsAwaitedCorrect == PromptSafety => []PendingIsAwaited
<1>1. AwaitInv => PendingIsAwaited
  BY DEF AwaitInv
<1> QED
  BY <1>1, AwaitInvInit, AwaitInvStep, PTL DEF PromptSafety
=============================================================================
