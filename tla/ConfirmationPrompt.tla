-------------------------- MODULE ConfirmationPrompt --------------------------
(***************************************************************************)
(* handleMahojiConfirmation: a message with a Confirm and a Cancel button, *)
(* and a promise the command waits for.  Some forty commands stop here     *)
(* before they spend, trade or cancel something.                           *)
(*                                                                         *)
(* The promise resolves when everyone who was asked has confirmed.  It is  *)
(* rejected after a cancel click or fifteen seconds, but only once the     *)
(* message is deleted and a reply is sent, and until then the collector    *)
(* keeps taking clicks.                                                    *)
(***************************************************************************)
EXTENDS FiniteSets

CONSTANTS
  Clickers,  \* everyone who sees the message
  Asked      \* the users whose click counts

ASSUME AskedAssumption ==
  /\ Asked # {} /\ Asked \subseteq Clickers
  /\ IsFiniteSet(Clickers)

VARIABLES
  confirmed,   \* who has confirmed
  collecting,  \* the collector takes clicks; its timer runs
  confirming,  \* how far the call of confirm that was the last one is
  cancelling,  \* how far the first call of cancel is
  promise,     \* what the command sees
  recanted     \* ghost: someone confirmed after the cancel had begun

promptVars == <<confirmed, collecting, confirming, cancelling, promise, recanted>>

PromptTypeOK ==
  /\ confirmed \subseteq Asked
  /\ collecting \in BOOLEAN
  /\ confirming \in {"none", "deleting", "over"}
  /\ cancelling \in {"none", "deleting", "replying", "over", "threw"}
  /\ promise \in {"unsent", "pending", "resolved", "rejected"}
  /\ recanted \in BOOLEAN

-----------------------------------------------------------------------------
\* A slip: one click is enough.
AnyoneConfirmed(who) == who # {}

(* The code compares how many.                                             *)
IsConfirmed(who) == Cardinality(who) = Cardinality(Asked)

Takes(u) == collecting /\ u \in Asked

\* A promise keeps its first outcome.
Settle(outcome) == promise' = IF promise = "pending" THEN outcome ELSE promise

\* cancel: only its first call does anything.
BeginCancel == cancelling' = IF cancelling = "none" THEN "deleting" ELSE cancelling

-----------------------------------------------------------------------------
PromptInit ==
  /\ confirmed = {}
  /\ collecting = FALSE
  /\ confirming = "none"
  /\ cancelling = "none"
  /\ promise = "unsent"
  /\ recanted = FALSE

(* Deferring the interaction or sending the message fails: it throws.      *)
SendFails ==
  /\ promise = "unsent"
  /\ promise' = "rejected"
  /\ UNCHANGED <<confirmed, collecting, confirming, cancelling, recanted>>

Sends ==
  /\ promise = "unsent"
  /\ promise' = "pending"
  /\ collecting' = TRUE
  /\ UNCHANGED <<confirmed, confirming, cancelling, recanted>>

\* A slip: the collector goes on while the message is being deleted.
ClickConfirmKeepsCollecting(u) ==
  /\ Takes(u)
  /\ u \notin confirmed
  /\ confirmed' = confirmed \cup {u}
  /\ IF IsConfirmed(confirmed \cup {u}) THEN confirming' = "deleting" ELSE UNCHANGED confirming
  /\ recanted' = (recanted \/ cancelling # "none")
  /\ UNCHANGED <<collecting, cancelling, promise>>

(* A confirm click; a second one of the same user changes nothing.  The    *)
(* last one stops the collector and goes on to delete the message.         *)
ClickConfirm(u) ==
  /\ Takes(u)
  /\ u \notin confirmed
  /\ confirmed' = confirmed \cup {u}
  /\ IF IsConfirmed(confirmed \cup {u})
       THEN collecting' = FALSE /\ confirming' = "deleting"
       ELSE UNCHANGED <<collecting, confirming>>
  /\ recanted' = (recanted \/ cancelling # "none")
  /\ UNCHANGED <<cancelling, promise>>

ClickCancel(u) ==
  /\ Takes(u)
  /\ BeginCancel
  /\ UNCHANGED <<confirmed, collecting, confirming, promise, recanted>>

\* A slip: nobody listens to the collector's end.
TimesUpUnnoticed ==
  /\ collecting
  /\ collecting' = FALSE
  /\ UNCHANGED <<confirmed, confirming, cancelling, promise, recanted>>

(* The collector's end: a cancel, unless everyone has confirmed by then.   *)
TimesUp ==
  /\ collecting
  /\ collecting' = FALSE
  /\ IF IsConfirmed(confirmed) THEN UNCHANGED cancelling ELSE BeginCancel
  /\ UNCHANGED <<confirmed, confirming, promise, recanted>>

(* The message is deleted, or it was already gone: both go on.             *)
ConfirmDeletes ==
  /\ confirming = "deleting"
  /\ confirming' = "over"
  /\ Settle("resolved")
  /\ UNCHANGED <<confirmed, collecting, cancelling, recanted>>

CancelDeletes ==
  /\ cancelling = "deleting"
  /\ cancelling' = "replying"
  /\ UNCHANGED <<confirmed, collecting, confirming, promise, recanted>>

(* The reply was sent, or the command had replied before.                  *)
CancelReplied ==
  /\ cancelling = "replying"
  /\ cancelling' = "over"
  /\ collecting' = FALSE
  /\ Settle("rejected")
  /\ UNCHANGED <<confirmed, confirming, recanted>>

(* Discord refuses the reply: cancel throws before it rejects the promise, *)
(* and nobody calls it again.                                              *)
CancelReplyFails ==
  /\ cancelling = "replying"
  /\ cancelling' = "threw"
  /\ UNCHANGED <<confirmed, collecting, confirming, promise, recanted>>

-----------------------------------------------------------------------------
PromptNext ==
  \/ SendFails
  \/ Sends
  \/ \E u \in Clickers : ClickConfirm(u) \/ ClickCancel(u)
  \/ TimesUp
  \/ ConfirmDeletes
  \/ CancelDeletes
  \/ CancelReplied
  \/ CancelReplyFails

PromptSafety == PromptInit /\ [][PromptNext]_promptVars

\* Messages are sent and deleted, timers fire; nobody has to click.
PromptSpec ==
  /\ PromptSafety
  /\ WF_promptVars(Sends \/ SendFails)
  /\ WF_promptVars(TimesUp)
  /\ WF_promptVars(ConfirmDeletes)
  /\ WF_promptVars(CancelDeletes)
  /\ WF_promptVars(CancelReplied \/ CancelReplyFails)
-----------------------------------------------------------------------------
(* The command goes on only after each user it asked has clicked Confirm:  *)
(* a trade needs both parties (trade.ts:116-123, mahojiSettings.ts:100-107)*)
ResolvedMeansConfirmed == promise = "resolved" => confirmed = Asked

(* A command that goes on although its prompt was being cancelled has been *)
(* confirmed once more after that cancel: no cancel that came after the    *)
(* last confirmation is overruled (mahojiSettings.ts:100-122).             *)
CancelIsHonoured == promise = "resolved" /\ cancelling # "none" => recanted

(* A command waits for its prompt for ever only if the reply to a cancel   *)
(* failed (mahojiSettings.ts:110-122).                                     *)
AnsweredUnlessReplyFails ==
  (promise = "pending") ~> (promise # "pending" \/ cancelling = "threw")
=============================================================================
