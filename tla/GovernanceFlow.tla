--------------------------- MODULE GovernanceFlow ---------------------------
(***************************************************************************)
(* The governance page: hooks/governance with ProposalCard and             *)
(* CreateProposalModal, for one proposal that was put to the vote.  Unlike *)
(* the other pages it waits for receipts inside the mutation, which goes   *)
(* on after the page was left, and viem's wait does not fail for a         *)
(* transaction that reverted.                                              *)
(***************************************************************************)
EXTENDS Session

VARIABLES
  ended,    \* the card's timer saw the end of the voting
  facts,    \* what the queries answered last about Facts: {} before they did
  card,     \* [confirming, loading, voted, success]
  busy,     \* which of "execute", "delegate" and "create" are pending here
  creating  \* the modal for a new proposal is shown

governanceVars == <<ended, facts, card, busy, creating>>

(* Whether the user voted, the proposal was executed, votes are delegated. *)
Facts == {"vote", "execute", "delegate"}
Unasked == [fact \in Facts |-> {}]
FreshCard == [confirming |-> FALSE, loading |-> FALSE, voted |-> FALSE, success |-> FALSE]

InitGovernance ==
  /\ ended = FALSE /\ facts = Unasked
  /\ card = FreshCard /\ busy = {} /\ creating = FALSE

(* The queries are answered: at first, when stale, or when a mutation made *)
(* them so; together, which leaves out that one may be later than another. *)
ReadFacts ==
  /\ page = "governance"
  /\ facts' = [fact \in Facts |-> {fact \in Done}]
  /\ facts' # facts
  /\ UNCHANGED <<ended, card, busy, creating, session>>

VotingEnds ==
  /\ page = "governance" /\ ~ended
  /\ ended' = TRUE
  /\ UNCHANGED <<facts, card, busy, creating, session>>

-----------------------------------------------------------------------------
PageShown == page = "governance" /\ ~card.confirming /\ ~card.success /\ ~creating
IsActive == facts["execute"] = {FALSE}
UserAlreadyVoted == facts["vote"] = {TRUE} \/ card.voted
IsBelowThreshold == facts["delegate"] = {FALSE}

Plain(op) == [op |-> op, grants |-> Nothing, spends |-> Nothing]
OnCard(to) == card' = to /\ UNCHANGED <<ended, facts, busy, creating>>

(* Voting, through a dialog that covers the page. *)
ConfirmVote ==
  /\ PageShown /\ IsActive /\ ~UserAlreadyVoted
  /\ OnCard([card EXCEPT !.confirming = TRUE])
  /\ UNCHANGED session

CancelVote ==
  /\ page = "governance" /\ card.confirming /\ ~card.loading
  /\ OnCard([card EXCEPT !.confirming = FALSE])
  /\ UNCHANGED session

HandleConfirmVote ==
  /\ page = "governance" /\ card.confirming /\ ~card.loading
  /\ Ask("vote", Plain("vote"))
  /\ OnCard([card EXCEPT !.loading = TRUE])

CloseSuccess ==
  /\ page = "governance" /\ card.success
  /\ OnCard([card EXCEPT !.success = FALSE])
  /\ UNCHANGED session

(* Execution, once the timer says so, and delegation to oneself. *)
ExecuteOffered == PageShown /\ IsActive /\ ended /\ "execute" \notin busy
DelegateOffered == PageShown /\ facts["delegate"] = {FALSE} /\ "delegate" \notin busy

HandleExecute ==
  /\ ExecuteOffered
  /\ Ask("execute", Plain("execute"))
  /\ busy' = busy \cup {"execute"}
  /\ UNCHANGED <<ended, facts, card, creating>>

HandleSelfDelegate ==
  /\ DelegateOffered
  /\ Ask("delegate", Plain("delegate"))
  /\ busy' = busy \cup {"delegate"}
  /\ UNCHANGED <<ended, facts, card, creating>>

(* A new proposal.  Its modal can be closed while the mutation is pending. *)
OpenCreate ==
  /\ PageShown
  /\ Mount
  /\ creating' = TRUE
  /\ UNCHANGED <<ended, facts, card, busy>>

CloseCreate ==
  /\ page = "governance" /\ creating
  /\ Unmount("create")
  /\ creating' = FALSE /\ busy' = busy \ {"create"}
  /\ UNCHANGED <<ended, facts, card>>

ProposalOffered ==
  page = "governance" /\ creating /\ "create" \notin busy /\ ~IsBelowThreshold

SubmitProposal ==
  /\ ProposalOffered
  /\ Ask("create", [op |-> "create", grants |-> Nothing, spends |-> Nothing,
                 under |-> mounts["vote"]])
  /\ busy' = busy \cup {"create"}
  /\ UNCHANGED <<ended, facts, card, creating>>

-----------------------------------------------------------------------------
(* What a mutation leaves in the page, if that is still mounted.  A modal's *)
(* onClose is the page's: it closes a modal opened since as well.           *)
Closes(q) == q.form = "create" /\ creating /\ q.call.under = mounts["vote"]
Settles(q, well) ==
  /\ card' = IF ~Current(q) \/ q.form # "vote" THEN card
             ELSE IF well THEN [confirming |-> FALSE, loading |-> FALSE,
                                voted |-> TRUE, success |-> TRUE]
             ELSE [card EXCEPT !.loading = FALSE]
  /\ busy' = busy \ ((IF Current(q) THEN {q.form} ELSE {})
                      \cup (IF well /\ Closes(q) THEN {"create"} ELSE {}))
  /\ creating' = (creating /\ ~(well /\ Closes(q)))
  /\ UNCHANGED <<ended, facts>>

GovernanceSigned(r) == Send(r, r.call) /\ UNCHANGED governanceVars
GovernanceRejected(r) == Reject(r) /\ Settles(r, FALSE)

(* waitForTransactionReceipt returns, whatever the receipt says, or gives up. *)
ReceiptReturned(h) ==
  /\ Succeeded(h) \/ Reverted(h)
  /\ ToastClosing(h, "success", {f \in {"create"} : Closes(txs[h])})
  /\ Settles(txs[h], TRUE)
ReceiptGivenUp(h) ==
  /\ Waiting(h)
  /\ Toast(h, "error")
  /\ Settles(txs[h], FALSE)

GovernanceForms == {"vote", "execute", "delegate", "create"}
Awaited == {h \in DOMAIN txs : txs[h].form \in GovernanceForms /\ txs[h].toast = "pending"}

NextGovernance ==
  \/ ReadFacts \/ VotingEnds
  \/ ConfirmVote \/ CancelVote \/ HandleConfirmVote \/ CloseSuccess
  \/ HandleExecute \/ HandleSelfDelegate
  \/ OpenCreate \/ CloseCreate \/ SubmitProposal
  \/ \E r \in requests : /\ r.form \in GovernanceForms
                         /\ GovernanceSigned(r) \/ GovernanceRejected(r)
  \/ \E h \in Awaited : ReceiptReturned(h) \/ ReceiptGivenUp(h)

GovernanceTypeOK ==
  /\ ended \in BOOLEAN /\ creating \in BOOLEAN
  /\ facts \in [Facts -> SUBSET BOOLEAN]
  /\ card \in [confirming : BOOLEAN, loading : BOOLEAN, voted : BOOLEAN, success : BOOLEAN]
  /\ busy \subseteq GovernanceForms \ {"vote"}
  /\ creating => page = "governance"
=============================================================================
