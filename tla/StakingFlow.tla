---------------------------- MODULE StakingFlow ----------------------------
(***************************************************************************)
(* The staking page: hooks/useStakingAction.ts and useStakingAdmin.ts with *)
(* components/staking.  One pool's panel stakes, unstakes and claims; the  *)
(* admin's modals fund its rewarder, manage the pool and add another one.  *)
(* All of it is kept in useState and gone when the page is left.           *)
(***************************************************************************)
EXTENDS Session

CONSTANTS
  StakingToken, \* the pool's LP token, to be approved for the staking contract
  RewardToken,  \* the rewarder's token
  Pending,      \* rewards the API says the user may claim
  IsOwner       \* the user holds the staking admin's role

VARIABLES
  pool,         \* what the chain says of it: "active", "paused" or "closed"
  panel,        \* [tab, amount, step, hash, action, approveHash, ran]
  stakeRefetch, \* mounts whose refetch of the allowance is under way
  dialog,       \* the modal shown: "none", "fund", "manage" or "addPool"
  fund,         \* the fund modal's [amount, step, approveHash, hash]
  admin,        \* the other modals' [active, hash]: what they are submitting
  dropped       \* history: a tab was changed while something was under way

stakingVars == <<pool, panel, stakeRefetch, dialog, fund, admin, dropped>>

FreshStake == [tab |-> "stake", amount |-> 0, step |-> "idle", hash |-> NoHash,
               action |-> "none", approveHash |-> NoHash, ran |-> NoHash]
FreshFund == [amount |-> 0, step |-> "idle", approveHash |-> NoHash, hash |-> NoHash]
FreshAdmin == [active |-> "none", hash |-> NoHash]

InitStaking ==
  /\ pool \in {"active", "paused", "closed"}
  /\ panel = FreshStake /\ stakeRefetch = {}
  /\ dialog = "none" /\ fund = FreshFund /\ admin = FreshAdmin
  /\ dropped = FALSE

-----------------------------------------------------------------------------
(* The panel.  A step that failed or was confirmed needs no approval. *)
p == panel
IsConfirming == Waiting(p.hash)
PanelShown == page = "staking" /\ dialog = "none" /\ p.step # "confirmed"
IsClosed == pool = "closed"
\* Mutant: waiting for the wallet does not make the panel busy.
IsBusyUnlessSigning == p.step = "approving" \/ (IsConfirming /\ p.step = "pending")

IsBusy == p.step \in {"approving", "signing"} \/ (IsConfirming /\ p.step = "pending")
NeedsApproval == /\ p.step \notin {"confirmed", "failed"}
                 /\ p.amount > 0 /\ ~KnownToCover(StakingToken, p.amount)

(* Only the panel changes. *)
InPanel(to) == panel' = to /\ UNCHANGED <<pool, dialog, fund, admin>>

(* reset() on changing tabs forgets the hash and the action, not an approval. *)
SetTab == \E tab \in {"stake", "unstake"} :
  /\ PanelShown /\ (tab = "stake" => ~IsClosed)
  /\ InPanel([p EXCEPT !.tab = tab, !.amount = 0, !.step = "idle", !.hash = NoHash,
                       !.action = "none"])
  /\ dropped' = (dropped \/ p.step \in {"approving", "signing", "pending"})
  /\ tab # p.tab
  /\ UNCHANGED <<stakeRefetch, session>>

(* The input can be disabled, the buttons that fill in a balance cannot. *)
SetAmount == \E n \in Amounts \ {p.amount} :
  /\ PanelShown
  /\ \/ ~IsBusy /\ ~IsClosed
     \/ n > 0 /\ (p.tab = "stake" => ~IsClosed)
  /\ InPanel([p EXCEPT !.amount = n])
  /\ Editing
  /\ UNCHANGED <<stakeRefetch, dropped>>

ActionOffered == PanelShown /\ ~IsBusy /\ ~IsClosed /\ p.amount > 0
ClaimOffered == PanelShown /\ ~IsBusy /\ Pending > 0

HandleApprove ==
  /\ ActionOffered /\ p.tab = "stake" /\ NeedsApproval
  /\ Ask("stake", [op |-> "approve", grants |-> Of(StakingToken, p.amount), spends |-> Nothing])
  /\ InPanel([p EXCEPT !.step = "approving"])
  /\ UNCHANGED <<stakeRefetch, dropped>>

HandleDeposit ==
  /\ ActionOffered /\ p.tab = "stake" /\ ~NeedsApproval
  /\ Ask("stake", [op |-> "deposit", grants |-> Nothing, after |-> p.step,
                   spends |-> Of(StakingToken, p.amount)])
  /\ InPanel([p EXCEPT !.step = "signing", !.action = "deposit"])
  /\ UNCHANGED <<stakeRefetch, dropped>>

HandleWithdraw ==
  /\ ActionOffered /\ p.tab = "unstake"
  /\ Ask("stake", [op |-> "withdraw", grants |-> Nothing, spends |-> Nothing])
  /\ InPanel([p EXCEPT !.step = "signing", !.action = "withdraw"])
  /\ UNCHANGED <<stakeRefetch, dropped>>

HandleClaim ==
  /\ ClaimOffered
  /\ Ask("stake", [op |-> "claim", grants |-> Nothing, spends |-> Nothing])
  /\ InPanel([p EXCEPT !.step = "signing", !.action = "claim"])
  /\ UNCHANGED <<stakeRefetch, dropped>>

(* The wallet's answer; a panel that is gone only has its toast. *)
StakeSigned(r) ==
  /\ Send(r, r.call)
  /\ InPanel(IF ~Current(r) THEN p
             ELSE IF r.call.op = "approve" THEN [p EXCEPT !.approveHash = NewHash]
             ELSE [p EXCEPT !.step = "pending", !.hash = NewHash])
  /\ UNCHANGED <<stakeRefetch, dropped>>

StakeRejected(r) ==
  /\ Reject(r)
  /\ InPanel(IF Current(r) THEN [p EXCEPT !.step = "failed"] ELSE p)
  /\ UNCHANGED <<stakeRefetch, dropped>>

(* The effects of the receipts. *)
ApproveMined ==
  LET h == p.approveHash IN
  /\ page = "staking" /\ Succeeded(h) /\ p.ran # h
  /\ Toast(h, "success")
  /\ InPanel([p EXCEPT !.ran = h])
  /\ stakeRefetch' = stakeRefetch \cup {mounts["stake"]}
  /\ UNCHANGED dropped

RefetchDone(m) ==
  /\ stakeRefetch' = stakeRefetch \ {m}
  /\ ReadAllowance(StakingToken) \/ UNCHANGED session
  /\ InPanel(IF m = mounts["stake"] THEN [p EXCEPT !.approveHash = NoHash, !.step = "idle"] ELSE p)
  /\ UNCHANGED dropped

ApproveReverted ==
  LET h == p.approveHash IN
  /\ page = "staking" /\ Reverted(h)
  /\ Toast(h, "error")
  /\ InPanel([p EXCEPT !.approveHash = NoHash, !.step = "failed"])
  /\ UNCHANGED <<stakeRefetch, dropped>>

StakeMined ==
  /\ page = "staking" /\ p.step = "pending"
  /\ \/ Succeeded(p.hash) /\ Toast(p.hash, "success") /\ InPanel([p EXCEPT !.step = "confirmed"])
     \/ Reverted(p.hash) /\ Toast(p.hash, "error") /\ InPanel([p EXCEPT !.step = "failed"])
  /\ UNCHANGED <<stakeRefetch, dropped>>

CloseConfirmed ==
  /\ page = "staking" /\ p.step = "confirmed"
  /\ InPanel([p EXCEPT !.amount = 0, !.step = "idle", !.hash = NoHash, !.action = "none"])
  /\ UNCHANGED <<stakeRefetch, dropped, session>>

-----------------------------------------------------------------------------
(* The admin's modals. *)
InDialog(f, a) == fund' = f /\ admin' = a /\ UNCHANGED <<pool, panel, stakeRefetch, dropped>>
DialogShown(which) == page = "staking" /\ dialog = which /\ p.step # "confirmed"

OpenDialog == \E which \in {"fund", "manage", "addPool"} :
  /\ PanelShown /\ IsOwner
  /\ Mount
  /\ dialog' = which
  /\ InDialog(FreshFund, FreshAdmin)

(* The fund modal closes at any time, the others unless they confirm. *)
CloseDialog ==
  /\ dialog # "none" /\ DialogShown(dialog)
  /\ dialog = "fund" \/ ~Waiting(admin.hash)
  /\ dialog' = "none"
  /\ InDialog(FreshFund, FreshAdmin)
  /\ Unmount(dialog)

(* Funding.  An allowance of nothing counts as one that need not be raised. *)
f == fund
FundNeedsApproval == \E n \in known[RewardToken] : n > 0 /\ n < f.amount
FundBusy == f.step \in {"approving", "signing", "confirming"}
FundFormShown == DialogShown("fund") /\ f.step # "done"
FundOffered == FundFormShown /\ ~FundBusy /\ f.amount > 0

SetFundAmount == \E n \in Amounts \ {f.amount} :
  /\ FundFormShown /\ (n = 0 => ~FundBusy)
  /\ InDialog([f EXCEPT !.amount = n], admin)
  /\ Editing
  /\ UNCHANGED dialog

HandleTransfer ==
  /\ FundOffered
  /\ IF FundNeedsApproval
     THEN /\ Ask("fund", [op |-> "approve", grants |-> Of(RewardToken, f.amount), spends |-> Nothing])
          /\ InDialog([f EXCEPT !.step = "approving"], admin)
     ELSE /\ Ask("fund", [op |-> "transfer", grants |-> Nothing, spends |-> Nothing])
          /\ InDialog([f EXCEPT !.step = "signing"], admin)
  /\ UNCHANGED dialog

(* Nothing waits for the approval: the step stays at approving. *)
FundSigned(r) ==
  /\ Send(r, r.call)
  /\ InDialog(IF ~Current(r) THEN f
              ELSE IF r.call.op = "approve" THEN [f EXCEPT !.approveHash = NewHash]
              ELSE [f EXCEPT !.step = "confirming", !.hash = NewHash], admin)
  /\ UNCHANGED dialog

FundRejected(r) ==
  /\ Reject(r)
  /\ InDialog(IF Current(r) THEN [f EXCEPT !.step = "idle"] ELSE f, admin)
  /\ UNCHANGED dialog

FundMined ==
  /\ dialog = "fund" /\ f.step = "confirming"
  /\ \/ Succeeded(f.hash) /\ Toast(f.hash, "success") /\ InDialog([f EXCEPT !.step = "done"], admin)
     \/ Reverted(f.hash) /\ Toast(f.hash, "error") /\ InDialog([f EXCEPT !.step = "idle"], admin)
  /\ UNCHANGED dialog

(* Managing and adding: one submission at a time.  Resuming a paused pool *)
(* only marks the modal as busy, which disables everything it could send.  *)
AdminFree == admin.active = "none" /\ ~Waiting(admin.hash) /\ ~Confirmed(admin.hash)
ManageOffered == DialogShown("manage") /\ AdminFree
AddPoolOffered == DialogShown("addPool") /\ AdminFree

Submit(op) ==
  /\ Ask(dialog, [op |-> op, grants |-> Nothing, spends |-> Nothing])
  /\ InDialog(f, [admin EXCEPT !.active = op])
  /\ UNCHANGED dialog

PauseRewards == ManageOffered /\ pool # "paused" /\ Submit("pause")
UpdateRate == ManageOffered /\ Submit("rate")
UpdateCap == ManageOffered /\ Submit("cap")
AddPool == AddPoolOffered /\ Submit("add")

ResumeRewards ==
  /\ ManageOffered /\ pool = "paused"
  /\ InDialog(f, [admin EXCEPT !.active = "resume"])
  /\ UNCHANGED <<dialog, session>>

(* The hook swallows a rejection, so only adding a pool is free again. *)
AdminAnswered(r) ==
  LET over(a) == IF r.call.op = "add" THEN [a EXCEPT !.active = "none"] ELSE a IN
  /\ \/ /\ Send(r, r.call)
        /\ InDialog(f, IF Current(r) THEN over([admin EXCEPT !.hash = NewHash]) ELSE admin)
     \/ /\ Reject(r)
        /\ InDialog(f, IF Current(r) THEN over(admin) ELSE admin)
  /\ UNCHANGED dialog

AdminMined ==
  LET h == admin.hash IN
  /\ dialog \in {"manage", "addPool"} /\ h # NoHash /\ txs[h].toast = "pending"
  /\ \/ Succeeded(h) /\ Toast(h, "success")
     \/ Reverted(h) /\ Toast(h, "error")
  /\ UNCHANGED stakingVars

-----------------------------------------------------------------------------
NextStaking ==
  \/ SetTab \/ SetAmount
  \/ HandleApprove \/ HandleDeposit \/ HandleWithdraw \/ HandleClaim
  \/ ApproveMined \/ ApproveReverted \/ StakeMined \/ CloseConfirmed
  \/ \E m \in stakeRefetch : RefetchDone(m)
  \/ \E r \in Open("stake") : StakeSigned(r) \/ StakeRejected(r)
  \/ OpenDialog \/ CloseDialog
  \/ SetFundAmount \/ HandleTransfer \/ FundMined
  \/ \E r \in Open("fund") : FundSigned(r) \/ FundRejected(r)
  \/ PauseRewards \/ UpdateRate \/ UpdateCap \/ AddPool \/ ResumeRewards \/ AdminMined
  \/ \E r \in Open("manage") \cup Open("addPool") : AdminAnswered(r)

StakingTypeOK ==
  /\ pool \in {"active", "paused", "closed"}
  /\ p.tab \in {"stake", "unstake"} /\ p.amount \in Amounts
  /\ p.step \in {"idle", "needsApprove", "approving", "signing", "pending", "confirmed", "failed"}
  /\ p.action \in {"none", "deposit", "withdraw", "claim"}
  /\ dialog \in {"none", "fund", "manage", "addPool"} /\ (dialog # "none" => page = "staking")
  /\ f.step \in {"idle", "approving", "signing", "confirming", "done"} /\ f.amount \in Amounts
  /\ admin.active \in {"none", "pause", "rate", "cap", "resume", "add"}
  /\ {p.hash, p.approveHash, p.ran, f.hash, f.approveHash, admin.hash} \subseteq {NoHash} \cup DOMAIN txs
  /\ stakeRefetch \subseteq Nat
=============================================================================
