--------------------------- MODULE LiquidityFlow ---------------------------
(***************************************************************************)
(* The liquidity page and its two modals: hooks/useAddLiquidity.ts,        *)
(* store/useAddLiquidityStore.ts, hooks/useRemoveLiquidity.ts and the      *)
(* components AddLiquidityModal and RemoveLiquidityModal.  A modal that is *)
(* closed unmounts its hook; only the store of the add form outlives it.   *)
(***************************************************************************)
EXTENDS Session

CONSTANTS
  Listed,       \* the ERC20 tokens the page offers
  Weth,         \* the token that stands for ETH
  PoolOrder,    \* the one pool there is: its token0 and its token1
  PoolReserves, \* and their reserves
  LpBalance,    \* LP tokens of the user, all there are
  Percents,     \* shares the remove form offers
  Balance       \* what the user owns of each token

VARIABLES
  modal,        \* "closed", "add" or "remove"
  addStore,     \* [token0, token1, amount0, amount1, step, hash]
  addHook,      \* this modal's [approveHash, ran, addHash]
  addRefetches, \* refetches of an allowance under way: [mount, token]
  removal,      \* the remove modal's [percent, confirming, step, hash]
  displaced     \* history: an add modal was opened before an earlier one was done

liquidityVars == <<modal, addStore, addHook, addRefetches, removal, displaced>>

NoToken == "none"
Choices == Listed \cup {Weth}
Slippage == 50

EmptyAdd == [token0 |-> NoToken, token1 |-> NoToken, amount0 |-> 0, amount1 |-> 0,
             step |-> "idle", hash |-> NoHash]
FreshAddHook == [approveHash |-> NoHash, ran |-> <<>>, addHash |-> NoHash]
FreshRemoval == [percent |-> 0, confirming |-> FALSE, step |-> "idle", hash |-> NoHash]

InitLiquidity ==
  /\ modal = "closed"
  /\ addStore = EmptyAdd /\ addHook = FreshAddHook /\ addRefetches = {}
  /\ removal = FreshRemoval
  /\ displaced = FALSE

Least(n) == (n * (10000 - Slippage)) \div 10000

-----------------------------------------------------------------------------
(* Opening and closing.  Only closing resets the store. *)
Opening(kind) ==
  /\ page = "liquidity" /\ modal = "closed"
  /\ Mount
  /\ modal' = kind

(* From a pool's card the tokens are filled in, in the pool's order. *)
OpenAdd == \E prefill \in BOOLEAN :
  /\ Opening("add")
  /\ addStore' = IF prefill THEN [addStore EXCEPT !.token0 = PoolOrder[1], !.token1 = PoolOrder[2]]
                 ELSE addStore
  /\ addHook' = FreshAddHook
  /\ displaced' = (displaced \/ Open("add") # {} \/ addRefetches # {})
  /\ UNCHANGED <<addRefetches, removal>>

OpenRemove ==
  /\ Opening("remove")
  /\ removal' = FreshRemoval
  /\ UNCHANGED <<addStore, addHook, addRefetches, displaced>>

CloseModal ==
  /\ page = "liquidity" /\ modal # "closed"
  /\ modal' = "closed"
  /\ addStore' = IF modal = "add" THEN EmptyAdd ELSE addStore
  /\ addHook' = FreshAddHook /\ removal' = FreshRemoval
  /\ Unmount(modal)
  /\ UNCHANGED <<addRefetches, displaced>>

-----------------------------------------------------------------------------
(* The add form.  Amounts are completed with the reserves in the pool's    *)
(* order, whatever the order of the tokens in the form.                    *)
a == addStore
HasPool == {a.token0, a.token1} = {PoolOrder[1], PoolOrder[2]}
SetStep(step) == addStore' = [a EXCEPT !.step = step]
AddFormShown == page = "liquidity" /\ modal = "add" /\ ~Confirmed(addHook.addHash)

EditAdd(store) ==
  /\ AddFormShown
  /\ addStore' = store
  /\ store # a
  /\ Editing
  /\ UNCHANGED <<modal, addHook, addRefetches, removal, displaced>>

(* The list leaves out the other side's token, importing it does not. *)
SelectToken == \E t \in Choices :
  EditAdd([a EXCEPT !.token0 = t]) \/ EditAdd([a EXCEPT !.token1 = t])
SetAmount0 == \E n \in Amounts :
  EditAdd([a EXCEPT !.amount0 = n,
             !.amount1 = IF HasPool THEN (n * PoolReserves[2]) \div PoolReserves[1] ELSE @])
SetAmount1 == \E n \in Amounts :
  EditAdd([a EXCEPT !.amount1 = n,
             !.amount0 = IF HasPool THEN (n * PoolReserves[1]) \div PoolReserves[2] ELSE @])

NeedsApprove(t, n) == t \in Tokens /\ KnownToMiss(t, n)
NeedsApprove0 == NeedsApprove(a.token0, a.amount0)
NeedsApprove1 == NeedsApprove(a.token1, a.amount1)
AllowancesLoaded == \A t \in {a.token0, a.token1} \cap Tokens : ~Checking(t)

Held == {"approving0", "approving1", "signing", "pending"}
IsBusy == a.step \in Held \/ Waiting(addHook.addHash) \/ ~AllowancesLoaded
CanSubmit ==
  /\ AddFormShown /\ ~IsBusy
  /\ NoToken \notin {a.token0, a.token1} /\ a.token0 # a.token1
  /\ a.amount0 \in 1..Balance /\ a.amount1 \in 1..Balance

(* The step follows the form unless something is under way or was decided. *)
FollowForm ==
  LET due == IF a.amount0 = 0 /\ a.amount1 = 0 THEN "idle"
             ELSE IF ~AllowancesLoaded THEN a.step
             ELSE IF NeedsApprove0 THEN "needsApprove0"
             ELSE IF NeedsApprove1 THEN "needsApprove1"
             ELSE "ready"
  IN /\ page = "liquidity" /\ modal = "add"
     /\ a.step \notin Held \cup {"failed", "confirmed"}
     /\ a.step # due
     /\ SetStep(due)
     /\ UNCHANGED <<modal, addHook, addRefetches, removal, displaced, session>>

(* The one button of the form: approve token 0, then token 1, then add. *)
HandleApprove(t, n, step) ==
  /\ CanSubmit
  /\ Ask("add", [op |-> "approve", grants |-> Of(t, n), spends |-> Nothing])
  /\ SetStep(step)
  /\ UNCHANGED <<modal, addHook, addRefetches, removal, displaced>>
HandleApprove0 == NeedsApprove0 /\ HandleApprove(a.token0, a.amount0, "approving0")
HandleApprove1 == ~NeedsApprove0 /\ NeedsApprove1 /\ HandleApprove(a.token1, a.amount1, "approving1")

HandleAddLiquidity ==
  /\ CanSubmit /\ ~NeedsApprove0 /\ ~NeedsApprove1
  /\ Ask("add", [op |-> "add", grants |-> Nothing,
                 spends |-> [t \in {a.token0, a.token1} \cap Tokens |->
                               IF t = a.token0 THEN a.amount0 ELSE a.amount1],
                 amounts |-> <<a.amount0, a.amount1>>,
                 least |-> <<Least(a.amount0), Least(a.amount1)>>])
  /\ SetStep("signing")
  /\ UNCHANGED <<modal, addHook, addRefetches, removal, displaced>>

(* Signing: what is kept in the hook is lost if the modal is gone. *)
AddRequestSigned(r) ==
  /\ Send(r, [op |-> r.call.op, grants |-> r.call.grants, spends |-> r.call.spends])
  /\ IF r.call.op = "approve"
     THEN /\ addHook' = IF Current(r) THEN [addHook EXCEPT !.approveHash = NewHash] ELSE addHook
          /\ UNCHANGED addStore
     ELSE /\ addHook' = IF Current(r) THEN [addHook EXCEPT !.addHash = NewHash] ELSE addHook
          /\ addStore' = [a EXCEPT !.step = "pending", !.hash = NewHash]
  /\ UNCHANGED <<modal, addRefetches, removal, displaced>>

AddRequestRejected(r) ==
  /\ Reject(r)
  /\ SetStep("failed")
  /\ UNCHANGED <<modal, addHook, addRefetches, removal, displaced>>

(* The effect of an approval's receipt; it runs again when the step changes. *)
ApproveMined ==
  LET h == addHook.approveHash
      token == IF a.step = "approving0" THEN a.token0 ELSE a.token1
  IN /\ modal = "add" /\ Succeeded(h)
     /\ addHook.ran # <<h, a.step>>
     /\ Toast(h, "success")
     /\ addHook' = [addHook EXCEPT !.ran = <<h, a.step>>]
     /\ addRefetches' = addRefetches \cup {[mount |-> mounts["add"], token |-> token]}
     /\ UNCHANGED <<modal, addStore, removal, displaced>>

ApproveReverted ==
  LET h == addHook.approveHash IN
  /\ modal = "add" /\ Reverted(h)
  /\ Toast(h, "error")
  /\ addHook' = [addHook EXCEPT !.approveHash = NoHash]
  /\ SetStep("failed")
  /\ UNCHANGED <<modal, addRefetches, removal, displaced>>

(* The store goes idle, also when another modal is open by then. *)
RefetchDone(f) ==
  /\ addRefetches' = addRefetches \ {f}
  /\ \/ f.token \in Tokens /\ ReadAllowance(f.token)
     \/ UNCHANGED session
  /\ addHook' = IF f.mount = mounts["add"] THEN [addHook EXCEPT !.approveHash = NoHash] ELSE addHook
  /\ SetStep("idle")
  /\ UNCHANGED <<modal, removal, displaced>>

(* The deposit's receipt; its effect needs the step to be pending. *)
AddMined ==
  LET h == addHook.addHash IN
  /\ modal = "add" /\ h # NoHash
  /\ \/ a.step = "pending" /\ Succeeded(h) /\ Toast(h, "success") /\ SetStep("confirmed")
     \/ a.step = "pending" /\ Reverted(h) /\ Toast(h, "error") /\ SetStep("failed")
     \/ a.step # "pending" /\ Learn(h) /\ UNCHANGED addStore
  /\ UNCHANGED <<modal, addHook, addRefetches, removal, displaced>>

-----------------------------------------------------------------------------
(* The remove modal: a share, a confirmation, then the request. *)
LpAmount == (LpBalance * removal.percent) \div 100
Estimated(i) == (LpAmount * PoolReserves[i]) \div LpBalance
RemoveShown == page = "liquidity" /\ modal = "remove" /\ ~Confirmed(removal.hash)

SetPercent == \E p \in Percents :
  /\ RemoveShown
  /\ removal' = [removal EXCEPT !.percent = IF @ = p THEN 0 ELSE p]
  /\ UNCHANGED <<modal, addStore, addHook, addRefetches, displaced, session>>

(* The button clears what an earlier attempt left and asks for confirmation. *)
AskConfirmation ==
  /\ RemoveShown /\ ~removal.confirming
  /\ LpAmount > 0 /\ removal.step \notin {"signing", "pending"}
  /\ removal' = [removal EXCEPT !.confirming = TRUE, !.step = "idle", !.hash = NoHash]
  /\ UNCHANGED <<modal, addStore, addHook, addRefetches, displaced, session>>

CancelConfirmation ==
  /\ RemoveShown /\ removal.confirming
  /\ removal' = [removal EXCEPT !.confirming = FALSE]
  /\ UNCHANGED <<modal, addStore, addHook, addRefetches, displaced, session>>

(* The amount may have been set back to nothing in the meantime. *)
HandleConfirmRemove ==
  /\ RemoveShown /\ removal.confirming
  /\ IF LpAmount = 0
     THEN /\ removal' = [removal EXCEPT !.confirming = FALSE]
          /\ UNCHANGED session
     ELSE /\ Ask("remove", [op |-> "remove", grants |-> Nothing, spends |-> Nothing,
                            lp |-> LpAmount, least |-> <<Least(Estimated(1)), Least(Estimated(2))>>])
          /\ removal' = [removal EXCEPT !.confirming = FALSE, !.step = "signing"]
  /\ UNCHANGED <<modal, addStore, addHook, addRefetches, displaced>>

RemoveSigned(r) ==
  /\ Send(r, [op |-> "remove", grants |-> Nothing, spends |-> Nothing])
  /\ removal' = IF Current(r) THEN [removal EXCEPT !.step = "pending", !.hash = NewHash]
                ELSE removal
  /\ UNCHANGED <<modal, addStore, addHook, addRefetches, displaced>>

RemoveRejected(r) ==
  /\ Reject(r)
  /\ removal' = IF Current(r) THEN [removal EXCEPT !.step = "failed"] ELSE removal
  /\ UNCHANGED <<modal, addStore, addHook, addRefetches, displaced>>

(* The effect of its receipt does not look at the step. *)
RemoveMined ==
  LET h == removal.hash IN
  /\ modal = "remove"
  /\ \/ /\ Succeeded(h) /\ removal.step # "confirmed"
        /\ Toast(h, "success")
        /\ removal' = [removal EXCEPT !.step = "confirmed"]
     \/ /\ Reverted(h) /\ txs[h].toast = "pending"
        /\ Toast(h, "error")
        /\ removal' = [removal EXCEPT !.step = "failed"]
  /\ UNCHANGED <<modal, addStore, addHook, addRefetches, displaced>>

-----------------------------------------------------------------------------
NextLiquidity ==
  \/ OpenAdd \/ OpenRemove \/ CloseModal
  \/ SelectToken \/ SetAmount0 \/ SetAmount1 \/ FollowForm
  \/ HandleApprove0 \/ HandleApprove1 \/ HandleAddLiquidity
  \/ ApproveMined \/ ApproveReverted \/ AddMined
  \/ SetPercent \/ AskConfirmation \/ CancelConfirmation \/ HandleConfirmRemove
  \/ RemoveMined
  \/ \E f \in addRefetches : RefetchDone(f)
  \/ \E r \in Open("add") : AddRequestSigned(r) \/ AddRequestRejected(r)
  \/ \E r \in Open("remove") : RemoveSigned(r) \/ RemoveRejected(r)

LiquidityTypeOK ==
  /\ modal \in {"closed", "add", "remove"}
  /\ modal # "closed" => page = "liquidity"
  /\ a.token0 \in Choices \cup {NoToken} /\ a.token1 \in Choices \cup {NoToken}
  /\ a.amount0 \in Nat /\ a.amount1 \in Nat
  /\ a.step \in Held \cup {"idle", "needsApprove0", "needsApprove1", "ready", "confirmed", "failed"}
  /\ {a.hash, addHook.approveHash, addHook.addHash, removal.hash}
       \subseteq {NoHash} \cup DOMAIN txs
  /\ removal.percent \in Percents \cup {0} /\ removal.confirming \in BOOLEAN
  /\ displaced \in BOOLEAN
  /\ removal.step \in {"idle", "signing", "pending", "confirmed", "failed"}
=============================================================================
