------------------------------ MODULE SwapFlow ------------------------------
(***************************************************************************)
(* The swap page: hooks/useSwap.ts, store/useSwapStore.ts and              *)
(* components/dex/SwapPanel.tsx with the quotes of Routing.  The store is  *)
(* global and survives leaving the page; what the hook keeps in useState   *)
(* does not.  Effects and their zero timeouts are steps of their own, which*)
(* read the state when they run; only the one that goes back to the best   *)
(* route is part of the change it follows.                                 *)
(***************************************************************************)
EXTENDS Session

CONSTANTS
  Listed,      \* the ERC20 tokens the page offers
  Starts,      \* the pairs of tokens a session may start with
  Weth,        \* the token that stands for ETH: no allowance, sent as value
  Markets,     \* the lists of pools the API may return, by name
  Quotes,      \* the route options of each market, pair of tokens and amount
  Slippages,   \* tolerances the user may choose, in basis points
  Balance      \* what the user owns of each token

VARIABLES
  market,    \* the pools the page has loaded
  swapStore, \* [tokenIn, tokenOut, amountIn, slippage, step, hash]
  swapPanel, \* this visit's [selected, approveHash, ran]
  refetches, \* refetchAllowance calls under way: [mount, token]
  overtaken  \* history: one was asked for while an approval or the other went on

swapVars == <<market, swapStore, swapPanel, refetches, overtaken>>

R == INSTANCE Routing

NoToken == "none"
Offered == Listed \cup {Weth}
Idle == "idle"

FreshPanel == [selected |-> 1, approveHash |-> NoHash, ran |-> <<>>]

(* The session starts with no amount, before or after tokens were chosen. *)
InitSwap ==
  /\ market \in Markets
  /\ \E pair \in Starts :
       swapStore = [tokenIn |-> pair[1], tokenOut |-> pair[2], amountIn |-> 0,
                    slippage |-> 50, step |-> Idle, hash |-> NoHash]
  /\ swapPanel = FreshPanel
  /\ refetches = {}
  /\ overtaken = FALSE

-----------------------------------------------------------------------------
(* What the page derives from its state. *)
s == swapStore
Options ==
  IF NoToken \in {s.tokenIn, s.tokenOut} THEN <<>>
  ELSE Quotes[<<market, s.tokenIn, s.tokenOut, s.amountIn>>]
RouteExists == Options # <<>>
Selected ==
  Options[IF swapPanel.selected > Len(Options) THEN Len(Options) ELSE swapPanel.selected]
IsInsufficientBalance == s.amountIn > Balance
ExceedsPoolReserve == RouteExists /\ s.amountIn > Selected.poolReserveIn

NeedsApproval == s.tokenIn \in Tokens /\ ~KnownToCover(s.tokenIn, s.amountIn)
IsConfirming == Waiting(s.hash)
IsConfirmed == Confirmed(s.hash)
SwapGoesOn == s.step = "pending" \/ \E r \in Open("swap") : r.call.op = "swap"
ApprovalGoesOn ==
  \/ swapPanel.approveHash # NoHash \/ refetches # {}
  \/ \E r \in Open("swap") : r.call.op = "approve"

(* The form can be used unless the confirmation covers the page. *)
FormShown == page = "swap" /\ ~IsConfirmed

(* SwapButton: which of its buttons is there, and enabled. *)
Ready ==
  /\ FormShown
  /\ NoToken \notin {s.tokenIn, s.tokenOut}
  /\ s.amountIn > 0 /\ ~IsInsufficientBalance
  /\ RouteExists /\ ~ExceedsPoolReserve
ApproveOffered == /\ Ready /\ NeedsApproval
                  /\ s.step # "approving" /\ ~Checking(s.tokenIn)
SwapOffered == /\ Ready /\ ~NeedsApproval
               /\ s.step # "signing" /\ ~IsConfirming

SetStep(step) == swapStore' = [s EXCEPT !.step = step]

-----------------------------------------------------------------------------
(* The form.  Every change goes back to the best route. *)
Edit(store) ==
  /\ FormShown
  /\ swapStore' = store
  /\ store # s
  /\ swapPanel' = [swapPanel EXCEPT !.selected = 1]
  /\ Editing
  /\ UNCHANGED <<market, refetches, overtaken>>

SetAmountIn == \E n \in Amounts : Edit([s EXCEPT !.amountIn = n])

(* Choosing the token of the other side exchanges the two. *)
SetTokenIn == \E t \in Offered :
  Edit(IF t = s.tokenOut THEN [s EXCEPT !.tokenIn = t, !.tokenOut = s.tokenIn]
       ELSE [s EXCEPT !.tokenIn = t])
SetTokenOut == \E t \in Offered :
  Edit(IF t = s.tokenIn THEN [s EXCEPT !.tokenOut = t, !.tokenIn = s.tokenOut]
       ELSE [s EXCEPT !.tokenOut = t])
Flip == Edit([s EXCEPT !.tokenIn = s.tokenOut, !.tokenOut = s.tokenIn])

SetSlippage == \E bps \in Slippages :
  /\ FormShown /\ bps # s.slippage
  /\ swapStore' = [s EXCEPT !.slippage = bps]
  /\ Editing
  /\ UNCHANGED <<market, swapPanel, refetches, overtaken>>

SelectRoute == \E i \in 1..R!MaxOptions :
  /\ FormShown /\ i \in DOMAIN Options /\ i # swapPanel.selected
  /\ swapPanel' = [swapPanel EXCEPT !.selected = i]
  /\ Editing
  /\ UNCHANGED <<market, swapStore, refetches, overtaken>>

(* The first effect of useSwap: an idle step follows the form. *)
FollowForm ==
  /\ page = "swap" /\ s.step = Idle
  /\ s.amountIn > 0 /\ ~ExceedsPoolReserve
  /\ SetStep(IF NeedsApproval THEN "needsApprove" ELSE "quoted")
  /\ UNCHANGED <<market, swapPanel, refetches, overtaken, session>>

-----------------------------------------------------------------------------
(* Approving. *)
HandleApprove ==
  /\ ApproveOffered
  /\ Ask("swap", [op |-> "approve", grants |-> Of(s.tokenIn, s.amountIn),
                  spends |-> Nothing])
  /\ SetStep("approving")
  /\ overtaken' = (overtaken \/ SwapGoesOn \/ ApprovalGoesOn)
  /\ UNCHANGED <<market, swapPanel, refetches>>

ApproveSigned(r) ==
  /\ r.call.op = "approve"
  /\ Send(r, r.call)
  /\ swapPanel' = IF Current(r) THEN [swapPanel EXCEPT !.approveHash = NewHash] ELSE swapPanel
  /\ UNCHANGED <<market, swapStore, refetches, overtaken>>

ApproveRejected(r) ==
  /\ r.call.op = "approve"
  /\ Reject(r)
  /\ SetStep("failed")
  /\ UNCHANGED <<market, swapPanel, refetches, overtaken>>

(* The effect of a receipt: toast, and read the allowance again.  It runs  *)
(* once more for another token in the form.                                *)
ApproveMined ==
  LET h == swapPanel.approveHash IN
  /\ page = "swap" /\ Succeeded(h)
  /\ swapPanel.ran # <<h, s.tokenIn>>
  /\ Toast(h, "success")
  /\ swapPanel' = [swapPanel EXCEPT !.ran = <<h, s.tokenIn>>]
  /\ refetches' = refetches \cup {[mount |-> mounts["swap"], token |-> s.tokenIn]}
  /\ UNCHANGED <<market, swapStore, overtaken>>

(* The answer, or the failure of the call; then the step goes idle. *)
RefetchDone(f) ==
  /\ refetches' = refetches \ {f}
  /\ \/ f.token \in Tokens /\ ReadAllowance(f.token)
     \/ UNCHANGED session
  /\ swapPanel' = IF f.mount = mounts["swap"] THEN [swapPanel EXCEPT !.approveHash = NoHash] ELSE swapPanel
  /\ SetStep(Idle)
  /\ UNCHANGED <<market, overtaken>>

ApproveReverted ==
  LET h == swapPanel.approveHash IN
  /\ page = "swap" /\ Reverted(h)
  /\ Toast(h, "error")
  /\ swapPanel' = [swapPanel EXCEPT !.approveHash = NoHash]
  /\ SetStep("failed")
  /\ UNCHANGED <<market, refetches, overtaken>>

-----------------------------------------------------------------------------
(* Swapping. *)
HandleSwap ==
  /\ SwapOffered
  /\ Ask("swap", [op |-> "swap", grants |-> Nothing,
                  spends |-> IF s.tokenIn = Weth THEN Nothing ELSE Of(s.tokenIn, s.amountIn),
                  in |-> s.tokenIn, out |-> s.tokenOut, amountIn |-> s.amountIn,
                  route |-> Selected.route, quoted |-> Selected.amountOut,
                  slippage |-> s.slippage,
                  minOut |-> IF s.slippage > 0
                             THEN R!MinAmountOut(Selected.amountOut, s.slippage) ELSE 0])
  /\ SetStep("signing")
  /\ overtaken' = (overtaken \/ ApprovalGoesOn)
  /\ UNCHANGED <<market, swapPanel, refetches>>

\* Mutant: a page that was left does not store the hash.
SwapSignedOnPage(r) ==
  /\ r.call.op = "swap"
  /\ Send(r, [op |-> "swap", grants |-> Nothing, spends |-> r.call.spends])
  /\ swapStore' = IF Current(r) THEN [s EXCEPT !.step = "pending", !.hash = NewHash] ELSE s
  /\ UNCHANGED <<market, swapPanel, refetches, overtaken>>

SwapSigned(r) ==
  /\ r.call.op = "swap"
  /\ Send(r, [op |-> "swap", grants |-> Nothing, spends |-> r.call.spends])
  /\ swapStore' = [s EXCEPT !.step = "pending", !.hash = NewHash]
  /\ UNCHANGED <<market, swapPanel, refetches, overtaken>>

SwapRejected(r) ==
  /\ r.call.op = "swap"
  /\ Reject(r)
  /\ SetStep("failed")
  /\ UNCHANGED <<market, swapPanel, refetches, overtaken>>

(* The swap's receipt.  Its effect does nothing unless the step is pending. *)
SwapMined ==
  /\ page = "swap" /\ s.hash # NoHash
  /\ \/ s.step = "pending" /\ Succeeded(s.hash) /\ Toast(s.hash, "success") /\ SetStep("confirmed")
     \/ s.step = "pending" /\ Reverted(s.hash) /\ Toast(s.hash, "error") /\ SetStep("failed")
     \/ s.step # "pending" /\ Learn(s.hash) /\ UNCHANGED swapStore
  /\ UNCHANGED <<market, swapPanel, refetches, overtaken>>

(* Closing the confirmation: reset() keeps the tokens and the tolerance. *)
CloseConfirmed ==
  /\ page = "swap" /\ IsConfirmed
  /\ swapStore' = [s EXCEPT !.amountIn = 0, !.step = Idle, !.hash = NoHash]
  /\ UNCHANGED <<market, swapPanel, refetches, overtaken, session>>

-----------------------------------------------------------------------------
NextSwap ==
  \/ SetAmountIn \/ SetTokenIn \/ SetTokenOut \/ Flip \/ SetSlippage \/ SelectRoute
  \/ FollowForm
  \/ HandleApprove \/ ApproveMined \/ ApproveReverted
  \/ HandleSwap \/ SwapMined \/ CloseConfirmed
  \/ \E f \in refetches : RefetchDone(f)
  \/ \E r \in Open("swap") : \/ ApproveSigned(r) \/ ApproveRejected(r)
                             \/ SwapSigned(r) \/ SwapRejected(r)

SwapTypeOK ==
  /\ market \in Markets
  /\ s.tokenIn \in Offered \cup {NoToken} /\ s.tokenOut \in Offered \cup {NoToken}
  /\ s.amountIn \in Amounts /\ s.slippage \in Slippages
  /\ s.step \in {Idle, "needsApprove", "quoted", "approving", "signing", "pending",
                 "confirmed", "failed"}
  /\ s.hash \in {NoHash} \cup DOMAIN txs
  /\ swapPanel.approveHash \in {NoHash} \cup DOMAIN txs
  /\ swapPanel.selected \in 1..R!MaxOptions
=============================================================================
