------------------------------ MODULE Frontend ------------------------------
(***************************************************************************)
(* The pages of frontend/src/app in one session of one wallet: the swap,   *)
(* liquidity, staking and governance flows over the wallet, the chain, the *)
(* caches and the toasts they share, and pages that send nothing.  Leaving *)
(* a page unmounts what it shows; the two stores, the wallet's open        *)
(* requests and the refetches under way stay.                              *)
(***************************************************************************)
EXTENDS Session, Routing

CONSTANTS
  Links, \* bound: from which page to which the user goes; the bar offers all
  Listed, Weth, Starts, Markets, PoolsOf(_), Slippages, Balance, \* see SwapFlow
  PoolOrder, PoolReserves, LpBalance, Percents,                  \* see LiquidityFlow
  StakingToken, RewardToken, Pending, IsOwner                    \* see StakingFlow

VARIABLES
  market, swapStore, swapPanel, refetches, overtaken,
  modal, addStore, addHook, addRefetches, removal, displaced,
  pool, panel, stakeRefetch, dialog, fund, admin, dropped,
  ended, facts, card, busy, creating

(* Computed once, which comparing it with itself sees to. *)
Quotes == CHOOSE f \in
  {[q \in Markets \X (Listed \cup {Weth}) \X (Listed \cup {Weth}) \X Amounts |->
      RouteOptions(PoolsOf(q[1]), q[2], q[3], q[4])]} : f = f

Swap == INSTANCE SwapFlow
Liquidity == INSTANCE LiquidityFlow
Staking == INSTANCE StakingFlow
Governance == INSTANCE GovernanceFlow

swapVars == <<market, swapStore, swapPanel, refetches, overtaken>>
liquidityVars == <<modal, addStore, addHook, addRefetches, removal, displaced>>
stakingVars == <<pool, panel, stakeRefetch, dialog, fund, admin, dropped>>
governanceVars == <<ended, facts, card, busy, creating>>
flows == <<swapVars, liquidityVars, stakingVars, governanceVars>>
vars == <<session, flows>>

(* Of the constants of the flows, which are instances here. *)
ASSUME FrontendAssumption ==
  /\ Forms = {"swap", "add", "remove", "stake", "fund", "manage", "addPool"}
               \cup Governance!GovernanceForms
  /\ Weth \notin Tokens /\ Listed \subseteq Tokens /\ 50 \in Slippages
  /\ Starts \subseteq (Swap!Offered \cup {Swap!NoToken}) \X (Swap!Offered \cup {Swap!NoToken})
  /\ PoolOrder \in Liquidity!Choices \X Liquidity!Choices
  /\ PoolReserves \in (Nat \ {0}) \X (Nat \ {0}) /\ Percents \subseteq 1..100
  /\ {StakingToken, RewardToken} \subseteq Tokens /\ Pending \in Nat /\ IsOwner \in BOOLEAN

(* What the API lists: pools with reserves, any of them empty. *)
IsPoolList(pools) ==
  /\ pools \in Seq({pools[i] : i \in DOMAIN pools})
  /\ \A i \in DOMAIN pools : pools[i].reserve0 \in Nat /\ pools[i].reserve1 \in Nat

(* Of what the quotes rest on; the selector of tolerances stops at 50%. *)
ASSUME QuotesAssumption ==
  /\ \A m \in Markets : IsPoolList(PoolsOf(m))
  /\ \A bps \in Slippages : bps \in Nat /\ bps <= 5000

FormsOf(p) ==
  CASE p = "swap" -> {"swap"}
    [] p = "liquidity" -> {"add", "remove"}
    [] p = "staking" -> {"stake", "fund", "manage", "addPool"}
    [] p = "governance" -> Governance!GovernanceForms
    [] OTHER -> {}

Init ==
  /\ InitSession
  /\ Swap!InitSwap /\ Liquidity!InitLiquidity
  /\ Staking!InitStaking /\ Governance!InitGovernance

-----------------------------------------------------------------------------
SwapStep == Swap!NextSwap /\ UNCHANGED <<liquidityVars, stakingVars, governanceVars>>
LiquidityStep == Liquidity!NextLiquidity /\ UNCHANGED <<swapVars, stakingVars, governanceVars>>
StakingStep == Staking!NextStaking /\ UNCHANGED <<swapVars, liquidityVars, governanceVars>>
GovernanceStep == Governance!NextGovernance /\ UNCHANGED <<swapVars, liquidityVars, stakingVars>>

(* The allowances the hooks of the page shown have asked for. *)
ReadHere ==
  CASE page = "swap" -> {swapStore.tokenIn} \cap Tokens
    [] page = "liquidity" ->
         IF modal = "add" THEN {addStore.token0, addStore.token1} \cap Tokens ELSE {}
    [] page = "staking" ->
         {t \in {StakingToken} : pool # "closed"} \cup {t \in {RewardToken} : dialog = "fund"}
    [] OTHER -> {}

Answered == \E t \in ReadHere :
  /\ known[t] # {allowance[t]}
  /\ ReadAllowance(t)
  /\ UNCHANGED flows
Mined == \E h \in DOMAIN txs : MineTx(h) /\ UNCHANGED flows

\* Mutant: the page left is not unmounted.
LeaveMounted == \E p \in Pages :
  <<page, p>> \in Links /\ Navigate(p, FormsOf(page)) /\ UNCHANGED flows

(* Another page: what the one left kept in useState is gone. *)
Leave == \E p \in Pages :
  /\ <<page, p>> \in Links
  /\ Navigate(p, FormsOf(page))
  /\ swapPanel' = Swap!FreshPanel
  /\ modal' = "closed" /\ addHook' = Liquidity!FreshAddHook /\ removal' = Liquidity!FreshRemoval
  /\ panel' = Staking!FreshStake
  /\ dialog' = "none" /\ fund' = Staking!FreshFund /\ admin' = Staking!FreshAdmin
  /\ card' = Governance!FreshCard /\ busy' = {} /\ creating' = FALSE
  /\ UNCHANGED <<market, swapStore, refetches, overtaken, addStore, addRefetches,
                 displaced, pool, stakeRefetch, dropped, ended, facts>>

Next ==
  SwapStep \/ LiquidityStep \/ StakingStep \/ GovernanceStep \/ Answered \/ Mined \/ Leave

Spec == Init /\ [][Next]_vars

-----------------------------------------------------------------------------
(* Types of the shared state and of every flow's. *)
TypeOK ==
  /\ page \in Pages /\ visit \in Nat /\ mounts \in [Forms -> Nat]
  /\ Cardinality(requests) <= asked /\ asked \in Nat /\ edits \in Nat
  /\ \A h \in DOMAIN txs : /\ txs[h].status \in {"pending", "success", "reverted"}
                           /\ txs[h].toast \in {"pending", "success", "error"}
  /\ allowance \in [Tokens -> Nat] /\ known \in [Tokens -> SUBSET Nat]
  /\ Swap!SwapTypeOK /\ Liquidity!LiquidityTypeOK
  /\ Staking!StakingTypeOK /\ Governance!GovernanceTypeOK

(* A toast that says how a transaction ended says what happened, whichever *)
(* page is shown by then.  The governance page is the exception: viem's    *)
(* waitForTransactionReceipt returns for a reverted transaction, which is  *)
(* announced as a success, and gives up on one that may still succeed.     *)
ToastsTellTheOutcome == \A h \in DOMAIN txs :
  LET tx == txs[h]  governed == tx.form \in Governance!GovernanceForms IN
  /\ tx.toast = "success" => tx.status = "success" \/ (governed /\ tx.status = "reverted")
  /\ tx.toast = "error" => tx.status = "reverted" \/ governed

(* The reference for lib/amm.ts: every path without repetition over at     *)
(* most three pools, and the most each pool can pay with its product kept; *)
(* a pool with an empty reserve pays nothing.                              *)
PathTokens(pools) == UNION {{pools[i].token0, pools[i].token1} : i \in DOMAIN pools}
Leg(pools, x, y) == \E i \in DOMAIN pools : Joins(pools[i], x, y)
Paths(pools, in, out) ==
  {path \in UNION {[1..n -> PathTokens(pools)] : n \in 2..4} :
     /\ path[1] = in /\ path[Len(path)] = out
     /\ IsInjective(path)
     /\ \A i \in 1..(Len(path) - 1) : Leg(pools, path[i], path[i + 1])}
MostPaid(n, x, y) ==
  Cardinality({out \in 1..y : x > 0 /\ (x * 1000 + n * 997) * (y - out) >= x * 1000 * y})
Worth(pools, path, amountIn) ==
  LET worth[i \in 1..Len(path)] ==
        IF i = 1 THEN amountIn
        ELSE MostPaid(worth[i - 1], ReserveOf(pools, path[i - 1], path[i]),
                                    ReserveOf(pools, path[i], path[i - 1]))
  IN worth[Len(path)]

(* Whatever the form went through, the swap the wallet is asked to sign    *)
(* goes along a path of existing pools from the one token to the other, is *)
(* quoted what that path pays, with at most one better path, and asks for  *)
(* no less than the quote less the tolerance, rounded down.  A tolerance   *)
(* of nothing turns the protection off: handleSwap then asks for 0.        *)
SignedSwapIsSound == \A r \in Open("swap") : r.call.op = "swap" =>
  LET c == r.call
      pools == PoolsOf(market)
      paths == Paths(pools, c.in, c.out) IN
  /\ c.route \in paths
  /\ c.quoted = Worth(pools, c.route, c.amountIn) /\ c.quoted > 0
  /\ Cardinality({path \in paths : Worth(pools, path, c.amountIn) > c.quoted}) <= 1
  /\ IF c.slippage = 0 THEN c.minOut = 0
     ELSE /\ c.minOut * 10000 <= c.quoted * (10000 - c.slippage)
          /\ (c.minOut + 1) * 10000 > c.quoted * (10000 - c.slippage)

(* A form never asks twice for the same at a time, unless the step that    *)
(* keeps it from it was overwritten: a swap or an approval was asked for   *)
(* while an approval went on, or an approval while a swap did; an add modal*)
(* was opened before an earlier one was done; or a tab of the staking panel*)
(* was changed in between.                                                 *)
OneRequestPerForm == \A r, q \in requests :
  r # q /\ r.form = q.form /\ r.mount = q.mount /\ r.call.op = q.call.op =>
    \/ r.form = "swap" /\ overtaken
    \/ r.form = "add" /\ displaced
    \/ r.form = "stake" /\ dropped

(* The wallet is asked to spend tokens that are not approved on the chain  *)
(* only if a transaction of the session changed that allowance behind the  *)
(* cached one (no hook reads it again after spending), or after a failure, *)
(* which makes the staking panel skip the approval.                        *)
AskedWithinAllowance == \A r \in requests : \A t \in DOMAIN r.call.spends :
  allowance[t] < r.call.spends[t] =>
    \/ r.call.op = "deposit" /\ r.call.after = "failed"
    \/ \E h \in DOMAIN txs : /\ txs[h].status = "success"
                             /\ t \in DOMAIN txs[h].call.spends \cup DOMAIN txs[h].call.grants

(* Some hook or mutation will end the toast of this transaction. *)
Watched(h) ==
  \/ h = swapPanel.approveHash \/ (h = swapStore.hash /\ swapStore.step = "pending")
  \/ h = addHook.approveHash \/ (h = addHook.addHash /\ addStore.step = "pending")
  \/ h = removal.hash
  \/ h = panel.approveHash \/ (h = panel.hash /\ panel.step = "pending")
  \/ h = fund.hash \/ h = admin.hash
  \/ txs[h].form \in Governance!GovernanceForms

(* A pending toast is never forgotten while its form is mounted, and that  *)
(* of a swap not even then: some hook still follows its transaction.  Not  *)
(* so after the overwritten steps above, and never for an approval of the  *)
(* fund modal, which no effect follows.                                    *)
PendingToastsAreWatched == \A h \in DOMAIN txs :
  LET tx == txs[h] IN
  tx.toast = "pending" =>
    \/ Watched(h)
    \/ tx.mount # mounts[tx.form] /\ ~(tx.form = "swap" /\ tx.call.op = "swap")
    \/ tx.form = "swap" /\ overtaken
    \/ tx.form = "add" /\ displaced
    \/ tx.form = "stake" /\ dropped
    \/ tx.form = "fund" /\ tx.call.op = "approve"
=============================================================================
