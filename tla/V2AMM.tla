-------------------------------- MODULE V2AMM --------------------------------
(***************************************************************************)
(* One pool (V2AMM.sol) with its LP token (V2LPToken.sol) and the two      *)
(* ERC-20 tokens it trades.  A transaction either happens as a whole or    *)
(* reverts and leaves no trace; every call is nonReentrant and the tokens  *)
(* have no hooks, so one action is one transaction.                        *)
(***************************************************************************)
EXTENDS PoolMath, Ledger, FiniteSets

CONSTANTS
  Users,           \* externally owned accounts
  Pool,            \* the pool's own address
  Dead,            \* the DEAD address, which nobody controls
  InitialBalance,  \* token -> user -> balance before the pool is used
  Amounts,         \* the amounts callers pass
  Minimums         \* the slippage minimums callers pass

Token == {0, 1}
Other(t) == 1 - t
Account == Users \cup {Pool, Dead}

ASSUME AccountAssumption ==
  /\ IsFiniteSet(Users)
  /\ Pool \notin Users /\ Dead \notin Users /\ Pool # Dead
  /\ InitialBalance \in [Token -> [Users -> Nat]]
  /\ Amounts \subseteq Nat /\ Minimums \subseteq Nat

VARIABLES
  reserve,      \* token -> uint128, the reserves the pool believes in
  balance,      \* token -> account -> balance in the token contract
  lp,           \* account -> LP balance
  totalSupply   \* LP supply

vars == <<reserve, balance, lp, totalSupply>>

Init ==
  /\ reserve = [t \in Token |-> 0]
  /\ balance = [t \in Token |->
                  [a \in Account |->
                     IF a \in Users THEN InitialBalance[t][a] ELSE 0]]
  /\ lp = [a \in Account |-> 0]
  /\ totalSupply = 0

-----------------------------------------------------------------------------
(* Token movements within a call. *)

\* Mutant: nobody looks at the payer's balance.
CanPayAnything(u, amount) == TRUE

CanPay(u, amount) == \A t \in Token : Covers(balance[t], u, amount[t])

\* Mutant: the same amount is pulled of both tokens.
PullFirstAmountTwice(u, amount) ==
  balance' = [t \in Token |-> Transfer(balance[t], u, Pool, amount[0])]

PullBoth(u, amount) ==
  balance' = [t \in Token |-> Transfer(balance[t], u, Pool, amount[t])]

SendBoth(u, amount) ==
  balance' = [t \in Token |-> Transfer(balance[t], Pool, u, amount[t])]

(* The first deposit mints for its depositor all but the locked part.      *)
\* Mutant: nothing is locked.
MintInitialUnlocked(u, initialLp) == Credit(lp, u, initialLp)

\* Mutant: the depositor is also given the locked part.
MintInitialTwice(u, initialLp) ==
  Credit(Credit(lp, Dead, MinimumLiquidity), u, initialLp)

MintInitial(u, initialLp) ==
  Credit(Credit(lp, Dead, MinimumLiquidity), u, initialLp - MinimumLiquidity)

(* LP earned by a deposit into a pool that already has liquidity.          *)
\* Mutant: the better endowed side decides.
MintedForRicherSide(amount) ==
  LET lp0 == ProRata(amount[0], totalSupply, reserve[0])
      lp1 == ProRata(amount[1], totalSupply, reserve[1])
  IN  IF lp0 < lp1 THEN lp1 ELSE lp0

MintedFor(amount) ==
  Lesser(ProRata(amount[0], totalSupply, reserve[0]),
         ProRata(amount[1], totalSupply, reserve[1]))

(* What x LP redeem of each token.                                         *)
Redeemed(x) == [t \in Token |-> ProRata(x, reserve[t], totalSupply)]

(* The reserves are two packed uint128 updated in an unchecked block.      *)
ReservesAfterDeposit(amount) ==
  [t \in Token |-> Wrap128(reserve[t] + amount[t])]

ReservesAfterWithdrawal(amount) ==
  [t \in Token |-> Wrap128(reserve[t] - amount[t])]

\* Mutant: the output side is not updated.
ReservesAfterHalfSwap(tokenIn, amountIn, amountOut) ==
  [reserve EXCEPT ![tokenIn] = Wrap128(@ + amountIn)]

ReservesAfterSwap(tokenIn, amountIn, amountOut) ==
  [reserve EXCEPT ![tokenIn]        = Wrap128(@ + amountIn),
                  ![Other(tokenIn)] = Wrap128(@ - amountOut)]

-----------------------------------------------------------------------------
(* addLiquidity, first deposit: both reserves are zero. *)
AddInitialLiquidity(u, amount) ==
  /\ \A t \in Token : reserve[t] = 0
  /\ \A t \in Token : amount[t] > 0 /\ amount[t] <= MaxUint128
  /\ CanPay(u, amount)
  /\ FitsUint256(amount[0] * amount[1])
  /\ LET initialLp == Sqrt(amount[0] * amount[1])
     IN  /\ initialLp > MinimumLiquidity
         /\ FitsUint256(totalSupply + initialLp)
         /\ lp' = MintInitial(u, initialLp)
         /\ totalSupply' = totalSupply + initialLp
  /\ PullBoth(u, amount)
  /\ reserve' = ReservesAfterDeposit(amount)

(* addLiquidity, later deposits: LP for the scarcer side, the whole of     *)
(* both amounts is taken.  A reserve of zero on one side makes the         *)
(* division revert.                                                        *)
AddLiquidity(u, amount, min) ==
  /\ \A t \in Token : reserve[t] > 0
  /\ \A t \in Token : amount[t] <= MaxUint128
  /\ \A t \in Token : FitsUint256(amount[t] * totalSupply)
  /\ LET minted == MintedFor(amount)
     IN  /\ minted > 0
         /\ \A t \in Token : Redeemed(minted)[t] >= min[t]
         /\ FitsUint256(totalSupply + minted)
         /\ lp' = Credit(lp, u, minted)
         /\ totalSupply' = totalSupply + minted
  /\ CanPay(u, amount)
  /\ PullBoth(u, amount)
  /\ reserve' = ReservesAfterDeposit(amount)

(* All that can make removeLiquidity revert, in the pool and in the tokens.*)
MayRemove(u, lpAmount, min) ==
  /\ lpAmount > 0
  /\ totalSupply > 0
  /\ \A t \in Token : FitsUint256(lpAmount * reserve[t])
  /\ \A t \in Token : Redeemed(lpAmount)[t] >= min[t]
  /\ Covers(lp, u, lpAmount)
  /\ \A t \in Token : Covers(balance[t], Pool, Redeemed(lpAmount)[t])

(* removeLiquidity: burns the caller's LP for its part of both reserves.   *)
RemoveLiquidity(u, lpAmount, min) ==
  /\ MayRemove(u, lpAmount, min)
  /\ lp' = Debit(lp, u, lpAmount)
  /\ totalSupply' = totalSupply - lpAmount
  /\ reserve' = ReservesAfterWithdrawal(Redeemed(lpAmount))
  /\ SendBoth(u, Redeemed(lpAmount))

(* swap of an exact input; the output is quoted from the current reserves. *)
Swap(u, tokenIn, amountIn, amountOutMin) ==
  LET tokenOut  == Other(tokenIn)
      amountOut == AmountOut(reserve[tokenIn], reserve[tokenOut], amountIn)
  IN  /\ amountIn > 0 /\ amountIn <= MaxUint128
      /\ reserve[tokenIn] > 0 /\ reserve[tokenOut] > 0
      /\ amountOut >= amountOutMin
      /\ Covers(balance[tokenIn], u, amountIn)
      /\ Covers(balance[tokenOut], Pool, amountOut)
      /\ balance' = [balance EXCEPT
                       ![tokenIn]  = Transfer(@, u, Pool, amountIn),
                       ![tokenOut] = Transfer(@, Pool, u, amountOut)]
      /\ reserve' = ReservesAfterSwap(tokenIn, amountIn, amountOut)
      /\ UNCHANGED <<lp, totalSupply>>

-----------------------------------------------------------------------------
(* Calls that go to the token contracts and bypass the pool. *)

(* Tokens sent straight to the pool: the reserves do not see them.         *)
Donate(u, t, x) ==
  /\ x > 0
  /\ Covers(balance[t], u, x)
  /\ balance' = [balance EXCEPT ![t] = Transfer(@, u, Pool, x)]
  /\ UNCHANGED <<reserve, lp, totalSupply>>

(* LP tokens are ordinary ERC-20s and may go to anybody.                   *)
TransferLp(u, to, x) ==
  /\ x > 0
  /\ Covers(lp, u, x)
  /\ lp' = Transfer(lp, u, to, x)
  /\ UNCHANGED <<reserve, balance, totalSupply>>

-----------------------------------------------------------------------------
Next ==
  \E u \in Users :
    \/ \E amount \in [Token -> Amounts] :
         \/ AddInitialLiquidity(u, amount)
         \/ \E min \in [Token -> Minimums] : AddLiquidity(u, amount, min)
    \/ \E x \in Amounts, min \in [Token -> Minimums] : RemoveLiquidity(u, x, min)
    \/ \E t \in Token, x \in Amounts, min \in Minimums : Swap(u, t, x, min)
    \/ \E t \in Token, x \in Amounts : Donate(u, t, x)
    \/ \E to \in Account, x \in Amounts : TransferLp(u, to, x)

Spec == Init /\ [][Next]_vars

-----------------------------------------------------------------------------
(* Types: the reserves are uint128 values, balances and LP are naturals.   *)
TypeOK ==
  /\ reserve \in [Token -> 0 .. MaxUint128]
  /\ balance \in [Token -> [Account -> Nat]]
  /\ lp \in [Account -> Nat]
  /\ totalSupply \in Nat

(* The pool owns at least what its reserves say, whatever mix of deposits, *)
(* withdrawals, swaps and stray transfers led here; otherwise a withdrawal *)
(* that the pool's arithmetic grants would revert in the token contract.   *)
PoolIsSolvent == \A t \in Token : reserve[t] <= balance[t][Pool]

(* The supply by which shares are divided is the LP there is.              *)
LpSupplyIsSumOfBalances == totalSupply = SumFunctionOnSet(lp, Account)

(* Once opened, a pool can never be emptied: both reserves stay positive   *)
(* and the locked LP stays at the DEAD address.  So the first-deposit      *)
(* branch, which ignores the supply, is taken once in the pool's life, and *)
(* no later division by a reserve or by the supply is by zero.             *)
PoolNeverDrains ==
  \/ /\ totalSupply = 0
     /\ \A t \in Token : reserve[t] = 0
  \/ /\ totalSupply >= MinimumLiquidity
     /\ lp[Dead] >= MinimumLiquidity
     /\ \A t \in Token : reserve[t] > 0

(* The value of one LP share, sqrt(reserve0 * reserve1) / totalSupply,     *)
(* never falls: every rounding of deposits, withdrawals and swaps is in    *)
(* favour of the remaining providers.                                      *)
ShareValueNeverFalls ==
  [][totalSupply > 0 =>
       reserve'[0] * reserve'[1] * totalSupply * totalSupply
         >= reserve[0] * reserve[1] * totalSupply' * totalSupply']_vars

(* "swaps with 0.3% fee" (test/v2-amm.test.ts:205-221) expects it: while  *)
(* no LP is minted or burnt, the product of the reserves does not fall.    *)
(* The unchecked additions of lines 222-230 keep it only as long as the    *)
(* new reserve fits in 128 bits.                                           *)
ProductNeverFallsInSwap ==
  [][totalSupply' = totalSupply =>
       reserve'[0] * reserve'[1] >= reserve[0] * reserve[1]]_vars

(* Every provider can leave: whatever LP an account holds, burning all of  *)
(* it with no minimum is a call that succeeds: no product overflows, and   *)
(* the pool has the tokens, after any swaps, donations and roundings.      *)
ProvidersCanExit ==
  \A u \in Users : lp[u] > 0 => MayRemove(u, lp[u], [t \in Token |-> 0])

(* Nobody gains by undoing a call at once: swapping the output back never  *)
(* returns more than went in, and burning the LP of a deposit returns no   *)
(* more of either token than was deposited.                                *)
SwapBackReturns(t, x) ==
  LET out == AmountOut(reserve[t], reserve[Other(t)], x)
  IN  AmountOut(reserve[Other(t)] - out, reserve[t] + x, out)

NoProfitFromUndoing ==
  totalSupply > 0 =>
    /\ \A t \in Token, x \in Amounts \ {0} :
         reserve[t] + x <= MaxUint128 => SwapBackReturns(t, x) <= x
    /\ \A amount \in [Token -> Amounts], t \in Token :
         reserve[t] + amount[t] <= MaxUint128 =>
           ProRata(MintedFor(amount), reserve[t] + amount[t],
                   totalSupply + MintedFor(amount)) <= amount[t]
=============================================================================
