----------------------------- MODULE V2AMMProofs -----------------------------
(***************************************************************************)
(* The safety of the pool, for every set of users, every fee, every width  *)
(* and every amount.  The pool's unchecked 128-bit additions are safe only *)
(* while no token has more than 2^128 - 1 units in circulation, so the     *)
(* theorems about the reserves assume SupplyFits; the run pool_overflow    *)
(* shows what happens without it.                                          *)
(***************************************************************************)
EXTENDS V2AMM, Groundwork

(* A quote of AmountOut, for the widths and the fee of the pools. *)
LEMMA AmountOutBounds ==
  ASSUME NEW r \in 1 .. MaxUint128, NEW s \in 1 .. MaxUint128, NEW x \in 1 .. MaxUint128
  PROVE  /\ AmountOut(r, s, x) \in Nat
         /\ AmountOut(r, s, x) < s
         /\ (r + x) * (s - AmountOut(r, s, x)) >= r * s
<1> USE PoolMathAssumption
<1>1. /\ r * FeeDenom + x * FeeNum <= MaxUint256
      /\ x * FeeNum <= MaxUint256 /\ r * FeeDenom <= MaxUint256
  BY FeeFits
<1>2. /\ x * FeeNum \in Nat /\ r * FeeDenom \in Nat /\ (x * FeeNum) * s \in Nat
      /\ r * FeeDenom + x * FeeNum \in Nat
  OBVIOUS
<1>3. /\ Wrap256(x * FeeNum) = x * FeeNum /\ Wrap256(r * FeeDenom) = r * FeeDenom
      /\ Wrap256(r * FeeDenom + x * FeeNum) = r * FeeDenom + x * FeeNum
  BY <1>1, <1>2, WrapBelow DEF Wrap256
<1>4. PICK num : num = Wrap256((x * FeeNum) * s)
  OBVIOUS
<1>5. num \in Nat /\ num <= (x * FeeNum) * s
  BY <1>2, <1>4, WrapBelow DEF Wrap256
<1>6. AmountOut(r, s, x) = num \div (r * FeeDenom + x * FeeNum)
  BY <1>3, <1>4 DEF AmountOut
<1>7. QED
  BY <1>5, <1>6, PaidBounds

SupplyFits ==
  \A t \in Token : SumFunctionOnSet(InitialBalance[t], Users) <= MaxUint128

(* Calls move tokens between accounts and never create any.                *)
TokensConserved ==
  \A t \in Token :
    SumFunctionOnSet(balance[t], Account) = SumFunctionOnSet(InitialBalance[t], Users)

(* The inductive invariant: a swap or withdrawal keeps the reserves        *)
(* positive because some LP is locked, the share of a burn is smaller than *)
(* the supply because LP balances add up, and no reserve wraps around      *)
(* because the pool holds its reserves and tokens are conserved.           *)
IInv ==
  /\ TypeOK
  /\ PoolIsSolvent
  /\ LpSupplyIsSumOfBalances
  /\ TokensConserved
  /\ PoolNeverDrains

LEMMA AccountIsFinite == IsFiniteSet(Account)
<1>1. IsFiniteSet({Pool, Dead})
  <2>1. {Pool, Dead} = {Pool} \cup {Dead}
    OBVIOUS
  <2>2. IsFiniteSet({Pool}) /\ IsFiniteSet({Pool} \cup {Dead})
    BY FS_Singleton, FS_AddElement
  <2>3. QED
    BY <2>1, <2>2
<1>2. QED
  BY <1>1, AccountAssumption, FS_Union DEF Account

LEMMA AccountFacts ==
  /\ Users \subseteq Account /\ Pool \in Account /\ Dead \in Account
  /\ Pool # Dead
  /\ \A u \in Users : u # Pool /\ u # Dead
BY AccountAssumption DEF Account

(* Two accounts never hold more of a token than fits in a reserve.         *)
LEMMA HoldingsFit ==
  ASSUME SupplyFits, TypeOK, TokensConserved, NEW t \in Token,
         NEW a \in Account, NEW b \in Account, a # b
  PROVE  /\ balance[t][a] + balance[t][b] <= MaxUint128
         /\ balance[t][a] <= MaxUint128
<1>1. balance[t] \in [Account -> Nat]
  BY DEF TypeOK
<1>2. balance[t][a] + balance[t][b] <= SumFunctionOnSet(balance[t], Account)
  BY <1>1, AccountIsFinite, SumBounds
<1>3. SumFunctionOnSet(balance[t], Account) \in Nat
  BY <1>1, AccountIsFinite, SumBounds
<1>4. SumFunctionOnSet(balance[t], Account) <= MaxUint128
  BY DEF TokensConserved, SupplyFits
<1>5. balance[t][a] \in Nat /\ balance[t][b] \in Nat /\ MaxUint128 \in Nat
  BY <1>1, PoolMathAssumption
<1>6. QED
  BY <1>2, <1>3, <1>4, <1>5

(* A user's LP and the locked LP are different parts of the supply.        *)
LEMMA BurnLeavesLockedLp ==
  ASSUME IInv, totalSupply > 0, NEW u \in Users, NEW x \in Nat, Covers(lp, u, x)
  PROVE  /\ x + MinimumLiquidity <= totalSupply
         /\ x < totalSupply
         /\ lp[Dead] >= MinimumLiquidity
         /\ \A t \in Token : reserve[t] \in 1 .. MaxUint128
<1>1. lp[u] + lp[Dead] <= totalSupply
  BY AccountIsFinite, AccountFacts, SumBounds
  DEF IInv, TypeOK, LpSupplyIsSumOfBalances
<1>2. lp[Dead] >= MinimumLiquidity /\ \A t \in Token : reserve[t] > 0
  BY DEF IInv, PoolNeverDrains
<1>3. x <= lp[u]
  BY DEF Covers
<1>4. lp[u] \in Nat /\ lp[Dead] \in Nat /\ totalSupply \in Nat
  BY AccountFacts DEF IInv, TypeOK
<1>5. \A t \in Token : reserve[t] \in 0 .. MaxUint128
  BY DEF IInv, TypeOK
<1>6. QED
  BY <1>1, <1>2, <1>3, <1>4, <1>5, PoolMathAssumption

-----------------------------------------------------------------------------
(* Token movements. *)

LEMMA MovedTokens ==
  ASSUME TypeOK, TokensConserved, NEW t \in Token,
         NEW a \in Account, NEW b \in Account, a # b,
         NEW x \in Nat, Covers(balance[t], a, x)
  PROVE  /\ Transfer(balance[t], a, b, x) \in [Account -> Nat]
         /\ SumFunctionOnSet(Transfer(balance[t], a, b, x), Account)
              = SumFunctionOnSet(InitialBalance[t], Users)
         /\ Transfer(balance[t], a, b, x)[a] = balance[t][a] - x
         /\ Transfer(balance[t], a, b, x)[b] = balance[t][b] + x
<1>1. balance[t] \in [Account -> Nat]
  BY DEF TypeOK
<1>2. QED
  BY <1>1, AccountIsFinite, SumTransfer DEF TokensConserved, Transfer, Credit, Debit

(* What a deposit pulls arrives, is what the ledger says, and still fits.  *)
LEMMA PulledTokens ==
  ASSUME SupplyFits, IInv, NEW u \in Users, NEW amount \in [Token -> Nat],
         CanPay(u, amount), PullBoth(u, amount)
  PROVE  /\ balance' \in [Token -> [Account -> Nat]]
         /\ TokensConserved'
         /\ \A t \in Token : /\ balance'[t][Pool] = balance[t][Pool] + amount[t]
                             /\ balance[t][Pool] + amount[t] <= MaxUint128
<1>1. \A t \in Token : balance'[t] = Transfer(balance[t], u, Pool, amount[t])
  BY DEF PullBoth
<1>2. ASSUME NEW t \in Token
      PROVE  /\ balance'[t] \in [Account -> Nat]
             /\ SumFunctionOnSet(balance'[t], Account)
                  = SumFunctionOnSet(InitialBalance[t], Users)
             /\ balance'[t][Pool] = balance[t][Pool] + amount[t]
             /\ balance[t][Pool] + amount[t] <= MaxUint128
  <2>1. Covers(balance[t], u, amount[t])
    BY DEF CanPay
  <2>2. balance[t][u] + balance[t][Pool] <= MaxUint128
    BY AccountFacts, HoldingsFit DEF IInv
  <2>3. balance[t][Pool] + amount[t] <= MaxUint128
    BY <2>1, <2>2, AccountFacts, PoolMathAssumption DEF Covers, IInv, TypeOK
  <2>4. QED
    BY <1>1, <2>1, <2>3, AccountFacts, MovedTokens DEF IInv
<1>3. balance' \in [Token -> [Account -> Nat]]
  BY <1>2 DEF PullBoth
<1>4. QED
  BY <1>2, <1>3 DEF TokensConserved

(* What a withdrawal sends has left the pool.                              *)
LEMMA SentTokens ==
  ASSUME IInv, NEW u \in Users, NEW amount \in [Token -> Nat],
         \A t \in Token : Covers(balance[t], Pool, amount[t]),
         SendBoth(u, amount)
  PROVE  /\ balance' \in [Token -> [Account -> Nat]]
         /\ TokensConserved'
         /\ \A t \in Token : balance'[t][Pool] = balance[t][Pool] - amount[t]
<1>1. \A t \in Token : balance'[t] = Transfer(balance[t], Pool, u, amount[t])
  BY DEF SendBoth
<1>2. ASSUME NEW t \in Token
      PROVE  /\ balance'[t] \in [Account -> Nat]
             /\ SumFunctionOnSet(balance'[t], Account)
                  = SumFunctionOnSet(InitialBalance[t], Users)
             /\ balance'[t][Pool] = balance[t][Pool] - amount[t]
  BY <1>1, AccountFacts, MovedTokens DEF IInv
<1>3. balance' \in [Token -> [Account -> Nat]]
  BY <1>2 DEF SendBoth
<1>4. QED
  BY <1>2, <1>3 DEF TokensConserved

-----------------------------------------------------------------------------
(* The step of the share value. *)
ShareValueStep ==
  totalSupply > 0 =>
    reserve'[0] * reserve'[1] * totalSupply * totalSupply
      >= reserve[0] * reserve[1] * totalSupply' * totalSupply'

(* It is enough that each reserve's part of a share does not fall.         *)
LEMMA BothSidesKeepValue ==
  ASSUME reserve \in [Token -> Nat], reserve' \in [Token -> Nat],
         totalSupply \in Nat, totalSupply' \in Nat,
         \A t \in Token : reserve[t] * totalSupply' <= reserve'[t] * totalSupply
  PROVE  ShareValueStep
<1>1. ASSUME NEW a \in Nat, NEW b \in Nat, NEW s \in Nat,
             NEW c \in Nat, NEW d \in Nat, NEW q \in Nat,
             a * q <= c * s, b * q <= d * s
      PROVE  c * d * s * s >= a * b * q * q
  <2>1. a * q \in Nat /\ c * s \in Nat /\ b * q \in Nat /\ d * s \in Nat
    OBVIOUS
  <2>2. (a * q) * (b * q) <= (c * s) * (d * s)
    BY <1>1, <2>1, ProductMonotone
  <2>3. (a * q) * (b * q) = a * b * q * q /\ (c * s) * (d * s) = c * d * s * s
    OBVIOUS
  <2>4. QED
    BY <2>2, <2>3
<1>2. QED
  BY <1>1 DEF ShareValueStep, Token

-----------------------------------------------------------------------------
(* One lemma per call. *)

StepIsSafe == IInv' /\ ShareValueStep

LEMMA AddInitialLiquidityIsSafe ==
  ASSUME SupplyFits, IInv, NEW u \in Users, NEW amount \in [Token -> Nat],
         AddInitialLiquidity(u, amount)
  PROVE  StepIsSafe
<1> DEFINE initialLp == Sqrt(amount[0] * amount[1])
<1>1. totalSupply = 0
  BY DEF IInv, PoolNeverDrains, AddInitialLiquidity, Token
<1>2. initialLp \in Nat /\ initialLp > MinimumLiquidity
  <2>1. amount[0] * amount[1] \in Nat
    BY DEF Token
  <2>2. QED
    BY <2>1, SqrtBounds DEF AddInitialLiquidity
<1> HIDE DEF initialLp
<1>3. /\ lp' \in [Account -> Nat]
      /\ SumFunctionOnSet(lp', Account) = totalSupply'
      /\ totalSupply' = initialLp
      /\ lp'[Dead] >= MinimumLiquidity
  <2> DEFINE l1 == Credit(lp, Dead, MinimumLiquidity)
             l2 == Credit(l1, u, initialLp - MinimumLiquidity)
  <2>1. lp' = l2 /\ totalSupply' = totalSupply + initialLp
    BY DEF AddInitialLiquidity, MintInitial, initialLp
  <2>2. lp \in [Account -> Nat] /\ SumFunctionOnSet(lp, Account) = 0
    BY <1>1 DEF IInv, TypeOK, LpSupplyIsSumOfBalances
  <2>3. /\ l1 \in [Account -> Nat]
        /\ SumFunctionOnSet(l1, Account) = MinimumLiquidity
        /\ l1[Dead] >= MinimumLiquidity
    <3>1. l1[Dead] = lp[Dead] + MinimumLiquidity
      BY <2>2, AccountFacts DEF Credit
    <3>2. QED
      BY <2>2, <3>1, AccountIsFinite, AccountFacts, PoolMathAssumption, SumCredit
  <2> HIDE DEF l1
  <2>4. initialLp - MinimumLiquidity \in Nat
    BY <1>2, PoolMathAssumption
  <2>5. /\ l2 \in [Account -> Nat]
        /\ SumFunctionOnSet(l2, Account) = MinimumLiquidity + (initialLp - MinimumLiquidity)
    BY <2>3, <2>4, AccountIsFinite, AccountFacts, SumCredit
  <2>6. l2[Dead] = l1[Dead]
    BY <2>3, AccountFacts DEF Credit
  <2> HIDE DEF l2
  <2>7. QED
    BY <1>1, <1>2, <2>1, <2>3, <2>5, <2>6, PoolMathAssumption
<1>4. /\ balance' \in [Token -> [Account -> Nat]]
      /\ TokensConserved'
      /\ \A t \in Token : balance'[t][Pool] = balance[t][Pool] + amount[t]
  BY PulledTokens DEF AddInitialLiquidity
<1>5. ASSUME NEW t \in Token
      PROVE  reserve'[t] = amount[t] /\ amount[t] \in 1 .. MaxUint128
  <2>1. reserve'[t] = Wrap128(0 + amount[t]) /\ amount[t] \in 1 .. MaxUint128
    BY DEF AddInitialLiquidity, ReservesAfterDeposit
  <2>2. QED
    BY <2>1, PoolMathAssumption, WrapBelow DEF Wrap128
<1>6. reserve' \in [Token -> 0 .. MaxUint128]
  BY <1>5 DEF AddInitialLiquidity, ReservesAfterDeposit
<1>7. TypeOK'
  BY <1>2, <1>3, <1>4, <1>6 DEF TypeOK
<1>8. PoolIsSolvent'
  BY <1>4, <1>5, AccountFacts DEF PoolIsSolvent, IInv, TypeOK
<1>9. PoolNeverDrains'
  BY <1>2, <1>3, <1>5, PoolMathAssumption DEF PoolNeverDrains
<1>10. QED
  BY <1>1, <1>3, <1>4, <1>7, <1>8, <1>9
  DEF IInv, LpSupplyIsSumOfBalances, StepIsSafe, ShareValueStep

LEMMA MintedForBounds ==
  ASSUME NEW amount \in [Token -> Nat], totalSupply \in Nat,
         \A t \in Token : reserve[t] \in Nat \ {0}
  PROVE  /\ MintedFor(amount) \in Nat
         /\ \A t \in Token : MintedFor(amount) * reserve[t] <= amount[t] * totalSupply
<1> DEFINE p(t) == ProRata(amount[t], totalSupply, reserve[t])
<1>1. ASSUME NEW t \in Token
      PROVE  p(t) \in Nat /\ p(t) * reserve[t] <= amount[t] * totalSupply
  BY ProRataBounds
<1> DEFINE m == MintedFor(amount)
<1>2. m \in Nat /\ \A t \in Token : m <= p(t)
  BY <1>1 DEF MintedFor, Lesser, Token
<1> HIDE DEF p, m
<1>3. ASSUME NEW t \in Token PROVE m * reserve[t] <= amount[t] * totalSupply
  <2>1. m * reserve[t] <= p(t) * reserve[t]
    BY <1>1, <1>2, ProductMonotone
  <2>2. m * reserve[t] \in Nat /\ p(t) * reserve[t] \in Nat /\ amount[t] * totalSupply \in Nat
    BY <1>1, <1>2
  <2>3. QED
    BY <1>1, <2>1, <2>2
<1>4. QED
  BY <1>2, <1>3 DEF m

LEMMA AddLiquidityIsSafe ==
  ASSUME SupplyFits, IInv, NEW u \in Users, NEW amount \in [Token -> Nat],
         NEW min, AddLiquidity(u, amount, min)
  PROVE  StepIsSafe
<1> DEFINE minted == MintedFor(amount)
<1>1. /\ \A t \in Token : reserve[t] \in 1 .. MaxUint128
      /\ totalSupply \in Nat /\ totalSupply >= MinimumLiquidity
      /\ lp[Dead] >= MinimumLiquidity
  <2>1. \A t \in Token : reserve[t] > 0 /\ reserve[t] \in 0 .. MaxUint128
    BY DEF AddLiquidity, IInv, TypeOK
  <2>2. 0 \in Token
    BY DEF Token
  <2>3. QED
    BY <2>1, <2>2, PoolMathAssumption DEF IInv, TypeOK, PoolNeverDrains
<1>2. /\ minted \in Nat
      /\ \A t \in Token : minted * reserve[t] <= amount[t] * totalSupply
  BY <1>1, MintedForBounds
<1>3. lp' = Credit(lp, u, minted) /\ totalSupply' = totalSupply + minted
  BY DEF AddLiquidity
<1> HIDE DEF minted
<1>4. /\ lp' \in [Account -> Nat]
      /\ SumFunctionOnSet(lp', Account) = totalSupply'
      /\ lp'[Dead] = lp[Dead]
  <2>1. lp \in [Account -> Nat] /\ SumFunctionOnSet(lp, Account) = totalSupply
    BY DEF IInv, TypeOK, LpSupplyIsSumOfBalances
  <2>2. Credit(lp, u, minted)[Dead] = lp[Dead]
    BY <2>1, AccountFacts DEF Credit
  <2>3. QED
    BY <1>2, <1>3, <2>1, <2>2, AccountIsFinite, AccountFacts, SumCredit
<1>5. /\ balance' \in [Token -> [Account -> Nat]]
      /\ TokensConserved'
      /\ \A t \in Token : /\ balance'[t][Pool] = balance[t][Pool] + amount[t]
                          /\ balance[t][Pool] + amount[t] <= MaxUint128
  BY PulledTokens DEF AddLiquidity
<1>6. ASSUME NEW t \in Token
      PROVE  /\ reserve'[t] = reserve[t] + amount[t]
             /\ reserve'[t] \in 1 .. MaxUint128
             /\ reserve'[t] <= balance'[t][Pool]
  <2>1. reserve'[t] = Wrap128(reserve[t] + amount[t])
    BY DEF AddLiquidity, ReservesAfterDeposit
  <2>2. reserve[t] <= balance[t][Pool] /\ balance[t][Pool] \in Nat
    BY AccountFacts DEF IInv, TypeOK, PoolIsSolvent
  <2>3. reserve[t] + amount[t] <= MaxUint128
    BY <1>1, <1>5, <2>2, PoolMathAssumption
  <2>4. reserve'[t] = reserve[t] + amount[t]
    BY <1>1, <2>1, <2>3, PoolMathAssumption, WrapBelow DEF Wrap128
  <2>5. QED
    BY <1>1, <1>5, <2>2, <2>3, <2>4, PoolMathAssumption
<1>7. reserve' \in [Token -> 0 .. MaxUint128]
  BY <1>6 DEF AddLiquidity, ReservesAfterDeposit
<1>8. TypeOK' /\ PoolIsSolvent'
  BY <1>1, <1>2, <1>3, <1>4, <1>5, <1>6, <1>7 DEF TypeOK, PoolIsSolvent
<1>9. PoolNeverDrains'
  BY <1>1, <1>2, <1>3, <1>4, <1>6, PoolMathAssumption DEF PoolNeverDrains
<1>10. ShareValueStep
  <2>1. ASSUME NEW t \in Token
        PROVE  reserve[t] * totalSupply' <= reserve'[t] * totalSupply
    <3>1. /\ reserve[t] * totalSupply' = reserve[t] * totalSupply + minted * reserve[t]
          /\ reserve'[t] * totalSupply = reserve[t] * totalSupply + amount[t] * totalSupply
      BY <1>1, <1>2, <1>3, <1>6
    <3>2. /\ reserve[t] * totalSupply \in Nat /\ minted * reserve[t] \in Nat
          /\ amount[t] * totalSupply \in Nat
      BY <1>1, <1>2
    <3>3. QED
      BY <1>2, <3>1, <3>2
  <2>2. reserve \in [Token -> Nat] /\ reserve' \in [Token -> Nat]
    BY <1>7 DEF IInv, TypeOK
  <2>3. totalSupply' \in Nat
    BY <1>1, <1>2, <1>3
  <2>4. QED
    BY <1>1, <2>1, <2>2, <2>3, BothSidesKeepValue
<1>11. QED
  BY <1>4, <1>5, <1>8, <1>9, <1>10 DEF IInv, LpSupplyIsSumOfBalances, StepIsSafe

LEMMA RemoveLiquidityIsSafe ==
  ASSUME SupplyFits, IInv, NEW u \in Users, NEW x \in Nat, NEW min,
         RemoveLiquidity(u, x, min)
  PROVE  StepIsSafe
<1> DEFINE out == Redeemed(x)
<1>1. /\ totalSupply \in Nat \ {0} /\ x < totalSupply
      /\ x + MinimumLiquidity <= totalSupply
      /\ lp[Dead] >= MinimumLiquidity
      /\ \A t \in Token : reserve[t] \in 1 .. MaxUint128
  BY BurnLeavesLockedLp DEF RemoveLiquidity, MayRemove, IInv, TypeOK
<1>2. ASSUME NEW t \in Token
      PROVE  /\ out[t] \in Nat /\ out[t] < reserve[t]
             /\ out[t] * totalSupply <= x * reserve[t]
  <2>1. reserve[t] \in Nat /\ reserve[t] > 0
    BY <1>1, PoolMathAssumption
  <2>2. out[t] = ProRata(x, reserve[t], totalSupply)
    BY DEF Redeemed
  <2> DEFINE part == ProRata(x, reserve[t], totalSupply)
  <2>3. /\ part \in Nat /\ part < reserve[t]
        /\ part * totalSupply <= x * reserve[t]
    BY <1>1, <2>1, ProRataBounds
  <2> HIDE DEF out
  <2>4. QED
    BY <2>2, <2>3
<1>3. out \in [Token -> Nat]
  BY <1>2 DEF Redeemed
<1>4. /\ lp' = Debit(lp, u, x) /\ totalSupply' = totalSupply - x
      /\ Covers(lp, u, x)
      /\ reserve' = ReservesAfterWithdrawal(out)
      /\ \A t \in Token : Covers(balance[t], Pool, out[t])
      /\ SendBoth(u, out)
  BY DEF RemoveLiquidity, MayRemove
<1> HIDE DEF out
<1>5. /\ lp' \in [Account -> Nat]
      /\ SumFunctionOnSet(lp', Account) = totalSupply'
      /\ lp'[Dead] = lp[Dead]
  <2>1. lp \in [Account -> Nat] /\ SumFunctionOnSet(lp, Account) = totalSupply
    BY DEF IInv, TypeOK, LpSupplyIsSumOfBalances
  <2>2. Debit(lp, u, x)[Dead] = lp[Dead]
    BY <2>1, AccountFacts DEF Debit
  <2>3. QED
    BY <1>4, <2>1, <2>2, AccountIsFinite, AccountFacts, SumDebit
<1>6. /\ balance' \in [Token -> [Account -> Nat]]
      /\ TokensConserved'
      /\ \A t \in Token : balance'[t][Pool] = balance[t][Pool] - out[t]
  BY <1>3, <1>4, SentTokens
<1>7. ASSUME NEW t \in Token
      PROVE  /\ reserve'[t] = reserve[t] - out[t]
             /\ reserve'[t] \in 1 .. MaxUint128
             /\ reserve'[t] <= balance'[t][Pool]
  <2>1. reserve'[t] = Wrap128(reserve[t] - out[t])
    BY <1>4 DEF ReservesAfterWithdrawal
  <2>2. reserve[t] - out[t] \in 1 .. MaxUint128
    BY <1>1, <1>2, PoolMathAssumption
  <2>3. reserve'[t] = reserve[t] - out[t]
    BY <2>1, <2>2, PoolMathAssumption, WrapBelow DEF Wrap128
  <2>4. reserve[t] <= balance[t][Pool] /\ balance[t][Pool] \in Nat
    BY AccountFacts DEF IInv, TypeOK, PoolIsSolvent
  <2>5. QED
    BY <1>1, <1>2, <1>6, <2>2, <2>3, <2>4
<1>8. reserve' \in [Token -> 0 .. MaxUint128]
  BY <1>4, <1>7 DEF ReservesAfterWithdrawal
<1>9. totalSupply' \in Nat /\ totalSupply' >= MinimumLiquidity
  BY <1>1, <1>4, PoolMathAssumption
<1>10. TypeOK' /\ PoolIsSolvent' /\ PoolNeverDrains'
  BY <1>1, <1>5, <1>6, <1>7, <1>8, <1>9
  DEF TypeOK, PoolIsSolvent, PoolNeverDrains
<1>11. ShareValueStep
  <2>1. ASSUME NEW t \in Token
        PROVE  reserve[t] * totalSupply' <= reserve'[t] * totalSupply
    <3>1. /\ reserve[t] * totalSupply' = reserve[t] * totalSupply - x * reserve[t]
          /\ reserve'[t] * totalSupply = reserve[t] * totalSupply - out[t] * totalSupply
      BY <1>1, <1>2, <1>4, <1>7
    <3>2. /\ reserve[t] * totalSupply \in Nat /\ x * reserve[t] \in Nat
          /\ out[t] * totalSupply \in Nat
      BY <1>1, <1>2
    <3>3. QED
      BY <1>2, <3>1, <3>2
  <2>2. reserve \in [Token -> Nat] /\ reserve' \in [Token -> Nat]
    BY <1>8 DEF IInv, TypeOK
  <2>3. QED
    BY <1>1, <1>9, <2>1, <2>2, BothSidesKeepValue
<1>12. QED
  BY <1>5, <1>6, <1>10, <1>11 DEF IInv, LpSupplyIsSumOfBalances, StepIsSafe

LEMMA SwapIsSafe ==
  ASSUME SupplyFits, IInv, NEW u \in Users, NEW i \in Token, NEW x \in Nat,
         NEW min, Swap(u, i, x, min)
  PROVE  StepIsSafe
<1> DEFINE o == Other(i)
           out == AmountOut(reserve[i], reserve[o], x)
<1>1. o \in Token /\ o # i /\ Token = {i, o}
  BY DEF Other, Token
<1>2. /\ x \in 1 .. MaxUint128
      /\ reserve[i] \in 1 .. MaxUint128 /\ reserve[o] \in 1 .. MaxUint128
  BY <1>1, PoolMathAssumption DEF Swap, IInv, TypeOK
<1>3. /\ out \in Nat /\ out < reserve[o]
      /\ (reserve[i] + x) * (reserve[o] - out) >= reserve[i] * reserve[o]
  BY <1>2, AmountOutBounds
<1>4. /\ Covers(balance[i], u, x) /\ Covers(balance[o], Pool, out)
      /\ balance' = [balance EXCEPT ![i] = Transfer(@, u, Pool, x),
                                    ![o] = Transfer(@, Pool, u, out)]
      /\ reserve' = ReservesAfterSwap(i, x, out)
      /\ lp' = lp /\ totalSupply' = totalSupply
  BY DEF Swap
<1> HIDE DEF out
<1>5. balance \in [Token -> [Account -> Nat]] /\ reserve \in [Token -> 0 .. MaxUint128]
  BY DEF IInv, TypeOK
<1>6. /\ balance'[i] = Transfer(balance[i], u, Pool, x)
      /\ balance'[o] = Transfer(balance[o], Pool, u, out)
  <2> HIDE DEF o
  <2>1. QED
    BY <1>1, <1>4, <1>5
<1>7. /\ balance'[i] \in [Account -> Nat]
      /\ SumFunctionOnSet(balance'[i], Account) = SumFunctionOnSet(InitialBalance[i], Users)
      /\ balance'[i][Pool] = balance[i][Pool] + x
  <2>1. TypeOK /\ TokensConserved /\ u \in Account /\ Pool \in Account /\ u # Pool
    BY AccountFacts DEF IInv
  <2>2. Covers(balance[i], u, x)
    BY <1>4
  <2> HIDE DEF o
  <2>3. QED
    BY ONLY <1>6, <2>1, <2>2, MovedTokens, i \in Token, x \in Nat
<1>8. /\ balance'[o] \in [Account -> Nat]
      /\ SumFunctionOnSet(balance'[o], Account) = SumFunctionOnSet(InitialBalance[o], Users)
      /\ balance'[o][Pool] = balance[o][Pool] - out
  <2>1. TypeOK /\ TokensConserved /\ u \in Account /\ Pool \in Account /\ u # Pool
    BY AccountFacts DEF IInv
  <2>2. Covers(balance[o], Pool, out) /\ out \in Nat /\ o \in Token
    BY <1>1, <1>3, <1>4
  <2> HIDE DEF o
  <2> DEFINE moved == Transfer(balance[o], Pool, u, out)
  <2>3. /\ moved \in [Account -> Nat]
        /\ SumFunctionOnSet(moved, Account) = SumFunctionOnSet(InitialBalance[o], Users)
        /\ moved[Pool] = balance[o][Pool] - out
    BY <2>1, <2>2, MovedTokens
  <2> HIDE DEF moved
  <2>4. QED
    BY <1>6, <2>3 DEF moved
<1> HIDE DEF o
<1>9. balance' \in [Token -> [Account -> Nat]] /\ TokensConserved'
  BY <1>1, <1>4, <1>5, <1>7, <1>8 DEF TokensConserved
<1>10. /\ reserve'[i] = Wrap128(reserve[i] + x)
       /\ reserve'[o] = Wrap128(reserve[o] - out)
  BY <1>1, <1>4, <1>5 DEF ReservesAfterSwap, o
<1>11. reserve[i] + x \in 1 .. MaxUint128 /\ reserve[i] + x <= balance'[i][Pool]
  <2>1. balance[i][u] + balance[i][Pool] <= MaxUint128
    BY AccountFacts, HoldingsFit DEF IInv
  <2>2. reserve[i] <= balance[i][Pool] /\ x <= balance[i][u]
    BY <1>4 DEF IInv, PoolIsSolvent, Covers
  <2>3. balance[i][Pool] \in Nat /\ balance[i][u] \in Nat
    BY <1>5, AccountFacts
  <2>4. QED
    BY <1>2, <1>7, <2>1, <2>2, <2>3, PoolMathAssumption
<1>12. reserve[o] - out \in 1 .. MaxUint128 /\ reserve[o] - out <= balance'[o][Pool]
  <2>1. reserve[o] <= balance[o][Pool] /\ balance[o][Pool] \in Nat
    BY <1>1, <1>5, AccountFacts DEF IInv, PoolIsSolvent
  <2>2. QED
    BY <1>2, <1>3, <1>8, <2>1, PoolMathAssumption
<1>13. reserve'[i] = reserve[i] + x /\ reserve'[o] = reserve[o] - out
  BY <1>10, <1>11, <1>12, PoolMathAssumption, WrapBelow DEF Wrap128
<1>14. \A t \in Token : /\ reserve'[t] \in 1 .. MaxUint128
                        /\ reserve'[t] <= balance'[t][Pool]
  BY <1>1, <1>11, <1>12, <1>13
<1>15. reserve' \in [Token -> 0 .. MaxUint128]
  <2>1. \A t \in Token : reserve'[t] \in 0 .. MaxUint128
    BY <1>14
  <2> DEFINE a == Wrap128(reserve[i] + x)
             b == Wrap128(reserve[Other(i)] - out)
  <2>2. reserve' = [[reserve EXCEPT ![i] = a] EXCEPT ![Other(i)] = b]
    BY <1>4 DEF ReservesAfterSwap
  <2> HIDE DEF a, b
  <2>3. QED
    BY <1>5, <2>1, <2>2
<1>16. TypeOK' /\ PoolIsSolvent'
  BY <1>4, <1>9, <1>14, <1>15 DEF TypeOK, PoolIsSolvent, IInv
<1>17. PoolNeverDrains'
  <2>1. \A t \in Token : reserve'[t] > 0
    BY <1>14, PoolMathAssumption
  <2>2. reserve[i] > 0
    BY <1>2
  <2>3. QED
    BY <1>1, <1>4, <2>1, <2>2 DEF PoolNeverDrains, IInv
<1>18. ShareValueStep
  <2> DEFINE k == reserve[0] * reserve[1]
             l == reserve'[0] * reserve'[1]
  <2>1. k \in Nat /\ l \in Nat /\ totalSupply \in Nat
    BY <1>5, <1>15, PoolMathAssumption DEF IInv, TypeOK, Token
  <2>2. k <= l
    <3>1. k = reserve[i] * reserve[o] /\ l = reserve'[i] * reserve'[o]
      <4>1. CASE i = 0 /\ o = 1
        BY <4>1
      <4>2. CASE i = 1 /\ o = 0
        <5>1. \A a, b \in Nat : a * b = b * a
          OBVIOUS
        <5>2. \A t \in Token : reserve[t] \in Nat /\ reserve'[t] \in Nat
          BY <1>5, <1>15
        <5>3. QED
          BY <4>2, <5>1, <5>2 DEF Token
      <4>3. QED
        BY <4>1, <4>2 DEF Token, o, Other
    <3>2. QED
      BY <1>3, <1>13, <2>1, <3>1
  <2> HIDE DEF k, l
  <2>3. k * (totalSupply * totalSupply) <= l * (totalSupply * totalSupply)
    BY <2>1, <2>2, ProductMonotone
  <2>4. /\ k * (totalSupply * totalSupply) = k * totalSupply * totalSupply
        /\ l * (totalSupply * totalSupply) = l * totalSupply * totalSupply
    BY <2>1
  <2>5. k * totalSupply * totalSupply \in Nat /\ l * totalSupply * totalSupply \in Nat
    BY <2>1
  <2>6. l * totalSupply * totalSupply >= k * totalSupply * totalSupply
    BY <2>3, <2>4, <2>5
  <2>7. QED
    BY <1>4, <2>6 DEF ShareValueStep, k, l
<1>19. QED
  BY <1>4, <1>9, <1>16, <1>17, <1>18
  DEF IInv, LpSupplyIsSumOfBalances, StepIsSafe

LEMMA DonateIsSafe ==
  ASSUME IInv, NEW u \in Users, NEW t \in Token, NEW x \in Nat, Donate(u, t, x)
  PROVE  StepIsSafe
<1>1. /\ balance' = [balance EXCEPT ![t] = Transfer(@, u, Pool, x)]
      /\ Covers(balance[t], u, x)
      /\ reserve' = reserve /\ lp' = lp /\ totalSupply' = totalSupply
  BY DEF Donate
<1> DEFINE moved == Transfer(balance[t], u, Pool, x)
<1>2. /\ moved \in [Account -> Nat]
      /\ SumFunctionOnSet(moved, Account) = SumFunctionOnSet(InitialBalance[t], Users)
      /\ moved[Pool] = balance[t][Pool] + x
  BY <1>1, AccountFacts, MovedTokens DEF IInv
<1>3. balance \in [Token -> [Account -> Nat]] /\ reserve \in [Token -> 0 .. MaxUint128]
  BY DEF IInv, TypeOK
<1>4. balance' = [balance EXCEPT ![t] = moved]
  BY <1>1
<1> HIDE DEF moved
<1>5. TypeOK' /\ TokensConserved'
  BY <1>1, <1>2, <1>3, <1>4 DEF IInv, TypeOK, TokensConserved
<1>6. PoolIsSolvent'
  <2>1. ASSUME NEW s \in Token PROVE balance[s][Pool] <= balance'[s][Pool]
    <3>1. balance[s][Pool] \in Nat
      BY <1>3, AccountFacts
    <3>2. balance'[s][Pool] \in {balance[s][Pool], balance[s][Pool] + x}
      BY <1>2, <1>3, <1>4
    <3>3. QED
      BY <3>1, <3>2
  <2>2. ASSUME NEW s \in Token
        PROVE  /\ reserve[s] \in Nat /\ balance[s][Pool] \in Nat
               /\ balance'[s][Pool] \in Nat /\ reserve[s] <= balance[s][Pool]
    BY <1>3, <1>5, AccountFacts, PoolMathAssumption DEF IInv, PoolIsSolvent, TypeOK
  <2>3. QED
    BY <1>1, <2>1, <2>2 DEF PoolIsSolvent
<1>7. PoolNeverDrains' /\ LpSupplyIsSumOfBalances'
  BY <1>1 DEF IInv, PoolNeverDrains, LpSupplyIsSumOfBalances
<1>8. ShareValueStep
  <2>1. \A t_1 \in Token : reserve[t_1] * totalSupply \in Nat
    BY <1>3, PoolMathAssumption DEF IInv, TypeOK
  <2>2. QED
    BY <1>1, <1>3, <2>1, BothSidesKeepValue, PoolMathAssumption DEF IInv, TypeOK
<1>9. QED
  BY <1>5, <1>6, <1>7, <1>8 DEF IInv, StepIsSafe

LEMMA TransferLpIsSafe ==
  ASSUME IInv, NEW u \in Users, NEW to \in Account, NEW x \in Nat,
         TransferLp(u, to, x)
  PROVE  StepIsSafe
<1>1. /\ lp' = Transfer(lp, u, to, x) /\ Covers(lp, u, x)
      /\ reserve' = reserve /\ balance' = balance /\ totalSupply' = totalSupply
  BY DEF TransferLp
<1>2. lp \in [Account -> Nat] /\ reserve \in [Token -> 0 .. MaxUint128]
  BY DEF IInv, TypeOK
<1>3. /\ lp' \in [Account -> Nat]
      /\ SumFunctionOnSet(lp', Account) = SumFunctionOnSet(lp, Account)
  BY <1>1, <1>2, AccountFacts, AccountIsFinite, SumTransfer
<1>4. lp'[Dead] >= lp[Dead]
  BY <1>1, <1>2, AccountFacts DEF Transfer, Credit, Debit
<1>5. TypeOK' /\ PoolIsSolvent' /\ TokensConserved' /\ LpSupplyIsSumOfBalances'
  BY <1>1, <1>3
  DEF IInv, TypeOK, PoolIsSolvent, TokensConserved, LpSupplyIsSumOfBalances
<1>6. PoolNeverDrains'
  <2>1. lp[Dead] \in Nat /\ lp'[Dead] \in Nat
    BY <1>2, <1>3, AccountFacts
  <2>2. QED
    BY <1>1, <1>4, <2>1, PoolMathAssumption DEF IInv, PoolNeverDrains
<1>7. ShareValueStep
  <2>1. \A t \in Token : reserve[t] * totalSupply \in Nat
    BY <1>2, PoolMathAssumption DEF IInv, TypeOK
  <2>2. QED
    BY <1>1, <1>2, <2>1, BothSidesKeepValue, PoolMathAssumption DEF IInv, TypeOK
<1>8. QED
  BY <1>5, <1>6, <1>7 DEF IInv, StepIsSafe

-----------------------------------------------------------------------------
LEMMA InitIsSafe == Init => IInv
<1> SUFFICES ASSUME Init PROVE IInv
  OBVIOUS
<1>1. TypeOK
  BY AccountAssumption, PoolMathAssumption DEF Init, TypeOK
<1>2. \A t \in Token : reserve[t] = 0 /\ balance[t][Pool] = 0 /\ balance[t][Dead] = 0
  BY AccountFacts DEF Init
<1>3. TokensConserved
  <2>1. SUFFICES ASSUME NEW t \in Token
                 PROVE  SumFunctionOnSet(balance[t], Account)
                          = SumFunctionOnSet(InitialBalance[t], Users)
    BY DEF TokensConserved
  <2>2. \A a \in Account : balance[t][a] \in Int
    BY <1>1 DEF TypeOK
  <2>3. SumFunctionOnSet(balance[t], Account)
          = 0 + SumFunctionOnSet(balance[t], Account \ {Pool})
    BY <1>2, <2>2, AccountFacts, AccountIsFinite, SumRemove
  <2>4. SumFunctionOnSet(balance[t], Account \ {Pool})
          = 0 + SumFunctionOnSet(balance[t], (Account \ {Pool}) \ {Dead})
    <3>1. IsFiniteSet(Account \ {Pool}) /\ Dead \in Account \ {Pool}
      BY AccountIsFinite, AccountFacts, FS_Subset
    <3>2. QED
      BY <1>2, <2>2, <3>1, SumRemove
  <2>5. (Account \ {Pool}) \ {Dead} = Users
    BY AccountAssumption DEF Account
  <2>6. \A u \in Users : balance[t][u] = InitialBalance[t][u]
    BY AccountFacts DEF Init
  <2>7. SumFunctionOnSet(balance[t], Users) = SumFunctionOnSet(InitialBalance[t], Users)
    BY <2>6, AccountAssumption, SumCongruence
  <2>8. SumFunctionOnSet(balance[t], Users) \in Int
    BY <2>2, AccountFacts, AccountAssumption, SumType
  <2>9. QED
    BY <2>3, <2>4, <2>5, <2>7, <2>8
<1>4. LpSupplyIsSumOfBalances
  BY AccountIsFinite, SumZero DEF Init, LpSupplyIsSumOfBalances
<1>5. PoolIsSolvent /\ PoolNeverDrains
  BY <1>2 DEF Init, PoolIsSolvent, PoolNeverDrains
<1>6. QED
  BY <1>1, <1>3, <1>4, <1>5 DEF IInv

LEMMA NextIsSafe ==
  ASSUME SupplyFits, IInv, [Next]_vars PROVE StepIsSafe
<1>1. CASE UNCHANGED vars
  <2>1. IInv'
    BY <1>1 DEF vars, IInv, TypeOK, PoolIsSolvent, LpSupplyIsSumOfBalances,
                TokensConserved, PoolNeverDrains
  <2>2. \A t \in Token : reserve[t] * totalSupply \in Nat /\ reserve[t] \in Nat
    BY PoolMathAssumption DEF IInv, TypeOK
  <2>3. QED
    BY <1>1, <2>1, <2>2, BothSidesKeepValue, PoolMathAssumption
    DEF vars, StepIsSafe, IInv, TypeOK
<1>2. CASE Next
  <2>1. PICK u \in Users :
          \/ \E amount \in [Token -> Amounts] :
               \/ AddInitialLiquidity(u, amount)
               \/ \E min \in [Token -> Minimums] : AddLiquidity(u, amount, min)
          \/ \E x \in Amounts, min \in [Token -> Minimums] : RemoveLiquidity(u, x, min)
          \/ \E t \in Token, x \in Amounts, min \in Minimums : Swap(u, t, x, min)
          \/ \E t \in Token, x \in Amounts : Donate(u, t, x)
          \/ \E to \in Account, x \in Amounts : TransferLp(u, to, x)
    BY <1>2 DEF Next
  <2>2. /\ \A amount \in [Token -> Amounts] : amount \in [Token -> Nat]
        /\ \A x \in Amounts : x \in Nat
    BY AccountAssumption
  <2>3. CASE \E amount \in [Token -> Amounts] : AddInitialLiquidity(u, amount)
    BY <2>2, <2>3, AddInitialLiquidityIsSafe
  <2>4. CASE \E amount \in [Token -> Amounts] :
               \E min \in [Token -> Minimums] : AddLiquidity(u, amount, min)
    BY <2>2, <2>4, AddLiquidityIsSafe
  <2>5. CASE \E x \in Amounts, min \in [Token -> Minimums] : RemoveLiquidity(u, x, min)
    BY <2>2, <2>5, RemoveLiquidityIsSafe
  <2>6. CASE \E t \in Token, x \in Amounts, min \in Minimums : Swap(u, t, x, min)
    BY <2>2, <2>6, SwapIsSafe
  <2>7. CASE \E t \in Token, x \in Amounts : Donate(u, t, x)
    BY <2>2, <2>7, DonateIsSafe
  <2>8. CASE \E to \in Account, x \in Amounts : TransferLp(u, to, x)
    BY <2>2, <2>8, TransferLpIsSafe
  <2>9. QED
    BY <2>1, <2>3, <2>4, <2>5, <2>6, <2>7, <2>8
<1>3. QED
  BY <1>1, <1>2

LEMMA InvariantHolds == ASSUME SupplyFits PROVE Spec => []IInv
<1>1. IInv /\ [Next]_vars => IInv'
  BY NextIsSafe DEF StepIsSafe
<1>2. QED
  BY <1>1, InitIsSafe, PTL DEF Spec

(* The reserves stay 128-bit values and no balance ever goes below zero.   *)
THEOREM TypeCorrect == ASSUME SupplyFits PROVE Spec => []TypeOK
<1>1. IInv => TypeOK
  BY DEF IInv
<1>2. QED
  BY <1>1, InvariantHolds, PTL

(* removeLiquidity and swap never promise more than the pool owns.         *)
THEOREM PoolSolvent == ASSUME SupplyFits PROVE Spec => []PoolIsSolvent
<1>1. IInv => PoolIsSolvent
  BY DEF IInv
<1>2. QED
  BY <1>1, InvariantHolds, PTL

(* totalSupply, which addLiquidity and removeLiquidity divide by, is the   *)
(* sum of all LP balances.                                                 *)
THEOREM LpSupplyExact ==
  ASSUME SupplyFits PROVE Spec => []LpSupplyIsSumOfBalances
<1>1. IInv => LpSupplyIsSumOfBalances
  BY DEF IInv
<1>2. QED
  BY <1>1, InvariantHolds, PTL

(* Once addLiquidity has opened the pool, no sequence of calls empties a   *)
(* reserve or frees the LP minted to DEAD.                                 *)
THEOREM PoolStaysOpen == ASSUME SupplyFits PROVE Spec => []PoolNeverDrains
<1>1. IInv => PoolNeverDrains
  BY DEF IInv
<1>2. QED
  BY <1>1, InvariantHolds, PTL

(* No call of anybody lowers reserve0 * reserve1 / totalSupply^2: the      *)
(* roundings of addLiquidity, removeLiquidity and swap all favour the      *)
(* providers that stay.                                                    *)
THEOREM ShareValueMonotone ==
  ASSUME SupplyFits PROVE Spec => ShareValueNeverFalls
<1>1. IInv /\ [Next]_vars => [ShareValueStep]_vars
  BY NextIsSafe DEF StepIsSafe
<1>2. ShareValueNeverFalls <=> [][ShareValueStep]_vars
  BY PTL DEF ShareValueNeverFalls, ShareValueStep
<1>3. QED
  BY <1>1, <1>2, InvariantHolds, PTL DEF Spec

-----------------------------------------------------------------------------
(* Every provider can leave. The supply is never more than what the first  *)
(* deposit would mint for the reserves, so LP times a reserve is at most a *)
(* product of two reserves, which is what the checked arithmetic of        *)
(* removeLiquidity has room for.                                           *)
SupplyWithinReserves == totalSupply * totalSupply <= reserve[0] * reserve[1]

LEMMA ProductType == ASSUME NEW a \in Nat, NEW b \in Nat PROVE a * b \in Nat
OBVIOUS

LEMMA RatioCarries ==
  ASSUME NEW p \in Nat, NEW q \in Nat, NEW s \in Nat \ {0}, NEW r \in Nat,
         p * s >= q * r, q >= s
  PROVE  p >= r
<1>1. SUFFICES ASSUME p < r PROVE FALSE
  OBVIOUS
<1>2. s * r <= q * r
  BY ProductMonotone
<1>3. s * (p + 1) <= s * r
  BY <1>1, ProductMonotone
<1>4. s * (p + 1) = p * s + s
  OBVIOUS
<1>5. p * s \in Nat /\ q * r \in Nat /\ s * r \in Nat
  OBVIOUS
<1>6. QED
  BY <1>2, <1>3, <1>4, <1>5

(* Only the first deposit gives a pool without LP some. *)
LEMMA FirstSupply ==
  ASSUME SupplyFits, IInv, totalSupply = 0, [Next]_vars
  PROVE  SupplyWithinReserves'
<1>1. \A t \in Token : reserve[t] = 0
  BY PoolMathAssumption DEF IInv, PoolNeverDrains
<1>2. ASSUME totalSupply' = 0 PROVE SupplyWithinReserves'
  <2>1. reserve'[0] \in Nat /\ reserve'[1] \in Nat
    BY NextIsSafe DEF StepIsSafe, IInv, TypeOK, Token
  <2>2. reserve'[0] * reserve'[1] \in Nat
    BY <2>1
  <2>3. QED
    BY <1>2, <2>2 DEF SupplyWithinReserves
<1>3. CASE UNCHANGED vars
  BY <1>2, <1>3 DEF vars
<1>4. ASSUME NEW u \in Users, NEW amount \in [Token -> Nat], AddInitialLiquidity(u, amount)
      PROVE  SupplyWithinReserves'
  <2>1. /\ amount[0] \in 1 .. MaxUint128 /\ amount[1] \in 1 .. MaxUint128
        /\ reserve'[0] = Wrap128(0 + amount[0]) /\ reserve'[1] = Wrap128(0 + amount[1])
        /\ totalSupply' = 0 + Sqrt(amount[0] * amount[1])
    BY <1>1, <1>4 DEF AddInitialLiquidity, ReservesAfterDeposit, Token
  <2>2. reserve'[0] = amount[0] /\ reserve'[1] = amount[1]
    BY <2>1, PoolMathAssumption, WrapBelow DEF Wrap128
  <2>3. amount[0] * amount[1] \in Nat
    BY <2>1, PoolMathAssumption
  <2>4. /\ Sqrt(amount[0] * amount[1]) \in Nat
        /\ Sqrt(amount[0] * amount[1]) * Sqrt(amount[0] * amount[1]) <= amount[0] * amount[1]
    BY <2>3, SqrtBounds
  <2>5. QED
    BY <2>1, <2>2, <2>4 DEF SupplyWithinReserves
<1>5. CASE Next
  <2>1. PICK u \in Users :
          \/ \E amount \in [Token -> Amounts] :
               \/ AddInitialLiquidity(u, amount)
               \/ \E min \in [Token -> Minimums] : AddLiquidity(u, amount, min)
          \/ \E x \in Amounts, min \in [Token -> Minimums] : RemoveLiquidity(u, x, min)
          \/ \E t \in Token, x \in Amounts, min \in Minimums : Swap(u, t, x, min)
          \/ \E t \in Token, x \in Amounts : Donate(u, t, x)
          \/ \E to \in Account, x \in Amounts : TransferLp(u, to, x)
    BY <1>5 DEF Next
  <2>2. \A amount \in [Token -> Amounts] : amount \in [Token -> Nat]
    BY AccountAssumption
  <2>3. CASE \E amount \in [Token -> Amounts] : AddInitialLiquidity(u, amount)
    BY <1>4, <2>2, <2>3
  <2>4. ASSUME NEW amount, NEW min, AddLiquidity(u, amount, min) PROVE FALSE
    BY <1>1, <2>4 DEF AddLiquidity, Token
  <2>5. ASSUME NEW x, NEW min, RemoveLiquidity(u, x, min) PROVE FALSE
    BY <2>5 DEF RemoveLiquidity, MayRemove
  <2>6. ASSUME NEW t \in Token, NEW x, NEW min, Swap(u, t, x, min) PROVE FALSE
    BY <1>1, <2>6 DEF Swap
  <2>7. CASE \/ \E t \in Token, x \in Amounts : Donate(u, t, x)
             \/ \E to \in Account, x \in Amounts : TransferLp(u, to, x)
    BY <1>2, <2>7 DEF Donate, TransferLp
  <2>8. QED
    BY <2>1, <2>3, <2>4, <2>5, <2>6, <2>7
<1>6. QED
  BY <1>3, <1>5

LEMMA SupplyStaysWithin ==
  ASSUME SupplyFits, IInv, SupplyWithinReserves, [Next]_vars PROVE SupplyWithinReserves'
<1>1. /\ reserve[0] \in Nat /\ reserve[1] \in Nat /\ totalSupply \in Nat
      /\ reserve'[0] \in Nat /\ reserve'[1] \in Nat /\ totalSupply' \in Nat
  BY NextIsSafe DEF StepIsSafe, IInv, TypeOK, Token
<1>2. CASE totalSupply = 0
  BY <1>2, FirstSupply
<1>3. CASE totalSupply > 0
  <2> DEFINE p == reserve'[0] * reserve'[1]  q == reserve[0] * reserve[1]
             s == totalSupply * totalSupply  r == totalSupply' * totalSupply'
  <2>1. reserve'[0] * reserve'[1] * totalSupply * totalSupply
          >= reserve[0] * reserve[1] * totalSupply' * totalSupply'
    BY <1>3, NextIsSafe DEF StepIsSafe, ShareValueStep
  <2>2. /\ reserve'[0] * reserve'[1] * totalSupply * totalSupply = p * s
        /\ reserve[0] * reserve[1] * totalSupply' * totalSupply' = q * r
    BY <1>1
  <2>3. p \in Nat /\ q \in Nat /\ s \in Nat \ {0} /\ r \in Nat
    <3>1. p \in Nat
      BY <1>1
    <3>2. q \in Nat
      BY <1>1
    <3>3. s \in Nat /\ r \in Nat
      BY <1>1, ProductType
    <3>4. 1 * 1 <= totalSupply * totalSupply
      BY <1>1, <1>3, ProductMonotone
    <3>5. QED
      BY <3>1, <3>2, <3>3, <3>4
  <2>4. q >= s
    BY DEF SupplyWithinReserves
  <2> HIDE DEF p, q, s, r
  <2>5. p >= r
    BY <2>1, <2>2, <2>3, <2>4, RatioCarries
  <2>6. QED
    BY <2>5 DEF p, r, SupplyWithinReserves
<1>4. QED
  BY <1>1, <1>2, <1>3

LEMMA LpTimesReserveFits ==
  ASSUME SupplyWithinReserves, totalSupply \in Nat, NEW x \in Nat, x <= totalSupply,
         reserve[0] \in 0 .. MaxUint128, reserve[1] \in 0 .. MaxUint128, NEW t \in Token
  PROVE  FitsUint256(x * reserve[t])
<1>1. MaxUint128 \in Nat /\ MaxUint256 \in Nat /\ reserve[t] \in 0 .. MaxUint128
  BY PoolMathAssumption DEF Token
<1>2. reserve[0] * reserve[1] <= MaxUint128 * MaxUint128
  BY <1>1, ProductMonotone
<1>3. totalSupply <= MaxUint128
  <2>1. SUFFICES ASSUME MaxUint128 + 1 <= totalSupply PROVE FALSE
    BY <1>1
  <2>2. (MaxUint128 + 1) * (MaxUint128 + 1) <= totalSupply * totalSupply
    BY <1>1, <2>1, ProductMonotone
  <2>3. (MaxUint128 + 1) * (MaxUint128 + 1) = MaxUint128 * MaxUint128 + 2 * MaxUint128 + 1
    BY <1>1
  <2>4. /\ MaxUint128 * MaxUint128 \in Nat /\ totalSupply * totalSupply \in Nat
        /\ reserve[0] * reserve[1] \in Nat
    BY <1>1
  <2>5. QED
    BY <1>1, <1>2, <2>2, <2>3, <2>4 DEF SupplyWithinReserves
<1>4. x * reserve[t] <= MaxUint128 * MaxUint128
  BY <1>1, <1>3, ProductMonotone
<1>5. x * reserve[t] \in Nat /\ MaxUint128 * MaxUint128 \in Nat
  BY <1>1
<1>6. QED
  BY <1>1, <1>4, <1>5, WidthAssumption DEF FitsUint256

LEMMA AllLpRedeemable ==
  ASSUME IInv, SupplyWithinReserves PROVE ProvidersCanExit
<1>1. SUFFICES ASSUME NEW u \in Users, lp[u] > 0
               PROVE  MayRemove(u, lp[u], [t \in Token |-> 0])
  BY DEF ProvidersCanExit
<1>2. lp[u] \in Nat /\ totalSupply \in Nat /\ lp[u] <= totalSupply
  BY AccountIsFinite, AccountFacts, SumBounds DEF IInv, TypeOK, LpSupplyIsSumOfBalances
<1>3. PICK x \in Nat \ {0} : x = lp[u]
  BY <1>1, <1>2
<1>4. totalSupply \in Nat \ {0} /\ x <= totalSupply /\ x < totalSupply
  BY <1>2, <1>3, BurnLeavesLockedLp DEF Covers
<1>5. ASSUME NEW t \in Token
      PROVE  /\ FitsUint256(x * reserve[t])
             /\ Redeemed(x)[t] >= 0
             /\ Covers(balance[t], Pool, Redeemed(x)[t])
  <2>1. /\ reserve[t] \in Nat /\ reserve[t] > 0
        /\ reserve[0] \in 0 .. MaxUint128 /\ reserve[1] \in 0 .. MaxUint128
        /\ reserve[t] <= balance[t][Pool] /\ balance[t][Pool] \in Nat
    BY <1>4, AccountFacts, PoolMathAssumption DEF IInv, TypeOK, PoolNeverDrains, PoolIsSolvent, Token
  <2>2. ProRata(x, reserve[t], totalSupply) \in Nat
        /\ ProRata(x, reserve[t], totalSupply) < reserve[t]
    BY <1>4, <2>1, ProRataBounds
  <2>3. Redeemed(x)[t] = ProRata(x, reserve[t], totalSupply)
    BY DEF Redeemed
  <2>4. FitsUint256(x * reserve[t])
    BY <1>4, <2>1, LpTimesReserveFits
  <2>5. QED
    BY <2>1, <2>2, <2>3, <2>4 DEF Covers
<1>6. Covers(lp, u, x)
  BY <1>2, <1>3 DEF Covers
<1>7. QED
  BY <1>3, <1>4, <1>5, <1>6 DEF MayRemove

(* Whatever anybody did to the pool, whoever holds LP can burn all of it:  *)
(* removeLiquidity with no minimums neither overflows nor lacks tokens.    *)
THEOREM ProvidersExit == ASSUME SupplyFits PROVE Spec => []ProvidersCanExit
<1>1. Init => SupplyWithinReserves
  BY DEF Init, SupplyWithinReserves, Token
<1>2. IInv /\ SupplyWithinReserves /\ [Next]_vars => SupplyWithinReserves'
  BY SupplyStaysWithin
<1>3. IInv /\ SupplyWithinReserves => ProvidersCanExit
  BY AllLpRedeemable
<1>4. QED
  BY <1>1, <1>2, <1>3, InvariantHolds, PTL DEF Spec

-----------------------------------------------------------------------------
(* A quote for nothing is nothing. *)
LEMMA NothingOut ==
  ASSUME NEW r \in 1 .. MaxUint128, NEW s \in 1 .. MaxUint128
  PROVE  AmountOut(r, s, 0) = 0
<1> USE PoolMathAssumption
<1>1. 0 * FeeNum = 0 /\ Wrap256(0) = 0
  BY DEF Wrap256
<1>2. 0 * s = 0
  OBVIOUS
<1>3. r * FeeDenom \in 1 .. MaxUint256
  <2>1. FeeDenom \in Nat \ {0} /\ r \in Nat \ {0} /\ r <= MaxUint128
    OBVIOUS
  <2>2. FeeDenom * r <= FeeDenom * MaxUint128 /\ FeeDenom * MaxUint128 \in Nat
    BY <2>1, ProductMonotone
  <2>3. FeeDenom * r = r * FeeDenom /\ r * FeeDenom \in Nat \ {0}
    BY <2>1
  <2>4. 2 * FeeDenom * MaxUint128 = 2 * (FeeDenom * MaxUint128)
    BY <2>1
  <2>5. QED
    BY <2>2, <2>3, <2>4
<1>4. Wrap256(r * FeeDenom) = r * FeeDenom
  BY <1>3 DEF Wrap256
<1>5. Wrap256(r * FeeDenom + 0) = r * FeeDenom
  BY <1>3, <1>4
<1>6. 0 \div (r * FeeDenom) = 0
  BY <1>3
<1>7. QED
  BY <1>1, <1>2, <1>4, <1>5, <1>6 DEF AmountOut

(* Selling the output of a sale: the product of the reserves has fallen in *)
(* neither, so the first reserve is at least what it was before both.      *)
LEMMA SwapBackLoses ==
  ASSUME NEW r \in 1 .. MaxUint128, NEW s \in 1 .. MaxUint128,
         NEW x \in Nat \ {0}, r + x <= MaxUint128
  PROVE  AmountOut(s - AmountOut(r, s, x), r + x, AmountOut(r, s, x)) <= x
<1> USE PoolMathAssumption
<1> DEFINE out == AmountOut(r, s, x)
           back == AmountOut(s - out, r + x, out)
<1>1. x \in 1 .. MaxUint128 /\ r \in Nat /\ s \in Nat
  OBVIOUS
<1>2. out \in Nat /\ out < s /\ (r + x) * (s - out) >= r * s
  BY <1>1, AmountOutBounds
<1>3. CASE out = 0
  BY <1>1, <1>3, NothingOut
<1>4. CASE out # 0
  <2> HIDE DEF out
  <2>1. s - out \in 1 .. MaxUint128 /\ r + x \in 1 .. MaxUint128 /\ out \in 1 .. MaxUint128
    BY <1>1, <1>2, <1>4
  <2>2. /\ back \in Nat /\ back < r + x
        /\ (s - out + out) * (r + x - back) >= (s - out) * (r + x)
    BY <2>1, AmountOutBounds
  <2> HIDE DEF back
  <2>3. s - out + out = s /\ (s - out) * (r + x) = (r + x) * (s - out)
    BY <1>1, <1>2, <2>1
  <2>4. s * (r + x - back) >= r * s
    <3>1. s * (r + x - back) \in Nat /\ (r + x) * (s - out) \in Nat /\ r * s \in Nat
      BY <1>1, <1>2, <2>2
    <3>2. QED
      BY <1>2, <2>2, <2>3, <3>1
  <2>5. SUFFICES ASSUME back > x PROVE FALSE
    BY <1>1, <2>2 DEF back, out
  <2>6. r + x - back \in Nat /\ r + x - back <= r - 1 /\ r - 1 \in Nat
    BY <1>1, <2>2, <2>5
  <2>7. s * (r + x - back) <= s * (r - 1)
    BY <1>1, <2>6, ProductMonotone
  <2>8. s * (r - 1) = r * s - s /\ r * s \in Nat /\ s * (r + x - back) \in Nat
    BY <1>1, <2>6
  <2>9. QED
    BY <1>1, <2>4, <2>7, <2>8
<1>5. QED
  BY <1>3, <1>4

(* LP minted for the scarcer side redeems no more than was paid for it.    *)
LEMMA UndoneDepositLoses ==
  ASSUME NEW r \in Nat \ {0}, NEW a \in Nat, NEW total \in Nat \ {0},
         NEW m \in Nat, m <= ProRata(a, total, r)
  PROVE  ProRata(m, r + a, total + m) <= a
<1> DEFINE q == ProRata(m, r + a, total + m)
           k == ProRata(a, total, r)
<1>1. k \in Nat /\ k * r <= a * total
  BY ProRataBounds
<1>2. m * r <= k * r
  BY <1>1, ProductMonotone
<1>3. total + m \in Nat \ {0} /\ r + a \in Nat
  OBVIOUS
<1>4. q \in Nat /\ q * (total + m) <= m * (r + a)
  BY <1>3, ProRataBounds
<1> HIDE DEF q, k
<1>5. m * (r + a) = m * r + m * a /\ a * (total + m) = a * total + m * a
  OBVIOUS
<1>6. /\ q * (total + m) \in Nat /\ m * r \in Nat /\ k * r \in Nat
      /\ a * total \in Nat /\ m * a \in Nat
  BY <1>1, <1>3, <1>4
<1>7. q * (total + m) <= a * (total + m)
  BY <1>1, <1>2, <1>4, <1>5, <1>6
<1>8. SUFFICES ASSUME q >= a + 1 PROVE FALSE
  BY <1>4 DEF q
<1>9. q * (total + m) >= (a + 1) * (total + m)
  BY <1>3, <1>4, <1>8, ProductMonotone
<1>10. (a + 1) * (total + m) = a * (total + m) + (total + m)
  OBVIOUS
<1>11. QED
  BY <1>3, <1>6, <1>7, <1>9, <1>10

(* In no reachable state does a swap and the swap back, or a deposit and   *)
(* the withdrawal of its LP, leave the caller with more of a token.        *)
THEOREM UndoingNeverPays == ASSUME SupplyFits PROVE Spec => []NoProfitFromUndoing
<1>1. ASSUME IInv PROVE NoProfitFromUndoing
  <2>1. SUFFICES ASSUME totalSupply > 0 PROVE NoProfitFromUndoing
    BY DEF NoProfitFromUndoing
  <2>2. /\ totalSupply \in Nat \ {0}
        /\ \A t \in Token : reserve[t] \in 1 .. MaxUint128 /\ reserve[t] \in Nat \ {0}
    <3>1. TypeOK /\ PoolNeverDrains
      BY <1>1 DEF IInv
    <3>2. QED
      BY <2>1, <3>1, PoolMathAssumption DEF TypeOK, PoolNeverDrains
  <2>3. ASSUME NEW t \in Token, NEW x \in Amounts \ {0}, reserve[t] + x <= MaxUint128
        PROVE  SwapBackReturns(t, x) <= x
    <3>1. x \in Nat \ {0} /\ Other(t) \in Token
      BY AccountAssumption DEF Token, Other
    <3>2. QED
      BY <2>2, <2>3, <3>1, SwapBackLoses DEF SwapBackReturns
  <2>4. ASSUME NEW amount \in [Token -> Amounts], NEW t \in Token
        PROVE  ProRata(MintedFor(amount), reserve[t] + amount[t],
                       totalSupply + MintedFor(amount)) <= amount[t]
    <3> DEFINE part(i) == ProRata(amount[i], totalSupply, reserve[i])
    <3>1. /\ \A i \in Token : amount[i] \in Nat
          /\ 0 \in Token /\ 1 \in Token /\ (t = 0 \/ t = 1)
      BY AccountAssumption DEF Token
    <3>2. \A i \in Token : part(i) \in Nat
      BY <2>2, <3>1, ProRataBounds
    <3> HIDE DEF part
    <3>3. MintedFor(amount) = Lesser(part(0), part(1))
      BY DEF MintedFor, part
    <3>4. MintedFor(amount) \in Nat /\ MintedFor(amount) <= part(t)
      BY <3>1, <3>2, <3>3 DEF Lesser
    <3>5. QED
      BY <2>2, <3>1, <3>4, UndoneDepositLoses DEF part
  <2>5. QED
    BY <2>1, <2>3, <2>4 DEF NoProfitFromUndoing
<1>2. QED
  BY <1>1, InvariantHolds, PTL
=============================================================================
