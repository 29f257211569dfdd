------------------------- MODULE V2MasterChefProofs -------------------------
(***************************************************************************)
(* The safety of staking, for all stakers, pools, rewarders, amounts and   *)
(* widths: stakes add up and are backed, the view shows what a harvest     *)
(* pays, and the cap holds if it is never set below what is distributed.   *)
(***************************************************************************)
EXTENDS V2MasterChef, Groundwork

(* The inductive invariant. *)
IInv == TypeOK /\ StakesAreBacked

-----------------------------------------------------------------------------
(* The arithmetic of a rewarder. *)

LEMMA WrapFacts ==
  ASSUME NEW x \in Int
  PROVE  /\ Wrap256(x) \in 0 .. MaxUint256
         /\ x \in 0 .. MaxUint256 => Wrap256(x) = x
BY RewarderAssumption DEF Wrap256

LEMMA QuotientBounds ==
  ASSUME NEW a \in Nat, NEW b \in Nat \ {0}
  PROVE  /\ a \div b \in 0 .. a
         /\ a = 0 => a \div b = 0
OBVIOUS

LEMMA RewarderFields ==
  ASSUME NEW r \in RewarderState
  PROVE  /\ r.rewardPerSecond \in Nat /\ r.totalRewardCap \in 0 .. MaxUint256
         /\ r.rewardDistributed \in 0 .. MaxUint256
         /\ r.accRewardPerShare \in 0 .. MaxUint256
         /\ r.lastUpdateTime \in 0 .. MaxTime
         /\ r.rewardDebt \in [Users -> 0 .. MaxUint256]
<1>1. /\ r.rewardPerSecond \in RewardRates \cup {0}
      /\ r.totalRewardCap \in RewardCaps \cup {0}
      /\ r.rewardDistributed \in 0 .. MaxUint256
      /\ r.accRewardPerShare \in 0 .. MaxUint256
      /\ r.lastUpdateTime \in 0 .. MaxTime
      /\ r.rewardDebt \in [Users -> 0 .. MaxUint256]
  BY DEF RewarderState
<1>2. RewardRates \cup {0} \subseteq Nat
  BY ChefAssumption
<1>3. RewardCaps \cup {0} \subseteq 0 .. MaxUint256
  BY ChefAssumption, RewarderAssumption
<1>4. QED
  BY <1>1, <1>2, <1>3

LEMMA RewardTypes ==
  ASSUME NEW r \in RewarderState, NEW t \in 0 .. MaxTime
  PROVE  /\ Streamed(r, t) \in 0 .. MaxUint256
         /\ LeftUnderCap(r) \in 0 .. MaxUint256
         /\ RewardSince(r, t) \in 0 .. MaxUint256
<1>1. Streamed(r, t) \in 0 .. MaxUint256
  <2>1. (t - r.lastUpdateTime) * r.rewardPerSecond \in Int
    BY RewarderFields
  <2>2. QED
    BY <2>1, WrapFacts DEF Streamed
<1>2. LeftUnderCap(r) \in 0 .. MaxUint256
  <2>1. r.totalRewardCap - r.rewardDistributed \in Int
    BY RewarderFields
  <2>2. QED
    BY <2>1, WrapFacts DEF LeftUnderCap
<1>3. QED
  BY <1>1, <1>2 DEF RewardSince

LEMMA PerShareType ==
  ASSUME NEW reward \in 0 .. MaxUint256, NEW staked \in Nat \ {0}
  PROVE  /\ PerShare(reward, staked) \in 0 .. MaxUint256
         /\ PerShare(0, staked) = 0
<1>1. reward * Precision \in Int /\ 0 * Precision = 0 /\ 0 \in 0 .. MaxUint256
  BY RewarderAssumption
<1>2. Wrap256(reward * Precision) \in 0 .. MaxUint256 /\ Wrap256(0 * Precision) = 0
  BY <1>1, WrapFacts
<1>3. Wrap256(reward * Precision) \div staked \in 0 .. Wrap256(reward * Precision)
  BY <1>2, QuotientBounds, RewarderAssumption
<1>4. 0 \div staked = 0
  BY QuotientBounds
<1>5. QED
  BY <1>2, <1>3, <1>4, RewarderAssumption DEF PerShare

LEMMA EarnedType ==
  ASSUME NEW r \in RewarderState, NEW n \in Nat
  PROVE  Earned(r, n) \in 0 .. MaxUint256
<1>1. n * r.accRewardPerShare \in Int
  BY RewarderFields
<1>2. Wrap256(n * r.accRewardPerShare) \in 0 .. MaxUint256
  BY <1>1, WrapFacts
<1>3. QED
  BY <1>2, QuotientBounds, RewarderAssumption DEF Earned

LEMMA UnpaidType ==
  ASSUME NEW r \in RewarderState, NEW u \in Users, NEW n \in Nat
  PROVE  Unpaid(r, u, n) \in 0 .. MaxUint256
<1>1. Earned(r, n) - r.rewardDebt[u] \in Int
  BY EarnedType, RewarderFields
<1>2. QED
  BY <1>1, WrapFacts DEF Unpaid

(* An update moves the accumulator, what is distributed and the time; the  *)
(* cap bounds what is distributed if it did before, wrapped or not.        *)
LEMMA UpdateFacts ==
  ASSUME NEW r \in RewarderState, NEW staked \in Nat, NEW t \in 0 .. MaxTime
  PROVE  /\ UpdatePool(r, staked, t) \in RewarderState
         /\ UpdatePool(r, staked, t).rewardDebt = r.rewardDebt
         /\ UpdatePool(r, staked, t).totalRewardCap = r.totalRewardCap
         /\ r.totalRewardCap > 0 /\ r.rewardDistributed <= r.totalRewardCap
              => UpdatePool(r, staked, t).rewardDistributed <= r.totalRewardCap
<1>1. CASE t <= r.lastUpdateTime
  <2>1. ~(t > r.lastUpdateTime)
    BY <1>1, RewarderFields
  <2>2. UpdatePool(r, staked, t) = r
    BY <1>1, <2>1 DEF UpdatePool
  <2>3. QED
    BY <2>2
<1>2. CASE t > r.lastUpdateTime /\ staked = 0
  <2>1. ~(t <= r.lastUpdateTime)
    BY <1>2, RewarderFields
  <2>2. UpdatePool(r, staked, t) = [r EXCEPT !.lastUpdateTime = t]
    BY <1>2, <2>1 DEF UpdatePool
  <2>3. QED
    BY <2>2 DEF RewarderState
<1>3. CASE t > r.lastUpdateTime /\ staked > 0
  <2>1. ~(t <= r.lastUpdateTime) /\ staked # 0
    BY <1>3, RewarderFields
  <2>2. UpdatePool(r, staked, t) = IF Exhausted(r, t) THEN r ELSE Accrue(r, staked, t)
    BY <1>3, <2>1 DEF UpdatePool
  <2> DEFINE reward == RewardSince(r, t)
             acc == Wrap256(r.accRewardPerShare + PerShare(reward, staked))
             distributed == Wrap256(r.rewardDistributed + reward)
  <2>3. reward \in 0 .. MaxUint256
    BY RewardTypes
  <2>4. acc \in 0 .. MaxUint256
    <3>1. r.accRewardPerShare + PerShare(reward, staked) \in Int
      BY <1>3, <2>3, PerShareType, RewarderFields
    <3>2. QED
      BY <3>1, WrapFacts
  <2>5. distributed \in 0 .. MaxUint256
    BY <2>3, WrapFacts, RewarderFields
  <2>6. Accrue(r, staked, t) = [r EXCEPT !.accRewardPerShare = acc,
                                         !.rewardDistributed = distributed,
                                         !.lastUpdateTime = t]
    BY DEF Accrue
  <2>7. ASSUME r.totalRewardCap > 0, r.rewardDistributed <= r.totalRewardCap
        PROVE  distributed <= r.totalRewardCap
    <3>1. CASE HitsCap(r, t)
      <4>1. r.totalRewardCap - r.rewardDistributed \in 0 .. MaxUint256
        BY <2>7, RewarderFields, RewarderAssumption
      <4>2. reward = r.totalRewardCap - r.rewardDistributed
        BY <3>1, <4>1, WrapFacts DEF RewardSince, LeftUnderCap
      <4>3. r.rewardDistributed + reward = r.totalRewardCap
        BY <4>2, RewarderFields
      <4>4. distributed = r.totalRewardCap
        BY <4>3, WrapFacts, RewarderFields
      <4>5. QED
        BY <4>4, RewarderFields
    <3>2. CASE ~HitsCap(r, t)
      <4>1. reward = Streamed(r, t)
        BY <3>2 DEF RewardSince
      <4>2. ~(distributed > r.totalRewardCap)
        BY <2>7, <3>2, <4>1 DEF HitsCap
      <4>3. QED
        BY <2>5, <4>2, RewarderFields
    <3>3. QED
      BY <3>1, <3>2
  <2> HIDE DEF acc, distributed, reward
  <2>8. Accrue(r, staked, t) \in RewarderState
    BY <2>4, <2>5, <2>6 DEF RewarderState
  <2>9. /\ Accrue(r, staked, t).rewardDebt = r.rewardDebt
        /\ Accrue(r, staked, t).totalRewardCap = r.totalRewardCap
        /\ Accrue(r, staked, t).rewardDistributed = distributed
    BY <2>6 DEF RewarderState
  <2>10. QED
    BY <2>2, <2>7, <2>8, <2>9
<1>4. QED
  BY <1>1, <1>2, <1>3, RewarderFields

LEMMA SettleFacts ==
  ASSUME NEW r \in RewarderState, NEW u \in Users, NEW n \in Nat
  PROVE  /\ SettleDebt(r, u, n) \in RewarderState
         /\ SettleDebt(r, u, n).totalRewardCap = r.totalRewardCap
         /\ SettleDebt(r, u, n).rewardDistributed = r.rewardDistributed
<1>1. Earned(r, n) \in 0 .. MaxUint256
  BY EarnedType
<1>2. SettleDebt(r, u, n) = [r EXCEPT !.rewardDebt = [@ EXCEPT ![u] = Earned(r, n)]]
  BY DEF SettleDebt, RewarderState
<1>3. QED
  BY <1>1, <1>2 DEF RewarderState

-----------------------------------------------------------------------------
(* What the parts of a call do to the state. *)

LEMMA PoolFacts ==
  ASSUME TypeOK, NEW l \in LpTokens, PoolAdded(l)
  PROVE  /\ rewarderOf[l] \in Rewarders /\ rewarderOf[l] \in deployed
         /\ rewarder[rewarderOf[l]] \in RewarderState
         /\ totalStaked[l] \in Nat /\ now \in 0 .. MaxTime
         /\ Updated(l) \in RewarderState
         /\ Updated(l).totalRewardCap = rewarder[rewarderOf[l]].totalRewardCap
         /\ CapIsKept /\ Updated(l).totalRewardCap > 0
              => Updated(l).rewardDistributed <= Updated(l).totalRewardCap
<1>1. /\ rewarderOf[l] \in Rewarders /\ rewarderOf[l] \in deployed
      /\ rewarder[rewarderOf[l]] \in RewarderState
      /\ totalStaked[l] \in Nat /\ now \in 0 .. MaxTime
  BY ChefAssumption DEF TypeOK, PoolAdded
<1>2. QED
  BY <1>1, UpdateFacts DEF Updated, CapIsKept

(* One rewarder's storage is written. *)
LEMMA RewarderWritten ==
  ASSUME TypeOK, NEW w \in Rewarders, NEW r \in RewarderState,
         rewarder' = [rewarder EXCEPT ![w] = r]
  PROVE  /\ rewarder' \in [Rewarders -> RewarderState]
         /\ CapIsKept /\ (r.totalRewardCap > 0 => r.rewardDistributed <= r.totalRewardCap)
              => CapIsKept'
<1>1. rewarder \in [Rewarders -> RewarderState]
  BY DEF TypeOK
<1>2. rewarder'[w] = r /\ \A v \in Rewarders : v # w => rewarder'[v] = rewarder[v]
  BY <1>1
<1>3. QED
  BY <1>1, <1>2 DEF CapIsKept

LEMMA PaymentType ==
  ASSUME TypeOK, NEW l \in LpTokens, NEW u \in Users, PoolAdded(l)
  PROVE  /\ Payment(u, l) \in Nat
         /\ Payment(u, l) <= rewardBalance[rewarderOf[l]]
         /\ Payment(u, l) <= Unpaid(Updated(l), u, amount[l][u])
<1>1. amount[l][u] \in Nat
  BY DEF TypeOK
<1>2. Unpaid(Updated(l), u, amount[l][u]) \in Nat
  BY <1>1, PoolFacts, UnpaidType
<1>3. rewardBalance[rewarderOf[l]] \in Nat
  BY PoolFacts DEF TypeOK, RewardAccount
<1>4. QED
  BY <1>2, <1>3 DEF Payment

LEMMA RewardPaid ==
  ASSUME TypeOK, NEW l \in LpTokens, NEW u \in Users, PoolAdded(l), PayReward(u, l)
  PROVE  /\ rewardBalance' \in [RewardAccount -> Nat]
         /\ paid' \in [Rewarders -> Nat]
<1> DEFINE w == rewarderOf[l]
           x == Payment(u, l)
<1>1. /\ x \in Nat /\ x <= rewardBalance[w]
      /\ w \in Rewarders /\ w \in RewardAccount /\ u \in RewardAccount
  BY PaymentType, PoolFacts DEF RewardAccount
<1>2. /\ rewardBalance \in [RewardAccount -> Nat] /\ paid \in [Rewarders -> Nat]
      /\ rewardBalance' = Transfer(rewardBalance, w, u, x) /\ paid' = Credit(paid, w, x)
  BY DEF PayReward, TypeOK
<1> HIDE DEF w, x
<1>3. Debit(rewardBalance, w, x) \in [RewardAccount -> Nat]
  BY <1>1, <1>2 DEF Debit
<1>4. QED
  BY <1>1, <1>2, <1>3 DEF Transfer, Credit

LEMMA DebtCharged ==
  ASSUME TypeOK, NEW l \in LpTokens, NEW u \in Users, NEW n \in Nat,
         PoolAdded(l), ChargeDebt(u, l, n)
  PROVE  /\ rewarder' \in [Rewarders -> RewarderState]
         /\ CapIsKept => CapIsKept'
<1> DEFINE r == SettleDebt(Updated(l), u, n)
<1>1. /\ r \in RewarderState /\ r.totalRewardCap = Updated(l).totalRewardCap
      /\ r.rewardDistributed = Updated(l).rewardDistributed
  BY PoolFacts, SettleFacts
<1>2. rewarder' = [rewarder EXCEPT ![rewarderOf[l]] = r]
  BY DEF ChargeDebt
<1> HIDE DEF r
<1>3. QED
  BY <1>1, <1>2, PoolFacts, RewarderWritten

(* A stake is set: the totals still add up. *)
LEMMA StakeSet ==
  ASSUME TypeOK, StakesAreBacked, NEW l \in LpTokens, NEW u \in Users, NEW n \in Nat,
         Stake(u, l, n)
  PROVE  /\ amount' \in [LpTokens -> [Users -> Nat]]
         /\ totalStaked' \in [LpTokens -> Nat]
         /\ \A k \in LpTokens : totalStaked'[k] = SumFunctionOnSet(amount'[k], Users)
         /\ totalStaked'[l] = totalStaked[l] - amount[l][u] + n
         /\ \A k \in LpTokens : k # l => totalStaked'[k] = totalStaked[k]
<1> DEFINE old == amount[l]
           new == [old EXCEPT ![u] = n]
<1>1. /\ amount \in [LpTokens -> [Users -> Nat]] /\ totalStaked \in [LpTokens -> Nat]
      /\ old \in [Users -> Nat] /\ old \in [Users -> Int] /\ new \in [Users -> Nat]
      /\ IsFiniteSet(Users)
  BY ChefAssumption DEF TypeOK
<1>2. amount' = [amount EXCEPT ![l] = new]
  BY DEF Stake
<1>3. totalStaked' = [totalStaked EXCEPT ![l] = totalStaked[l] - old[u] + n]
  BY DEF Stake
<1>4. totalStaked[l] = SumFunctionOnSet(old, Users)
  BY DEF StakesAreBacked
<1>5. new = Put(old, u, n)
  BY <1>1 DEF Put
<1>6. SumFunctionOnSet(new, Users) = totalStaked[l] - old[u] + n
  <2> HIDE DEF old, new
  <2>1. SumFunctionOnSet(Put(old, u, n), Users) = SumFunctionOnSet(old, Users) - old[u] + n
    BY <1>1, SumUpdate
  <2>2. QED
    BY <1>4, <1>5, <2>1
<1>7. SumFunctionOnSet(new, Users) \in Nat
  BY <1>1, SumBounds
<1>8. \A k \in LpTokens : k # l => amount'[k] = amount[k] /\ totalStaked'[k] = totalStaked[k]
  BY <1>1, <1>2, <1>3
<1>9. amount'[l] = new /\ totalStaked'[l] = totalStaked[l] - old[u] + n
  BY <1>1, <1>2, <1>3
<1>10. \A k \in LpTokens : totalStaked[k] = SumFunctionOnSet(amount[k], Users)
  BY DEF StakesAreBacked
<1>11. amount' \in [LpTokens -> [Users -> Nat]]
  BY <1>1, <1>2
<1>12. totalStaked' \in [LpTokens -> Nat]
  BY <1>1, <1>3, <1>6, <1>7
<1>13. old[u] = amount[l][u]
  OBVIOUS
<1> HIDE DEF old, new
<1>14. QED
  BY <1>6, <1>8, <1>9, <1>10, <1>11, <1>12, <1>13

(* LP moves: no balance falls below zero. *)
LpMoves(l, a, b, x) ==
  /\ Covers(lpBalance[l], a, x)
  /\ lpBalance' = [lpBalance EXCEPT ![l] = Transfer(@, a, b, x)]

LEMMA LpMoved ==
  ASSUME TypeOK, NEW l \in LpTokens, NEW a \in StakeAccount, NEW b \in StakeAccount,
         NEW x \in Nat, LpMoves(l, a, b, x)
  PROVE  /\ lpBalance' \in [LpTokens -> [StakeAccount -> Nat]]
         /\ lpBalance'[l] = Transfer(lpBalance[l], a, b, x)
         /\ \A k \in LpTokens : k # l => lpBalance'[k] = lpBalance[k]
         /\ a # b => /\ lpBalance'[l][a] = lpBalance[l][a] - x
                     /\ lpBalance'[l][b] = lpBalance[l][b] + x
         /\ \A c \in StakeAccount \ {a, b} : lpBalance'[l][c] = lpBalance[l][c]
<1> DEFINE led == lpBalance[l]
           new == Transfer(led, a, b, x)
<1>1. lpBalance \in [LpTokens -> [StakeAccount -> Nat]] /\ led \in [StakeAccount -> Nat]
  BY DEF TypeOK
<1>2. x <= led[a]
  BY DEF LpMoves, Covers
<1> HIDE DEF led
<1>3. Debit(led, a, x) \in [StakeAccount -> Nat]
  BY <1>1, <1>2 DEF Debit
<1>4. new \in [StakeAccount -> Nat]
  BY <1>3 DEF Transfer, Credit
<1>5. a # b => new[a] = led[a] - x /\ new[b] = led[b] + x
  BY <1>1, <1>2 DEF Transfer, Credit, Debit
<1>6. \A c \in StakeAccount \ {a, b} : new[c] = led[c]
  BY <1>1 DEF Transfer, Credit, Debit
<1>7. lpBalance' = [lpBalance EXCEPT ![l] = new]
  BY DEF led, LpMoves
<1> HIDE DEF new
<1>8. QED
  BY <1>1, <1>4, <1>5, <1>6, <1>7 DEF led, new

-----------------------------------------------------------------------------
(* Every step keeps the invariant, and the cap where it is not set too low. *)

StepIsSafe == IInv' /\ (~CapMayDropBelow /\ CapIsKept => CapIsKept')

LEMMA NewRewarderFacts ==
  ASSUME NEW rate \in RewardRates, NEW cap \in RewardCaps, NEW t \in 0 .. MaxTime
  PROVE  /\ NewRewarder(rate, cap, t, Users) \in RewarderState
         /\ NewRewarder(rate, cap, t, Users).rewardDistributed = 0
         /\ NewRewarder(rate, cap, t, Users).totalRewardCap = cap
BY RewarderAssumption DEF NewRewarder, RewarderState

LEMMA InitIsSafe == ASSUME Init PROVE IInv /\ CapIsKept
<1>1. TypeOK
  <2>1. NewRewarder(0, 0, 0, Users) \in RewarderState
    BY ChefAssumption, RewarderAssumption DEF NewRewarder, RewarderState
  <2>2. rewarder \in [Rewarders -> RewarderState]
    BY <2>1 DEF Init
  <2>3. lpBalance \in [LpTokens -> [StakeAccount -> Nat]]
    BY ChefAssumption DEF Init, StakeAccount
  <2>4. rewardBalance \in [RewardAccount -> Nat]
    BY ChefAssumption DEF Init, RewardAccount
  <2>5. QED
    BY <2>2, <2>3, <2>4, ChefAssumption DEF Init, TypeOK
<1>2. StakesAreBacked
  <2>1. ASSUME NEW l \in LpTokens
        PROVE  totalStaked[l] = SumFunctionOnSet(amount[l], Users)
    <3>1. \A u \in Users : amount[l][u] = 0
      BY DEF Init
    <3>2. SumFunctionOnSet(amount[l], Users) = 0
      BY <3>1, SumZero, ChefAssumption
    <3>3. QED
      BY <3>2 DEF Init
  <2>2. \A l \in LpTokens : totalStaked[l] <= lpBalance[l][Chef]
    BY ChefAssumption DEF Init, StakeAccount
  <2>3. QED
    BY <2>1, <2>2 DEF StakesAreBacked
<1>3. CapIsKept
  BY DEF Init, CapIsKept, NewRewarder
<1>4. QED
  BY <1>1, <1>2, <1>3 DEF IInv

LEMMA DeployIsSafe ==
  ASSUME IInv, NEW w \in Rewarders, NEW rate \in RewardRates, NEW cap \in RewardCaps,
         Deploy(w, rate, cap)
  PROVE  /\ rewarder' \in [Rewarders -> RewarderState]
         /\ CapIsKept => CapIsKept'
<1> DEFINE r == NewRewarder(rate, cap, now, Users)
<1>1. TypeOK /\ now \in 0 .. MaxTime
  BY DEF IInv, TypeOK
<1>2. /\ r \in RewarderState
      /\ r.totalRewardCap > 0 => r.rewardDistributed <= r.totalRewardCap
  <2>1. cap \in Nat
    BY ChefAssumption, RewarderAssumption
  <2>2. QED
    BY <1>1, <2>1, NewRewarderFacts
<1>3. rewarder' = [rewarder EXCEPT ![w] = r]
  BY DEF Deploy
<1> HIDE DEF r
<1>4. QED
  BY <1>1, <1>2, <1>3, RewarderWritten

(* What leaves stakes and LP alone keeps them backed. *)
LEMMA StakesKept ==
  ASSUME StakesAreBacked, UNCHANGED <<totalStaked, amount, lpBalance>>
  PROVE  StakesAreBacked'
BY DEF StakesAreBacked

LEMMA DeployRewarderIsSafe ==
  ASSUME IInv, NEW w \in Rewarders, NEW rate \in RewardRates, NEW cap \in RewardCaps,
         DeployRewarder(w, rate, cap)
  PROVE  StepIsSafe
<1>1. /\ rewarder' \in [Rewarders -> RewarderState] /\ (CapIsKept => CapIsKept')
      /\ deployed' = deployed \cup {w}
  BY DeployIsSafe DEF DeployRewarder, Deploy
<1>2. UNCHANGED <<now, chefVars, tokenVars, historyVars>>
  BY DEF DeployRewarder
<1>3. TypeOK'
  BY <1>1, <1>2 DEF IInv, TypeOK, chefVars, tokenVars, historyVars
<1>4. StakesAreBacked'
  BY <1>2, StakesKept DEF IInv, chefVars, tokenVars
<1>5. QED
  BY <1>1, <1>3, <1>4 DEF StepIsSafe, IInv

LEMMA AddPoolWithRewarderIsSafe ==
  ASSUME IInv, NEW l \in LpTokens, NEW w \in Rewarders, NEW rate \in RewardRates,
         NEW cap \in RewardCaps, AddPoolWithRewarder(l, w, rate, cap)
  PROVE  StepIsSafe
<1>1. /\ rewarder' \in [Rewarders -> RewarderState] /\ (CapIsKept => CapIsKept')
      /\ deployed' = deployed \cup {w}
      /\ rewarderOf' = [rewarderOf EXCEPT ![l] = w]
  BY DeployIsSafe DEF AddPoolWithRewarder, Deploy
<1>2. UNCHANGED <<now, totalStaked, amount, tokenVars, historyVars>>
  BY DEF AddPoolWithRewarder
<1>3. TypeOK'
  BY <1>1, <1>2 DEF IInv, TypeOK, tokenVars, historyVars
<1>4. StakesAreBacked'
  BY <1>2, StakesKept DEF IInv, tokenVars
<1>5. QED
  BY <1>1, <1>3, <1>4 DEF StepIsSafe, IInv

LEMMA AddIsSafe ==
  ASSUME IInv, NEW l \in LpTokens, NEW w \in Rewarders, Add(l, w)
  PROVE  StepIsSafe
<1>1. /\ w \in deployed /\ rewarderOf' = [rewarderOf EXCEPT ![l] = w]
      /\ UNCHANGED <<now, totalStaked, amount, rewarder, deployed, tokenVars, historyVars>>
  BY DEF Add
<1>2. TypeOK'
  BY <1>1 DEF IInv, TypeOK, tokenVars, historyVars
<1>3. StakesAreBacked'
  BY <1>1, StakesKept DEF IInv, tokenVars
<1>4. CapIsKept => CapIsKept'
  BY <1>1 DEF CapIsKept
<1>5. QED
  BY <1>2, <1>3, <1>4 DEF StepIsSafe, IInv

LEMMA SetPoolRewardRateIsSafe ==
  ASSUME IInv, NEW l \in LpTokens, NEW rate \in RewardRates, SetPoolRewardRate(l, rate)
  PROVE  StepIsSafe
<1> DEFINE r == [Updated(l) EXCEPT !.rewardPerSecond = rate]
<1>1. TypeOK /\ PoolAdded(l) /\ UNCHANGED <<now, chefVars, deployed, tokenVars, historyVars>>
  BY DEF IInv, SetPoolRewardRate
<1>2. /\ r \in RewarderState /\ r.totalRewardCap = Updated(l).totalRewardCap
      /\ r.rewardDistributed = Updated(l).rewardDistributed
  BY <1>1, PoolFacts DEF RewarderState
<1>3. rewarder' = [rewarder EXCEPT ![rewarderOf[l]] = r]
  BY DEF SetPoolRewardRate
<1> HIDE DEF r
<1>4. rewarder' \in [Rewarders -> RewarderState] /\ (CapIsKept => CapIsKept')
  BY <1>1, <1>2, <1>3, PoolFacts, RewarderWritten
<1>5. TypeOK'
  BY <1>1, <1>4 DEF TypeOK, chefVars, tokenVars, historyVars
<1>6. StakesAreBacked'
  BY <1>1, StakesKept DEF IInv, chefVars, tokenVars
<1>7. QED
  BY <1>4, <1>5, <1>6 DEF StepIsSafe, IInv

LEMMA SetPoolRewardCapIsSafe ==
  ASSUME IInv, NEW l \in LpTokens, NEW cap \in RewardCaps, SetPoolRewardCap(l, cap)
  PROVE  StepIsSafe
<1> DEFINE r == [Updated(l) EXCEPT !.totalRewardCap = cap]
<1>1. /\ TypeOK /\ PoolAdded(l) /\ UNCHANGED <<now, chefVars, deployed, tokenVars, historyVars>>
      /\ CapMayDropBelow \/ cap = 0 \/ cap >= Updated(l).rewardDistributed
  BY DEF IInv, SetPoolRewardCap
<1>2. r \in RewarderState /\ r.totalRewardCap = cap
      /\ r.rewardDistributed = Updated(l).rewardDistributed
  BY <1>1, PoolFacts DEF RewarderState
<1>3. rewarder' = [rewarder EXCEPT ![rewarderOf[l]] = r]
  BY DEF SetPoolRewardCap
<1>4. cap \in Nat /\ Updated(l).rewardDistributed \in Nat
  BY <1>1, PoolFacts, RewarderFields, ChefAssumption, RewarderAssumption
<1> HIDE DEF r
<1>5. ~CapMayDropBelow =>
        (r.totalRewardCap > 0 => r.rewardDistributed <= r.totalRewardCap)
  BY <1>1, <1>2, <1>4
<1>6. /\ rewarder' \in [Rewarders -> RewarderState]
      /\ ~CapMayDropBelow /\ CapIsKept => CapIsKept'
  BY <1>1, <1>2, <1>3, <1>5, PoolFacts, RewarderWritten
<1>7. TypeOK'
  BY <1>1, <1>6 DEF TypeOK, chefVars, tokenVars, historyVars
<1>8. StakesAreBacked'
  BY <1>1, StakesKept DEF IInv, chefVars, tokenVars
<1>9. QED
  BY <1>6, <1>7, <1>8 DEF StepIsSafe, IInv

LEMMA Counted ==
  ASSUME NEW f \in [Rewarders -> Nat], NEW w \in Rewarders
  PROVE  Credit(f, w, 1) \in [Rewarders -> Nat]
BY DEF Credit

LEMMA DepositIsSafe ==
  ASSUME IInv, NEW l \in LpTokens, NEW u \in Users, NEW x \in Nat, Deposit(u, l, x)
  PROVE  StepIsSafe
<1> DEFINE n == amount[l][u] + x
<1>1. /\ TypeOK /\ StakesAreBacked /\ PoolAdded(l)
      /\ u \in StakeAccount /\ Chef \in StakeAccount /\ u # Chef
  BY ChefAssumption DEF IInv, Deposit, StakeAccount
<1>2. amount[l][u] \in Nat /\ n = amount[l][u] + x /\ n \in Nat
  BY <1>1 DEF TypeOK
<1>3. /\ PayReward(u, l) /\ Stake(u, l, n) /\ ChargeDebt(u, l, n)
      /\ LpMoves(l, u, Chef, x)
      /\ deposits' = Credit(deposits, rewarderOf[l], 1)
      /\ UNCHANGED <<now, rewarderOf, deployed, withdrawals>>
  BY DEF Deposit, LpMoves
<1> HIDE DEF n
<1>4. rewarder' \in [Rewarders -> RewarderState] /\ (CapIsKept => CapIsKept')
  BY <1>1, <1>3, <1>2, DebtCharged
<1>5. rewardBalance' \in [RewardAccount -> Nat] /\ paid' \in [Rewarders -> Nat]
  BY <1>1, <1>3, RewardPaid
<1>6. /\ lpBalance' \in [LpTokens -> [StakeAccount -> Nat]]
      /\ lpBalance'[l][Chef] = lpBalance[l][Chef] + x
      /\ \A k \in LpTokens : k # l => lpBalance'[k] = lpBalance[k]
  BY <1>1, <1>3, LpMoved
<1>7. /\ amount' \in [LpTokens -> [Users -> Nat]] /\ totalStaked' \in [LpTokens -> Nat]
      /\ \A k \in LpTokens : totalStaked'[k] = SumFunctionOnSet(amount'[k], Users)
      /\ totalStaked'[l] = totalStaked[l] - amount[l][u] + n
      /\ \A k \in LpTokens : k # l => totalStaked'[k] = totalStaked[k]
  BY <1>1, <1>3, <1>2, StakeSet
<1>8. deposits' \in [Rewarders -> Nat]
  BY <1>1, <1>3, PoolFacts, Counted DEF TypeOK
<1>9. TypeOK'
  BY <1>1, <1>3, <1>4, <1>5, <1>6, <1>7, <1>8 DEF TypeOK
<1>10. \A k \in LpTokens : /\ totalStaked[k] \in Nat /\ lpBalance[k][Chef] \in Nat
                           /\ totalStaked[k] <= lpBalance[k][Chef]
  BY <1>1 DEF TypeOK, StakesAreBacked
<1>11. \A k \in LpTokens : totalStaked'[k] <= lpBalance'[k][Chef]
  <2>1. totalStaked'[l] = totalStaked[l] + x
    BY <1>2, <1>7, <1>10
  <2>2. ASSUME NEW k \in LpTokens PROVE totalStaked'[k] <= lpBalance'[k][Chef]
    <3>1. CASE k = l
      BY <1>6, <1>10, <2>1, <3>1
    <3>2. CASE k # l
      BY <1>6, <1>7, <1>10, <3>2
    <3>3. QED
      BY <3>1, <3>2
  <2>3. QED
    BY <2>2
<1>12. StakesAreBacked'
  BY <1>7, <1>11 DEF StakesAreBacked
<1>13. QED
  BY <1>4, <1>9, <1>12 DEF StepIsSafe, IInv

LEMMA WithdrawIsSafe ==
  ASSUME IInv, NEW l \in LpTokens, NEW u \in Users, NEW x \in Nat, Withdraw(u, l, x)
  PROVE  StepIsSafe
<1> DEFINE n == amount[l][u] - x
<1>1. /\ TypeOK /\ StakesAreBacked /\ PoolAdded(l)
      /\ u \in StakeAccount /\ Chef \in StakeAccount /\ u # Chef
  BY ChefAssumption DEF IInv, Withdraw, WithdrawSucceeds, StakeAccount
<1>2. /\ PayReward(u, l) /\ Stake(u, l, n) /\ ChargeDebt(u, l, n)
      /\ LpMoves(l, Chef, u, x)
      /\ withdrawals' = Credit(withdrawals, rewarderOf[l], 1)
      /\ UNCHANGED <<now, rewarderOf, deployed, deposits>>
  BY DEF Withdraw, WithdrawSucceeds, LpMoves
<1>3. amount[l][u] \in Nat /\ n = amount[l][u] - x /\ x <= amount[l][u]
  BY <1>1 DEF TypeOK, Withdraw, WithdrawSucceeds, MayWithdraw
<1>4. n \in Nat
  BY <1>3
<1> HIDE DEF n
<1>5. rewarder' \in [Rewarders -> RewarderState] /\ (CapIsKept => CapIsKept')
  BY <1>1, <1>2, <1>4, DebtCharged
<1>6. rewardBalance' \in [RewardAccount -> Nat] /\ paid' \in [Rewarders -> Nat]
  BY <1>1, <1>2, RewardPaid
<1>7. /\ lpBalance' \in [LpTokens -> [StakeAccount -> Nat]]
      /\ lpBalance'[l][Chef] = lpBalance[l][Chef] - x
      /\ \A k \in LpTokens : k # l => lpBalance'[k] = lpBalance[k]
  BY <1>1, <1>2, LpMoved
<1>8. /\ amount' \in [LpTokens -> [Users -> Nat]] /\ totalStaked' \in [LpTokens -> Nat]
      /\ \A k \in LpTokens : totalStaked'[k] = SumFunctionOnSet(amount'[k], Users)
      /\ totalStaked'[l] = totalStaked[l] - amount[l][u] + n
      /\ \A k \in LpTokens : k # l => totalStaked'[k] = totalStaked[k]
  BY <1>1, <1>2, <1>4, StakeSet
<1>9. withdrawals' \in [Rewarders -> Nat]
  BY <1>1, <1>2, PoolFacts, Counted DEF TypeOK
<1>10. TypeOK'
  BY <1>1, <1>2, <1>5, <1>6, <1>7, <1>8, <1>9 DEF TypeOK
<1>11. \A k \in LpTokens : /\ totalStaked[k] \in Nat /\ lpBalance[k][Chef] \in Nat
                           /\ totalStaked[k] <= lpBalance[k][Chef]
  BY <1>1 DEF TypeOK, StakesAreBacked
<1>12. \A k \in LpTokens : totalStaked'[k] <= lpBalance'[k][Chef]
  <2>1. totalStaked'[l] = totalStaked[l] - x
    BY <1>3, <1>8, <1>11
  <2>2. ASSUME NEW k \in LpTokens PROVE totalStaked'[k] <= lpBalance'[k][Chef]
    <3>1. CASE k = l
      BY <1>7, <1>11, <2>1, <3>1
    <3>2. CASE k # l
      BY <1>7, <1>8, <1>11, <3>2
    <3>3. QED
      BY <3>1, <3>2
  <2>3. QED
    BY <2>2
<1>13. StakesAreBacked'
  BY <1>8, <1>12 DEF StakesAreBacked
<1>14. QED
  BY <1>5, <1>10, <1>13 DEF StepIsSafe, IInv

LEMMA HarvestIsSafe ==
  ASSUME IInv, NEW l \in LpTokens, NEW u \in Users, Harvest(u, l)
  PROVE  StepIsSafe
<1>1. /\ TypeOK /\ PoolAdded(l) /\ PayReward(u, l) /\ ChargeDebt(u, l, amount[l][u])
      /\ UNCHANGED <<now, chefVars, deployed, lpBalance, deposits, withdrawals>>
  BY DEF IInv, Harvest
<1>2. amount[l][u] \in Nat
  BY <1>1 DEF TypeOK
<1>3. rewarder' \in [Rewarders -> RewarderState] /\ (CapIsKept => CapIsKept')
  BY <1>1, <1>2, DebtCharged
<1>4. rewardBalance' \in [RewardAccount -> Nat] /\ paid' \in [Rewarders -> Nat]
  BY <1>1, RewardPaid
<1>5. TypeOK'
  BY <1>1, <1>3, <1>4 DEF TypeOK, chefVars
<1>6. StakesAreBacked'
  BY <1>1, StakesKept DEF IInv, chefVars
<1>7. QED
  BY <1>3, <1>5, <1>6 DEF StepIsSafe, IInv

LEMMA FundRewarderIsSafe ==
  ASSUME IInv, NEW w \in Rewarders, NEW x \in Nat, FundRewarder(w, x)
  PROVE  StepIsSafe
<1>1. /\ TypeOK /\ rewardBalance \in [RewardAccount -> Nat] /\ x <= rewardBalance[Treasury]
      /\ rewardBalance' = Transfer(rewardBalance, Treasury, w, x)
      /\ UNCHANGED <<now, chefVars, rewarder, deployed, lpBalance, historyVars>>
      /\ Treasury \in RewardAccount /\ w \in RewardAccount
  BY DEF IInv, FundRewarder, TypeOK, RewardAccount, Covers
<1>2. Debit(rewardBalance, Treasury, x) \in [RewardAccount -> Nat]
  BY <1>1 DEF Debit
<1>3. rewardBalance' \in [RewardAccount -> Nat]
  BY <1>1, <1>2 DEF Transfer, Credit
<1>4. TypeOK'
  BY <1>1, <1>3 DEF TypeOK, chefVars, historyVars
<1>5. StakesAreBacked'
  BY <1>1, StakesKept DEF IInv, chefVars
<1>6. CapIsKept => CapIsKept'
  BY <1>1 DEF CapIsKept
<1>7. QED
  BY <1>4, <1>5, <1>6 DEF StepIsSafe, IInv

LEMMA SendLpIsSafe ==
  ASSUME IInv, NEW l \in LpTokens, NEW u \in Users, NEW to \in StakeAccount,
         NEW x \in Nat, SendLp(u, l, to, x)
  PROVE  StepIsSafe
<1>1. /\ TypeOK /\ StakesAreBacked /\ u \in StakeAccount /\ Chef \in StakeAccount /\ u # Chef
      /\ LpMoves(l, u, to, x)
      /\ UNCHANGED <<now, chefVars, rewarder, deployed, rewardBalance, historyVars>>
  BY ChefAssumption DEF IInv, SendLp, StakeAccount, LpMoves
<1>2. /\ lpBalance' \in [LpTokens -> [StakeAccount -> Nat]]
      /\ \A k \in LpTokens : k # l => lpBalance'[k] = lpBalance[k]
      /\ u # to => lpBalance'[l][to] = lpBalance[l][to] + x
      /\ \A c \in StakeAccount \ {u, to} : lpBalance'[l][c] = lpBalance[l][c]
  BY <1>1, LpMoved
<1>3. TypeOK'
  BY <1>1, <1>2 DEF TypeOK, chefVars, historyVars
<1>4. \A k \in LpTokens : totalStaked[k] \in Nat /\ lpBalance[k][Chef] \in Nat
  BY <1>1 DEF TypeOK
<1>5. \A k \in LpTokens : lpBalance[k][Chef] <= lpBalance'[k][Chef]
  <2>1. lpBalance[l][Chef] <= lpBalance'[l][Chef]
    BY <1>1, <1>2, <1>4
  <2>2. QED
    BY <1>2, <1>4, <2>1
<1>6. \A k \in LpTokens : lpBalance'[k][Chef] \in Nat
  BY <1>1, <1>2
<1>7. StakesAreBacked'
  BY <1>1, <1>4, <1>5, <1>6 DEF StakesAreBacked, chefVars
<1>8. CapIsKept => CapIsKept'
  BY <1>1 DEF CapIsKept
<1>9. QED
  BY <1>3, <1>7, <1>8 DEF StepIsSafe, IInv

LEMMA NextBlockIsSafe == ASSUME IInv, NextBlock PROVE StepIsSafe
<1>1. /\ now' \in 0 .. MaxTime
      /\ UNCHANGED <<chefVars, rewarder, deployed, tokenVars, historyVars>>
  BY ChefAssumption DEF NextBlock, IInv, TypeOK
<1>2. TypeOK'
  BY <1>1 DEF IInv, TypeOK, chefVars, tokenVars, historyVars
<1>3. StakesAreBacked'
  BY <1>1, StakesKept DEF IInv, chefVars, tokenVars
<1>4. CapIsKept => CapIsKept'
  BY <1>1 DEF CapIsKept
<1>5. QED
  BY <1>2, <1>3, <1>4 DEF StepIsSafe, IInv

LEMMA StutterIsSafe == ASSUME IInv, UNCHANGED vars PROVE StepIsSafe
BY DEF StepIsSafe, IInv, TypeOK, StakesAreBacked, CapIsKept,
       vars, chefVars, tokenVars, historyVars

LEMMA NextIsSafe == ASSUME IInv, [Next]_vars PROVE StepIsSafe
<1>1. SUFFICES ASSUME Next PROVE StepIsSafe
  BY StutterIsSafe
<1>2. \A x \in Amounts : x \in Nat
  BY ChefAssumption
<1>3. CASE NextBlock
  BY <1>3, NextBlockIsSafe
<1>4. ASSUME NEW w \in Rewarders, NEW rate \in RewardRates, NEW cap \in RewardCaps,
             \/ DeployRewarder(w, rate, cap)
             \/ \E l \in LpTokens : AddPoolWithRewarder(l, w, rate, cap)
      PROVE  StepIsSafe
  BY <1>4, DeployRewarderIsSafe, AddPoolWithRewarderIsSafe
<1>5. ASSUME NEW l \in LpTokens,
             \/ \E w \in Rewarders : Add(l, w)
             \/ \E rate \in RewardRates : SetPoolRewardRate(l, rate)
             \/ \E cap \in RewardCaps : SetPoolRewardCap(l, cap)
      PROVE  StepIsSafe
  BY <1>5, AddIsSafe, SetPoolRewardRateIsSafe, SetPoolRewardCapIsSafe
<1>6. ASSUME NEW l \in LpTokens, NEW u \in Users, Harvest(u, l) PROVE StepIsSafe
  BY <1>6, HarvestIsSafe
<1>7. ASSUME NEW l \in LpTokens, NEW u \in Users, NEW x \in Amounts,
             \/ Deposit(u, l, x) \/ Withdraw(u, l, x)
             \/ \E to \in StakeAccount : SendLp(u, l, to, x)
      PROVE  StepIsSafe
  BY <1>2, <1>7, DepositIsSafe, WithdrawIsSafe, SendLpIsSafe
<1>8. ASSUME NEW w \in Rewarders, NEW x \in Amounts, FundRewarder(w, x) PROVE StepIsSafe
  BY <1>2, <1>8, FundRewarderIsSafe
<1>9. QED
  BY <1>1, <1>3, <1>4, <1>5, <1>6, <1>7, <1>8 DEF Next

THEOREM Inductive == Spec => []IInv
<1>1. IInv /\ [Next]_vars => IInv'
  BY NextIsSafe DEF StepIsSafe
<1>2. QED
  BY <1>1, InitIsSafe, PTL DEF Spec

(* The widths of the rewarder's storage hold, and no balance, stake or     *)
(* total falls below zero.                                                 *)
THEOREM TypeCorrect == Spec => []TypeOK
<1>1. IInv => TypeOK
  BY DEF IInv
<1>2. QED
  BY <1>1, Inductive, PTL

(* The total that rewards are divided by is the sum of all stakes, and the *)
(* chef holds the LP for them, whatever the rewarders do.                  *)
THEOREM StakesBacked == Spec => []StakesAreBacked
<1>1. IInv => StakesAreBacked
  BY DEF IInv
<1>2. QED
  BY <1>1, Inductive, PTL

(* A cap that is never set below what is distributed holds, for any rate   *)
(* and time, even if what streams wraps around.                            *)
THEOREM CapHolds == ASSUME ~CapMayDropBelow PROVE Spec => []CapIsKept
<1>1. IInv /\ CapIsKept /\ [Next]_vars => CapIsKept'
  BY NextIsSafe DEF StepIsSafe
<1>2. QED
  BY <1>1, InitIsSafe, Inductive, PTL DEF Spec

-----------------------------------------------------------------------------
(* The view and the update. *)

LEMMA UnpaidDependsOn ==
  ASSUME NEW r, NEW q, NEW u, NEW n,
         r.accRewardPerShare = q.accRewardPerShare, r.rewardDebt[u] = q.rewardDebt[u]
  PROVE  Unpaid(r, u, n) = Unpaid(q, u, n)
BY DEF Unpaid, Earned

(* What an update with something staked adds to the accumulator, as        *)
(* pendingReward repeats it.                                               *)
Accrued(r, staked, t) ==
  IF t > r.lastUpdateTime THEN PerShare(RewardSince(r, t), staked) ELSE 0

LEMMA AccrualShown ==
  ASSUME NEW r \in RewarderState, NEW staked \in Nat \ {0}, NEW t \in 0 .. MaxTime
  PROVE  UpdatePool(r, staked, t).accRewardPerShare
           = Wrap256(r.accRewardPerShare + Accrued(r, staked, t))
<1>1. Wrap256(r.accRewardPerShare + 0) = r.accRewardPerShare
  <2>1. r.accRewardPerShare + 0 = r.accRewardPerShare /\ r.accRewardPerShare \in 0 .. MaxUint256
    BY RewarderFields
  <2>2. QED
    BY <2>1, WrapFacts
<1>2. CASE t <= r.lastUpdateTime
  <2>1. ~(t > r.lastUpdateTime)
    BY <1>2, RewarderFields
  <2>2. UpdatePool(r, staked, t) = r
    BY <1>2, <2>1 DEF UpdatePool
  <2>3. Accrued(r, staked, t) = 0
    BY <2>1 DEF Accrued
  <2>4. QED
    BY <1>1, <2>2, <2>3
<1>3. CASE t > r.lastUpdateTime
  <2>1. ~(t <= r.lastUpdateTime) /\ staked # 0 /\ staked > 0
    BY <1>3, RewarderFields
  <2>2. UpdatePool(r, staked, t) = IF Exhausted(r, t) THEN r ELSE Accrue(r, staked, t)
    BY <1>3, <2>1 DEF UpdatePool
  <2>3. Accrued(r, staked, t) = PerShare(RewardSince(r, t), staked)
    BY <1>3 DEF Accrued
  <2>4. CASE Exhausted(r, t)
    <3>1. RewardSince(r, t) = 0
      BY <2>4 DEF Exhausted, RewardSince
    <3>2. Accrued(r, staked, t) = 0
      BY <2>3, <3>1, PerShareType, RewarderAssumption
    <3>3. QED
      BY <1>1, <2>2, <2>4, <3>2
  <2>5. CASE ~Exhausted(r, t)
    <3> DEFINE acc == Wrap256(r.accRewardPerShare + PerShare(RewardSince(r, t), staked))
               distributed == Wrap256(r.rewardDistributed + RewardSince(r, t))
    <3>1. Accrue(r, staked, t) = [r EXCEPT !.accRewardPerShare = acc,
                                           !.rewardDistributed = distributed,
                                           !.lastUpdateTime = t]
      BY DEF Accrue
    <3>2. acc = Wrap256(r.accRewardPerShare + Accrued(r, staked, t))
      BY <2>3
    <3> HIDE DEF acc, distributed
    <3>3. Accrue(r, staked, t).accRewardPerShare = acc
      BY <3>1 DEF RewarderState
    <3>4. QED
      BY <2>2, <2>5, <3>2, <3>3
  <2>6. QED
    BY <2>4, <2>5
<1>4. QED
  BY <1>2, <1>3, RewarderFields

LEMMA PendingShown ==
  ASSUME NEW r \in RewarderState, NEW u \in Users, NEW n \in Nat \ {0},
         NEW staked \in Nat \ {0}, NEW t \in 0 .. MaxTime
  PROVE  PendingReward(r, u, n, staked, t) = Unpaid(UpdatePool(r, staked, t), u, n)
<1> DEFINE acc == Wrap256(r.accRewardPerShare + Accrued(r, staked, t))
           q == [r EXCEPT !.accRewardPerShare = acc]
<1>1. PendingReward(r, u, n, staked, t) = Unpaid(q, u, n)
  BY DEF PendingReward, Accrued
<1> HIDE DEF acc
<1>2. q.accRewardPerShare = acc /\ q.rewardDebt = r.rewardDebt
  BY DEF RewarderState
<1>3. UpdatePool(r, staked, t).accRewardPerShare = acc
  BY AccrualShown DEF acc
<1>4. UpdatePool(r, staked, t).rewardDebt = r.rewardDebt
  BY UpdateFacts
<1> HIDE DEF q
<1>5. QED
  BY <1>1, <1>2, <1>3, <1>4, UnpaidDependsOn

LEMMA StakeInTotal ==
  ASSUME IInv, NEW l \in LpTokens, NEW u \in Users
  PROVE  amount[l][u] \in Nat /\ totalStaked[l] \in Nat /\ amount[l][u] <= totalStaked[l]
<1>1. amount[l] \in [Users -> Nat] /\ IsFiniteSet(Users)
      /\ totalStaked[l] = SumFunctionOnSet(amount[l], Users)
  BY ChefAssumption DEF IInv, TypeOK, StakesAreBacked
<1>2. QED
  BY <1>1, SumBounds

HarvestStep ==
  \A l \in LpTokens, u \in Users :
    Harvest(u, l) =>
      LET shown == PendingRewards(l, u)
          left  == rewardBalance[rewarderOf[l]]
      IN  rewardBalance'[u] - rewardBalance[u] = (IF left < shown THEN left ELSE shown)

LEMMA HarvestPays == ASSUME IInv PROVE HarvestStep
<1>1. SUFFICES ASSUME NEW l \in LpTokens, NEW u \in Users, Harvest(u, l)
               PROVE  rewardBalance'[u] - rewardBalance[u]
                        = IF rewardBalance[rewarderOf[l]] < PendingRewards(l, u)
                            THEN rewardBalance[rewarderOf[l]] ELSE PendingRewards(l, u)
  BY DEF HarvestStep
<1> DEFINE w == rewarderOf[l]
           x == Payment(u, l)
<1>2. /\ TypeOK /\ PoolAdded(l) /\ amount[l][u] > 0
      /\ rewardBalance' = Transfer(rewardBalance, w, u, x)
  BY <1>1 DEF IInv, Harvest, PayReward
<1>3. amount[l][u] \in Nat \ {0} /\ totalStaked[l] \in Nat \ {0}
  BY <1>2, StakeInTotal
<1>4. PendingRewards(l, u) = Unpaid(Updated(l), u, amount[l][u])
  BY <1>2, <1>3, PoolFacts, PendingShown DEF PendingRewards, Updated
<1>5. x = IF rewardBalance[w] < PendingRewards(l, u)
            THEN rewardBalance[w] ELSE PendingRewards(l, u)
  BY <1>4 DEF Payment
<1>6. x \in Nat /\ u \in RewardAccount /\ w \in RewardAccount /\ u # w
  BY <1>2, PaymentType, PoolFacts, ChefAssumption DEF RewardAccount
<1>7. rewardBalance \in [RewardAccount -> Nat]
  BY <1>2 DEF TypeOK
<1> HIDE DEF w, x
<1>8. rewardBalance'[u] = rewardBalance[u] + x
  BY <1>2, <1>6, <1>7 DEF Transfer, Credit, Debit
<1>9. rewardBalance'[u] - rewardBalance[u] = x
  BY <1>6, <1>7, <1>8
<1>10. QED
  BY <1>5, <1>9 DEF w

(* pendingRewards, which pages show, is what a harvest then pays: the view *)
(* repeats the update's branches, so this must hold at the cap, in a pool  *)
(* just emptied and within a block, with any rate and any rounding.        *)
THEOREM HarvestShown == Spec => HarvestPaysWhatIsShown
<1>1. IInv /\ [Next]_vars => [HarvestStep]_vars
  BY HarvestPays
<1>2. HarvestPaysWhatIsShown <=> [][HarvestStep]_vars
  BY PTL DEF HarvestPaysWhatIsShown, HarvestStep
<1>3. QED
  BY <1>1, <1>2, Inductive, PTL DEF Spec

-----------------------------------------------------------------------------
(* Every staker can leave. LP is staked only in added pools, a pool is     *)
(* never removed, and a payment is never more than the rewarder holds.     *)
UnaddedIsEmpty == \A l \in LpTokens : ~PoolAdded(l) => totalStaked[l] = 0

LEMMA UnaddedIsEmptyKept ==
  ASSUME IInv, UnaddedIsEmpty, [Next]_vars
  PROVE  UnaddedIsEmpty'
<1>1. ASSUME UNCHANGED <<rewarderOf, totalStaked>> PROVE UnaddedIsEmpty'
  BY <1>1 DEF UnaddedIsEmpty, PoolAdded
<1>2. ASSUME NEW l \in LpTokens, NEW w \in Rewarders,
             rewarderOf' = [rewarderOf EXCEPT ![l] = w], totalStaked' = totalStaked
      PROVE  UnaddedIsEmpty'
  <2>1. \A k \in LpTokens : PoolAdded(k) => PoolAdded(k)'
    BY <1>2, ChefAssumption DEF PoolAdded, IInv, TypeOK
  <2>2. QED
    BY <1>2, <2>1 DEF UnaddedIsEmpty
<1>3. ASSUME NEW l \in LpTokens, NEW u \in Users, NEW n, PoolAdded(l), Stake(u, l, n),
             rewarderOf' = rewarderOf
      PROVE  UnaddedIsEmpty'
  BY <1>3 DEF UnaddedIsEmpty, PoolAdded, Stake, IInv, TypeOK
<1>4. ASSUME NEW w \in Rewarders, NEW rate \in RewardRates, NEW cap \in RewardCaps,
             \/ DeployRewarder(w, rate, cap)
             \/ \E l \in LpTokens : AddPoolWithRewarder(l, w, rate, cap)
      PROVE  UnaddedIsEmpty'
  BY <1>1, <1>2, <1>4 DEF DeployRewarder, AddPoolWithRewarder, chefVars
<1>5. ASSUME NEW l \in LpTokens, NEW w \in Rewarders, Add(l, w) PROVE UnaddedIsEmpty'
  BY <1>2, <1>5 DEF Add
<1>6. ASSUME NEW l \in LpTokens,
             \/ \E rate \in RewardRates : SetPoolRewardRate(l, rate)
             \/ \E cap \in RewardCaps : SetPoolRewardCap(l, cap)
             \/ \E u \in Users : Harvest(u, l)
      PROVE  UnaddedIsEmpty'
  BY <1>1, <1>6 DEF SetPoolRewardRate, SetPoolRewardCap, Harvest, chefVars
<1>7. ASSUME NEW l \in LpTokens, NEW u \in Users, NEW x \in Amounts,
             \/ Deposit(u, l, x) \/ Withdraw(u, l, x)
             \/ \E to \in StakeAccount : SendLp(u, l, to, x)
      PROVE  UnaddedIsEmpty'
  <2>1. CASE Deposit(u, l, x)
    BY <1>3, <2>1 DEF Deposit
  <2>2. CASE Withdraw(u, l, x)
    BY <1>3, <2>2 DEF Withdraw, WithdrawSucceeds
  <2>3. CASE \E to \in StakeAccount : SendLp(u, l, to, x)
    BY <1>1, <2>3 DEF SendLp, chefVars
  <2>4. QED
    BY <1>7, <2>1, <2>2, <2>3
<1>8. ASSUME \/ NextBlock \/ UNCHANGED vars
             \/ \E w \in Rewarders, x \in Amounts : FundRewarder(w, x)
      PROVE  UnaddedIsEmpty'
  BY <1>1, <1>8 DEF NextBlock, FundRewarder, vars, chefVars
<1>9. QED
  BY <1>4, <1>5, <1>6, <1>7, <1>8 DEF Next

LEMMA StakeWithdrawable ==
  ASSUME IInv, UnaddedIsEmpty PROVE StakersCanExit
<1>1. SUFFICES ASSUME NEW l \in LpTokens, NEW u \in Users, amount[l][u] > 0
               PROVE  WithdrawSucceeds(u, l, amount[l][u])
  BY DEF StakersCanExit
<1>2. /\ amount[l][u] \in Nat /\ totalStaked[l] \in Nat
      /\ amount[l][u] <= totalStaked[l]
  BY StakeInTotal
<1>3. PoolAdded(l)
  BY <1>1, <1>2 DEF UnaddedIsEmpty
<1>4. Covers(rewardBalance, rewarderOf[l], Payment(u, l))
  BY <1>3, PaymentType DEF Covers, IInv
<1>5. Covers(lpBalance[l], Chef, amount[l][u])
  <2>1. totalStaked[l] <= lpBalance[l][Chef] /\ lpBalance[l][Chef] \in Nat
    BY DEF IInv, TypeOK, StakesAreBacked, StakeAccount
  <2>2. QED
    BY <1>2, <2>1 DEF Covers
<1>6. QED
  BY <1>1, <1>2, <1>3, <1>4, <1>5 DEF WithdrawSucceeds, MayWithdraw

(* Nothing anybody did, no empty rewarder, no lowered cap and no wrapped   *)
(* reward makes withdraw of the whole stake revert.                        *)
THEOREM StakersExit == Spec => []StakersCanExit
<1>1. Init => UnaddedIsEmpty
  BY DEF Init, UnaddedIsEmpty
<1>2. IInv /\ UnaddedIsEmpty /\ [Next]_vars => UnaddedIsEmpty'
  BY UnaddedIsEmptyKept
<1>3. IInv /\ UnaddedIsEmpty => StakersCanExit
  BY StakeWithdrawable
<1>4. QED
  BY <1>1, <1>2, <1>3, Inductive, PTL DEF Spec

-----------------------------------------------------------------------------
(* Stakers and each other.  Two assumptions: no rewarder serves two pools, *)
(* and a cap with all that streams on top of it is a 256-bit value.        *)

RewardsFit ==
  \A rate \in RewardRates \cup {0}, cap \in RewardCaps \cup {0} :
    cap + MaxTime * rate <= MaxUint256

NotShared ==
  \A k, l \in LpTokens :
    k # l /\ PoolAdded(k) /\ PoolAdded(l) => rewarderOf[k] # rewarderOf[l]

LEMMA NotSharedKept ==
  ASSUME ~RewardersAreShared, IInv, NotShared, [Next]_vars
  PROVE  NotShared'
<1>1. SUFFICES ASSUME rewarderOf' # rewarderOf PROVE NotShared'
  BY DEF NotShared, PoolAdded
<1>2. ASSUME NEW l \in LpTokens, NEW w \in Rewarders,
             rewarderOf' = [rewarderOf EXCEPT ![l] = w],
             \A k \in LpTokens : rewarderOf[k] # w
      PROVE  NotShared'
  <2>1. rewarderOf'[l] = w /\ \A k \in LpTokens : k # l => rewarderOf'[k] = rewarderOf[k]
    BY <1>2 DEF IInv, TypeOK
  <2>2. QED
    BY <1>2, <2>1 DEF NotShared, PoolAdded
<1>3. \A k \in LpTokens : PoolAdded(k) => rewarderOf[k] \in deployed
  BY PoolFacts DEF IInv
<1>4. ASSUME NEW l \in LpTokens, NEW w \in Rewarders, NEW rate \in RewardRates,
             NEW cap \in RewardCaps, AddPoolWithRewarder(l, w, rate, cap)
      PROVE  NotShared'
  <2>1. rewarderOf' = [rewarderOf EXCEPT ![l] = w] /\ w \notin deployed
    BY <1>4 DEF AddPoolWithRewarder, Deploy
  <2>2. \A k \in LpTokens : rewarderOf[k] # w
    BY <1>3, <2>1, ChefAssumption DEF PoolAdded
  <2>3. QED
    BY <1>2, <2>1, <2>2
<1>5. ASSUME NEW l \in LpTokens, NEW w \in Rewarders, Add(l, w) PROVE NotShared'
  BY <1>2, <1>5 DEF Add
<1>6. ASSUME NEW l \in LpTokens,
             \/ \E rate \in RewardRates : SetPoolRewardRate(l, rate)
             \/ \E cap \in RewardCaps : SetPoolRewardCap(l, cap)
             \/ \E u \in Users : Harvest(u, l)
      PROVE  FALSE
  BY <1>1, <1>6 DEF SetPoolRewardRate, SetPoolRewardCap, Harvest, chefVars
<1>7. ASSUME NEW l \in LpTokens, NEW u \in Users, NEW x \in Amounts,
             \/ Deposit(u, l, x) \/ Withdraw(u, l, x)
             \/ \E to \in StakeAccount : SendLp(u, l, to, x)
      PROVE  FALSE
  BY <1>1, <1>7 DEF Deposit, Withdraw, SendLp, chefVars
<1>8. ASSUME NEW w \in Rewarders,
             \/ \E rate \in RewardRates, cap \in RewardCaps : DeployRewarder(w, rate, cap)
             \/ \E x \in Amounts : FundRewarder(w, x)
      PROVE  FALSE
  BY <1>1, <1>8 DEF DeployRewarder, FundRewarder, chefVars
<1>9. ASSUME NextBlock \/ UNCHANGED vars PROVE FALSE
  BY <1>1, <1>9 DEF NextBlock, vars, chefVars
<1>10. QED
  BY <1>4, <1>5, <1>6, <1>7, <1>8, <1>9 DEF Next

(* The storage q is r after an update, with any debts and any new rate.    *)
IsRefreshed(q, r, staked, t) ==
  /\ q.accRewardPerShare = UpdatePool(r, staked, t).accRewardPerShare
  /\ q.rewardDistributed = UpdatePool(r, staked, t).rewardDistributed
  /\ q.lastUpdateTime = UpdatePool(r, staked, t).lastUpdateTime

LEMMA CapReached ==
  ASSUME NEW r \in RewarderState, LeftUnderCap(r) = 0
  PROVE  r.rewardDistributed = r.totalRewardCap
<1>1. r.totalRewardCap \in 0 .. MaxUint256 /\ r.rewardDistributed \in 0 .. MaxUint256
      /\ MaxUint256 \in Nat
  BY RewarderFields, RewarderAssumption
<1>2. (r.totalRewardCap - r.rewardDistributed) % (MaxUint256 + 1) = 0
  BY DEF LeftUnderCap, Wrap256
<1> DEFINE d == r.totalRewardCap - r.rewardDistributed
<1>3. d \in Int /\ -MaxUint256 <= d /\ d <= MaxUint256 /\ d % (MaxUint256 + 1) = 0
  BY <1>1, <1>2
<1> HIDE DEF d
<1>4. d = 0
  <2> DEFINE m == MaxUint256 + 1
             k == d \div m
  <2>1. d = m * k /\ k \in Int
    BY <1>1, <1>3
  <2>2. m \in Nat \ {0} /\ d < m /\ -m < d
    BY <1>1, <1>3
  <2> HIDE DEF m, k
  <2>3. ~(k >= 1) /\ ~(k <= -1)
    <3>1. ASSUME k >= 1 PROVE m * k >= m
      BY <2>1, <2>2, <3>1
    <3>2. ASSUME k <= -1 PROVE m * k <= -m
      BY <2>1, <2>2, <3>2
    <3>3. QED
      BY <1>3, <2>1, <2>2, <3>1, <3>2
  <2>4. QED
    BY <2>1, <2>2, <2>3
<1>5. QED
  BY <1>1, <1>4 DEF d

(* After an update there is nothing left to accrue in the same block: not  *)
(* even for a pool its cap has closed, whose time stays behind.            *)
LEMMA NothingLeftToAccrue ==
  ASSUME RewardsFit, NEW r \in RewarderState, NEW q \in RewarderState,
         NEW staked \in Nat \ {0}, NEW later \in Nat \ {0}, NEW t \in 0 .. MaxTime,
         IsRefreshed(q, r, staked, t), q.totalRewardCap = r.totalRewardCap
  PROVE  Accrued(q, later, t) = 0
<1>1. CASE ~(t > q.lastUpdateTime)
  BY <1>1 DEF Accrued
<1>2. CASE t > q.lastUpdateTime
  <2>1. t > r.lastUpdateTime /\ Exhausted(r, t)
    <3>1. ASSUME ~(t > r.lastUpdateTime) PROVE FALSE
      <4>1. t <= r.lastUpdateTime
        BY <3>1, RewarderFields
      <4>2. UpdatePool(r, staked, t) = r
        BY <3>1, <4>1 DEF UpdatePool
      <4>3. QED
        BY <1>2, <3>1, <4>2 DEF IsRefreshed
    <3>2. ASSUME t > r.lastUpdateTime, ~Exhausted(r, t) PROVE FALSE
      <4>1. ~(t <= r.lastUpdateTime) /\ staked # 0 /\ staked > 0
        BY <3>2, RewarderFields
      <4>2. UpdatePool(r, staked, t) = Accrue(r, staked, t)
        BY <3>2, <4>1 DEF UpdatePool
      <4>3. Accrue(r, staked, t).lastUpdateTime = t
        BY DEF Accrue, RewarderState
      <4>4. q.lastUpdateTime = t
        BY <4>2, <4>3 DEF IsRefreshed
      <4>5. QED
        BY <1>2, <4>4
    <3>3. QED
      BY <3>1, <3>2
  <2>2. UpdatePool(r, staked, t) = r
    <3>1. ~(t <= r.lastUpdateTime) /\ staked # 0 /\ staked > 0
      BY <2>1, RewarderFields
    <3>2. QED
      BY <2>1, <3>1 DEF UpdatePool
  <2>3. r.rewardDistributed = r.totalRewardCap /\ r.totalRewardCap > 0
    BY <2>1, CapReached DEF Exhausted, HitsCap
  <2>4. q.rewardDistributed = q.totalRewardCap /\ q.totalRewardCap > 0
    BY <2>2, <2>3 DEF IsRefreshed
  <2> DEFINE stream == (t - q.lastUpdateTime) * q.rewardPerSecond
  <2>5. /\ stream \in Nat /\ q.totalRewardCap \in Nat
        /\ q.totalRewardCap + stream <= MaxUint256
    <3>1. /\ q.rewardPerSecond \in RewardRates \cup {0}
          /\ q.totalRewardCap \in RewardCaps \cup {0}
      BY DEF RewarderState
    <3>2. /\ q.rewardPerSecond \in Nat /\ q.totalRewardCap \in Nat
          /\ t - q.lastUpdateTime \in Nat /\ t - q.lastUpdateTime <= MaxTime
          /\ MaxTime \in Nat
      BY <1>2, RewarderFields, ChefAssumption
    <3>3. stream \in Nat /\ stream <= MaxTime * q.rewardPerSecond
          /\ MaxTime * q.rewardPerSecond \in Nat
      BY <3>2
    <3>4. q.totalRewardCap + MaxTime * q.rewardPerSecond <= MaxUint256
      BY <3>1 DEF RewardsFit
    <3> HIDE DEF stream
    <3>5. QED
      BY <3>2, <3>3, <3>4, RewarderAssumption
  <2>6. Streamed(q, t) = stream
    <3>1. stream \in 0 .. MaxUint256
      BY <2>5, RewarderAssumption
    <3>2. QED
      BY <3>1, WrapFacts DEF Streamed
  <2> HIDE DEF stream
  <2>7. Wrap256(q.rewardDistributed + stream) = q.totalRewardCap + stream
    <3>1. q.totalRewardCap + stream \in 0 .. MaxUint256
      BY <2>5, RewarderAssumption
    <3>2. QED
      BY <2>4, <3>1, WrapFacts
  <2>8. HitsCap(q, t) <=> q.totalRewardCap + stream > q.totalRewardCap
    BY <2>4, <2>6, <2>7 DEF HitsCap
  <2>9. LeftUnderCap(q) = 0
    <3>1. q.totalRewardCap - q.rewardDistributed = 0 /\ 0 \in 0 .. MaxUint256
      BY <2>4, <2>5, RewarderAssumption
    <3>2. QED
      BY <3>1, WrapFacts DEF LeftUnderCap
  <2>10. RewardSince(q, t) = 0
    BY <2>5, <2>6, <2>8, <2>9 DEF RewardSince
  <2>11. QED
    BY <2>10, PerShareType, RewarderAssumption DEF Accrued
<1>3. QED
  BY <1>1, <1>2

LEMMA PendingUnchanged ==
  ASSUME RewardsFit, NEW r \in RewarderState, NEW q \in RewarderState,
         NEW u \in Users, NEW n \in Nat \ {0},
         NEW staked \in Nat \ {0}, NEW later \in Nat \ {0}, NEW t \in 0 .. MaxTime,
         IsRefreshed(q, r, staked, t), q.totalRewardCap = r.totalRewardCap,
         q.rewardDebt[u] = r.rewardDebt[u]
  PROVE  PendingReward(q, u, n, later, t) = PendingReward(r, u, n, staked, t)
<1>1. /\ PendingReward(q, u, n, later, t) = Unpaid(UpdatePool(q, later, t), u, n)
      /\ PendingReward(r, u, n, staked, t) = Unpaid(UpdatePool(r, staked, t), u, n)
  BY PendingShown
<1>2. UpdatePool(q, later, t).accRewardPerShare = q.accRewardPerShare
  <2>1. UpdatePool(q, later, t).accRewardPerShare = Wrap256(q.accRewardPerShare + 0)
    BY AccrualShown, NothingLeftToAccrue
  <2>2. q.accRewardPerShare + 0 = q.accRewardPerShare /\ q.accRewardPerShare \in 0 .. MaxUint256
    BY RewarderFields
  <2>3. QED
    BY <2>1, <2>2, WrapFacts
<1>3. UpdatePool(q, later, t).accRewardPerShare = UpdatePool(r, staked, t).accRewardPerShare
  BY <1>2 DEF IsRefreshed
<1>4. UpdatePool(q, later, t).rewardDebt[u] = UpdatePool(r, staked, t).rewardDebt[u]
  BY UpdateFacts
<1>5. QED
  BY <1>1, <1>3, <1>4, UnpaidDependsOn

(* A step in the same block leaves a pool's rewarder and total alone, or   *)
(* brings its rewarder up to date.                                         *)
PoolKept(l) ==
  rewarder'[rewarderOf[l]] = rewarder[rewarderOf[l]] /\ totalStaked'[l] = totalStaked[l]
PoolRefreshed(l) ==
  IsRefreshed(rewarder'[rewarderOf[l]], rewarder[rewarderOf[l]], totalStaked[l], now)

LEMMA CallTouchesPool ==
  ASSUME IInv, NotShared, NEW l \in LpTokens, NEW k \in LpTokens,
         PoolAdded(l), PoolAdded(k), NEW r,
         rewarder' = [rewarder EXCEPT ![rewarderOf[k]] = r],
         IsRefreshed(r, rewarder[rewarderOf[k]], totalStaked[k], now),
         k # l => totalStaked'[l] = totalStaked[l]
  PROVE  PoolKept(l) \/ PoolRefreshed(l)
<1>1. /\ rewarder \in [Rewarders -> RewarderState]
      /\ rewarderOf[l] \in Rewarders /\ rewarderOf[k] \in Rewarders
  BY PoolFacts DEF IInv, TypeOK
<1>2. CASE k = l
  BY <1>1, <1>2 DEF PoolRefreshed
<1>3. CASE k # l
  <2>1. rewarderOf[k] # rewarderOf[l]
    BY <1>3 DEF NotShared
  <2>2. QED
    BY <1>1, <1>3, <2>1 DEF PoolKept
<1>4. QED
  BY <1>2, <1>3

LEMMA ChargeRefreshes ==
  ASSUME TypeOK, NEW k \in LpTokens, PoolAdded(k), NEW u \in Users, NEW n
  PROVE  IsRefreshed(SettleDebt(Updated(k), u, n), rewarder[rewarderOf[k]], totalStaked[k], now)
<1>1. Updated(k) \in RewarderState
  BY PoolFacts
<1>2. Updated(k) = UpdatePool(rewarder[rewarderOf[k]], totalStaked[k], now)
  BY DEF Updated
<1>3. /\ SettleDebt(Updated(k), u, n).accRewardPerShare = Updated(k).accRewardPerShare
      /\ SettleDebt(Updated(k), u, n).rewardDistributed = Updated(k).rewardDistributed
      /\ SettleDebt(Updated(k), u, n).lastUpdateTime = Updated(k).lastUpdateTime
  BY <1>1 DEF SettleDebt, RewarderState
<1>4. QED
  BY <1>2, <1>3 DEF IsRefreshed

LEMMA StepTouchesPool ==
  ASSUME IInv, NotShared, Next, NEW l \in LpTokens, PoolAdded(l), now' = now
  PROVE  /\ rewarderOf'[l] = rewarderOf[l]
         /\ PoolKept(l) \/ PoolRefreshed(l)
<1> USE DEF IInv
<1>1. /\ rewarderOf[l] \in Rewarders /\ rewarderOf[l] \in deployed
      /\ rewarder \in [Rewarders -> RewarderState]
      /\ rewarderOf \in [LpTokens -> deployed \cup {NoRewarder}]
      /\ totalStaked \in [LpTokens -> Nat]
  BY PoolFacts DEF TypeOK
<1>2. ASSUME NEW w \in Rewarders, NEW rate \in RewardRates, NEW cap \in RewardCaps,
             Deploy(w, rate, cap)
      PROVE  rewarder'[rewarderOf[l]] = rewarder[rewarderOf[l]]
  BY <1>1, <1>2 DEF Deploy
<1>3. ASSUME NEW w \in Rewarders, NEW rate \in RewardRates, NEW cap \in RewardCaps,
             DeployRewarder(w, rate, cap)
      PROVE  rewarderOf'[l] = rewarderOf[l] /\ PoolKept(l)
  BY <1>2, <1>3 DEF DeployRewarder, PoolKept, chefVars
<1>4. ASSUME NEW k \in LpTokens, NEW w \in Rewarders, NEW rate \in RewardRates,
             NEW cap \in RewardCaps, AddPoolWithRewarder(k, w, rate, cap)
      PROVE  rewarderOf'[l] = rewarderOf[l] /\ PoolKept(l)
  <2>1. k # l
    BY <1>4 DEF AddPoolWithRewarder
  <2>2. /\ Deploy(w, rate, cap) /\ rewarderOf' = [rewarderOf EXCEPT ![k] = w]
        /\ totalStaked' = totalStaked
    BY <1>4 DEF AddPoolWithRewarder
  <2>3. QED
    BY <1>1, <1>2, <2>1, <2>2 DEF PoolKept
<1>5. ASSUME NEW k \in LpTokens, NEW w \in Rewarders, Add(k, w)
      PROVE  rewarderOf'[l] = rewarderOf[l] /\ PoolKept(l)
  <2>1. k # l
    BY <1>5 DEF Add
  <2>2. /\ rewarderOf' = [rewarderOf EXCEPT ![k] = w]
        /\ totalStaked' = totalStaked /\ rewarder' = rewarder
    BY <1>5 DEF Add
  <2>3. QED
    BY <1>1, <2>1, <2>2 DEF PoolKept
<1>6. ASSUME NEW k \in LpTokens, NEW rate \in RewardRates, SetPoolRewardRate(k, rate)
      PROVE  rewarderOf'[l] = rewarderOf[l] /\ (PoolKept(l) \/ PoolRefreshed(l))
  <2> DEFINE r == [Updated(k) EXCEPT !.rewardPerSecond = rate]
  <2>1. /\ PoolAdded(k) /\ rewarder' = [rewarder EXCEPT ![rewarderOf[k]] = r]
        /\ rewarderOf' = rewarderOf /\ totalStaked' = totalStaked
    BY <1>6 DEF SetPoolRewardRate, chefVars
  <2>2. IsRefreshed(r, rewarder[rewarderOf[k]], totalStaked[k], now)
    BY <2>1, PoolFacts DEF IsRefreshed, RewarderState, Updated
  <2> HIDE DEF r
  <2>3. QED
    BY <2>1, <2>2, CallTouchesPool
<1>7. ASSUME NEW k \in LpTokens, NEW cap \in RewardCaps, SetPoolRewardCap(k, cap)
      PROVE  rewarderOf'[l] = rewarderOf[l] /\ (PoolKept(l) \/ PoolRefreshed(l))
  <2> DEFINE r == [Updated(k) EXCEPT !.totalRewardCap = cap]
  <2>1. /\ PoolAdded(k) /\ rewarder' = [rewarder EXCEPT ![rewarderOf[k]] = r]
        /\ rewarderOf' = rewarderOf /\ totalStaked' = totalStaked
    BY <1>7 DEF SetPoolRewardCap, chefVars
  <2>2. IsRefreshed(r, rewarder[rewarderOf[k]], totalStaked[k], now)
    BY <2>1, PoolFacts DEF IsRefreshed, RewarderState, Updated
  <2> HIDE DEF r
  <2>3. QED
    BY <2>1, <2>2, CallTouchesPool
<1>8. ASSUME NEW k \in LpTokens, NEW u \in Users, NEW n, PoolAdded(k), ChargeDebt(u, k, n),
             k # l => totalStaked'[l] = totalStaked[l]
      PROVE  PoolKept(l) \/ PoolRefreshed(l)
  <2> DEFINE r == SettleDebt(Updated(k), u, n)
  <2>1. rewarder' = [rewarder EXCEPT ![rewarderOf[k]] = r]
    BY <1>8 DEF ChargeDebt
  <2>2. IsRefreshed(r, rewarder[rewarderOf[k]], totalStaked[k], now)
    BY <1>8, ChargeRefreshes
  <2> HIDE DEF r
  <2>3. QED
    BY <1>8, <2>1, <2>2, CallTouchesPool
<1>9. ASSUME NEW k \in LpTokens, NEW u \in Users, NEW n, Stake(u, k, n)
      PROVE  k # l => totalStaked'[l] = totalStaked[l]
  BY <1>1, <1>9 DEF Stake
<1>10. ASSUME NEW k \in LpTokens, NEW u \in Users, NEW x \in Amounts,
              Deposit(u, k, x) \/ Withdraw(u, k, x)
       PROVE  rewarderOf'[l] = rewarderOf[l] /\ (PoolKept(l) \/ PoolRefreshed(l))
  <2>1. CASE Deposit(u, k, x)
    BY <1>8, <1>9, <2>1 DEF Deposit
  <2>2. CASE Withdraw(u, k, x)
    BY <1>8, <1>9, <2>2 DEF Withdraw, WithdrawSucceeds
  <2>3. QED
    BY <1>10, <2>1, <2>2
<1>11. ASSUME NEW k \in LpTokens, NEW u \in Users, Harvest(u, k)
       PROVE  rewarderOf'[l] = rewarderOf[l] /\ (PoolKept(l) \/ PoolRefreshed(l))
  BY <1>8, <1>11 DEF Harvest, chefVars
<1>12. ASSUME NEW k \in LpTokens, NEW u \in Users, NEW x \in Amounts, NEW to \in StakeAccount,
              SendLp(u, k, to, x)
       PROVE  rewarderOf'[l] = rewarderOf[l] /\ PoolKept(l)
  BY <1>12 DEF SendLp, chefVars, PoolKept
<1>13. ASSUME NEW w \in Rewarders, NEW x \in Amounts, FundRewarder(w, x)
       PROVE  rewarderOf'[l] = rewarderOf[l] /\ PoolKept(l)
  BY <1>13 DEF FundRewarder, chefVars, PoolKept
<1>14. ~NextBlock
  BY DEF NextBlock, TypeOK
<1>15. QED
  BY <1>3, <1>4, <1>5, <1>6, <1>7, <1>10, <1>11, <1>12, <1>13, <1>14 DEF Next

OthersStep ==
  \A l \in LpTokens, u \in Users :
    LET w == rewarderOf[l]
    IN  (/\ PoolAdded(l) /\ now' = now
         /\ amount'[l][u] = amount[l][u]
         /\ rewarder'[w].rewardDebt[u] = rewarder[w].rewardDebt[u]
         /\ rewarder'[w].totalRewardCap = rewarder[w].totalRewardCap)
        => PendingRewards(l, u)' = PendingRewards(l, u)

LEMMA OthersUnaffected ==
  ASSUME RewardsFit, IInv, IInv', NotShared, Next
  PROVE  OthersStep
<1>1. SUFFICES ASSUME NEW l \in LpTokens, NEW u \in Users,
                      PoolAdded(l), now' = now, amount'[l][u] = amount[l][u],
                      rewarder'[rewarderOf[l]].rewardDebt[u]
                        = rewarder[rewarderOf[l]].rewardDebt[u],
                      rewarder'[rewarderOf[l]].totalRewardCap
                        = rewarder[rewarderOf[l]].totalRewardCap
               PROVE  PendingRewards(l, u)' = PendingRewards(l, u)
  BY DEF OthersStep
<1> DEFINE w == rewarderOf[l]
           r == rewarder[w]
           q == rewarder'[w]
           n == amount[l][u]
<1>2. rewarderOf'[l] = w /\ (PoolKept(l) \/ PoolRefreshed(l))
  BY <1>1, StepTouchesPool
<1>3. /\ w \in Rewarders /\ r \in RewarderState /\ q \in RewarderState
      /\ now \in 0 .. MaxTime
  BY <1>1, PoolFacts DEF IInv, TypeOK
<1>4. /\ n \in Nat /\ totalStaked[l] \in Nat /\ n <= totalStaked[l]
      /\ totalStaked'[l] \in Nat /\ n <= totalStaked'[l]
  <2>1. n \in Nat /\ totalStaked[l] \in Nat /\ n <= totalStaked[l]
    BY StakeInTotal
  <2>2. amount'[l] \in [Users -> Nat] /\ IsFiniteSet(Users)
        /\ totalStaked'[l] = SumFunctionOnSet(amount'[l], Users)
    BY ChefAssumption DEF IInv, TypeOK, StakesAreBacked
  <2>3. totalStaked'[l] \in Nat /\ amount'[l][u] <= totalStaked'[l]
    BY <2>2, SumBounds
  <2>4. QED
    BY <1>1, <2>1, <2>3
<1>5. PendingRewards(l, u) = PendingReward(r, u, n, totalStaked[l], now)
  BY <1>1 DEF PendingRewards
<1>6. PendingRewards(l, u)' = PendingReward(q, u, n, totalStaked'[l], now)
  <2>1. w # NoRewarder
    BY <1>1 DEF PoolAdded
  <2>2. PendingRewards(l, u)'
          = IF rewarderOf'[l] # NoRewarder
              THEN PendingReward(rewarder'[rewarderOf'[l]], u, amount'[l][u],
                                 totalStaked'[l], now')
              ELSE 0
    BY DEF PendingRewards, PoolAdded
  <2>3. QED
    BY <1>1, <1>2, <2>1, <2>2
<1>7. PoolKept(l) => q = r /\ totalStaked'[l] = totalStaked[l]
  BY DEF PoolKept
<1>8. PoolRefreshed(l) => IsRefreshed(q, r, totalStaked[l], now)
  BY DEF PoolRefreshed
<1>9. q.totalRewardCap = r.totalRewardCap /\ q.rewardDebt[u] = r.rewardDebt[u]
  BY <1>1
<1> HIDE DEF w, r, q, n
<1>10. CASE n = 0
  BY <1>5, <1>6, <1>10 DEF PendingReward
<1>11. CASE n # 0 /\ PoolKept(l)
  BY <1>5, <1>6, <1>7, <1>11
<1>12. CASE n # 0 /\ PoolRefreshed(l)
  <2>1. n \in Nat \ {0} /\ totalStaked[l] \in Nat \ {0} /\ totalStaked'[l] \in Nat \ {0}
    BY <1>4, <1>12
  <2>2. PendingReward(q, u, n, totalStaked'[l], now)
          = PendingReward(r, u, n, totalStaked[l], now)
    BY <1>3, <1>8, <1>9, <1>12, <2>1, PendingUnchanged
  <2>3. QED
    BY <1>5, <1>6, <2>2
<1>13. QED
  BY <1>2, <1>10, <1>11, <1>12

(* Whoever deposits, withdraws or harvests, whatever rate is set, and      *)
(* whether or not the cap has closed the pool: in the same block nobody    *)
(* else's pending rewards move.                                            *)
THEOREM OthersKeepRewards ==
  ASSUME ~RewardersAreShared, RewardsFit
  PROVE  Spec => OthersKeepTheirRewards
<1>1. Init => NotShared
  BY DEF Init, NotShared, PoolAdded
<1>2. IInv /\ NotShared /\ [Next]_vars => NotShared'
  BY NotSharedKept
<1>3. IInv /\ IInv' /\ NotShared /\ [Next]_vars => [OthersStep]_vars
  BY OthersUnaffected
<1>4. OthersKeepTheirRewards <=> [][OthersStep]_vars
  BY PTL DEF OthersKeepTheirRewards, OthersStep
<1>5. QED
  BY <1>1, <1>2, <1>3, <1>4, Inductive, PTL DEF Spec

-----------------------------------------------------------------------------
(***************************************************************************)
(* No reward is promised twice: what a rewarder has paid and still owes is *)
(* never more than what it has distributed, up to one unit of rounding at  *)
(* each deposit and withdrawal.  For all stakers, pools, amounts and any   *)
(* order of calls, as long as no product wraps around.                     *)
(***************************************************************************)
LpTotal(l) == SumFunctionOnSet(LpSupply[l], Users)

(* B bounds the rates; with it the products of the rewarder fit their      *)
(* words.  In the contract Precision is 1e18 and a word has 256 bits.      *)
Fits(B) ==
  /\ \A rate \in RewardRates : rate <= B
  /\ \A l \in LpTokens : (Precision * (B * MaxTime)) * (LpTotal(l) + 1) <= MaxUint256

-----------------------------------------------------------------------------
(* Arithmetic. *)

LEMMA Monotone ==
  ASSUME NEW a \in Nat, NEW b \in Nat, NEW c \in Nat, NEW d \in Nat, a <= c, b <= d
  PROVE  a * b <= c * d /\ a * b \in Nat /\ c * d \in Nat
OBVIOUS

LEMMA Quotient ==
  ASSUME NEW a \in Nat, NEW b \in Nat \ {0}
  PROVE  /\ a \div b \in Nat
         /\ b * (a \div b) <= a
         /\ a < b * (a \div b) + b
         /\ a \div b <= a
OBVIOUS

LEMMA CancelFactor ==
  ASSUME NEW p \in Nat \ {0}, NEW a \in Nat, NEW b \in Nat, p * a <= p * b
  PROVE  a <= b
<1>1. SUFFICES ASSUME a >= b + 1 PROVE FALSE
  OBVIOUS
<1>2. p * a >= p * (b + 1)
  BY <1>1, Monotone
<1>3. p * (b + 1) = p * b + p
  OBVIOUS
<1>4. p * a \in Nat /\ p * b \in Nat
  OBVIOUS
<1>5. QED
  BY <1>2, <1>3, <1>4

(* One accrual of at most what streamed since the last. *)
LEMMA AccrualNumbers ==
  ASSUME NEW P \in Nat \ {0}, NEW B \in Nat, NEW M \in Nat, NEW t \in 0 .. M,
         NEW last \in 0 .. t, NEW rate \in 0 .. B, NEW S \in Nat \ {0},
         NEW dist \in Nat, NEW acc \in Nat, NEW R \in Nat,
         dist <= B * last, acc <= P * dist, R <= (t - last) * rate
  PROVE  /\ dist + R <= B * t /\ B * t <= B * M /\ B * M \in Nat
         /\ R * P <= P * (B * M) /\ B * M <= P * (B * M)
         /\ P * (dist + R) <= P * (B * M)
         /\ acc + (R * P) \div S <= P * (dist + R)
         /\ S * ((R * P) \div S) <= R * P
<1>1. /\ t \in Nat /\ last \in Nat /\ rate \in Nat /\ t - last \in Nat
      /\ t <= M /\ rate <= B
  OBVIOUS
<1>2. (t - last) * rate <= (t - last) * B
  BY <1>1, Monotone
<1>3. (t - last) * B + B * last = B * t
  BY <1>1
<1>4. B * last \in Nat /\ B * t \in Nat /\ (t - last) * B \in Nat /\ (t - last) * rate \in Nat
  BY <1>1, Monotone
<1>5. dist + R <= B * t
  BY <1>2, <1>3, <1>4
<1>6. B * t <= B * M /\ B * M \in Nat
  BY <1>1, Monotone
<1>7. dist + R \in Nat /\ dist + R <= B * M /\ R <= B * M
  BY <1>4, <1>5, <1>6
<1>8. P * (dist + R) <= P * (B * M) /\ P * R <= P * (B * M)
  BY <1>6, <1>7, Monotone
<1>9. R * P = P * R /\ R * P \in Nat /\ P * (dist + R) = P * dist + R * P /\ P * dist \in Nat
  OBVIOUS
<1>10. (R * P) \div S \in Nat /\ (R * P) \div S <= R * P /\ S * ((R * P) \div S) <= R * P
  BY <1>9, Quotient
<1>11. 1 * (B * M) <= P * (B * M)
  BY <1>6, Monotone
<1>12. B * M <= P * (B * M)
  BY <1>6, <1>11
<1>13. acc + (R * P) \div S <= P * (dist + R)
  BY <1>9, <1>10
<1>14. R * P <= P * (B * M)
  BY <1>8, <1>9
<1>15. QED
  BY <1>5, <1>6, <1>8, <1>10, <1>12, <1>13, <1>14

(* A debt settled at acc, from d to e, when the amount goes from a to n    *)
(* and x is paid; S is the total, D the sum of debts.                      *)
Settles(P, acc, a, n, d, x, c, S, D, before, after) ==
  /\ P \in Nat \ {0} /\ acc \in Nat /\ a \in Nat /\ n \in Nat /\ d \in Nat /\ x \in Nat
  /\ S \in Nat /\ D \in Nat /\ before \in Nat /\ after \in Nat
  /\ c \in {0, 1} /\ (c = 0 => n = a)
  /\ P * d <= a * acc /\ x <= (a * acc) \div P - d
  /\ a <= S /\ d <= D
  /\ P * before + S * acc <= P * D + P * after

LEMMA SettlementNumbers ==
  ASSUME NEW P, NEW acc, NEW a, NEW n, NEW d, NEW x, NEW c, NEW S, NEW D,
         NEW before, NEW after, Settles(P, acc, a, n, d, x, c, S, D, before, after)
  PROVE  /\ P * ((n * acc) \div P) <= n * acc
         /\ P * (before + x) + (S - a + n) * acc
              <= P * (D - d + (n * acc) \div P) + P * (after + c)
<1> USE DEF Settles
<1> DEFINE e == (n * acc) \div P
           f == (a * acc) \div P
<1>1. /\ a * acc \in Nat /\ n * acc \in Nat /\ S * acc \in Nat
      /\ P * d \in Nat /\ P * D \in Nat /\ P * before \in Nat /\ P * after \in Nat
      /\ P * x \in Nat
  OBVIOUS
<1>2. e \in Nat /\ P * e <= n * acc /\ n * acc < P * e + P /\ P * e \in Nat
  BY <1>1, Quotient
<1>3. f \in Nat /\ P * f <= a * acc /\ P * f \in Nat
  BY <1>1, Quotient
<1>4. c = 0 => e = f /\ n * acc = a * acc
  OBVIOUS
<1>5. x <= f - d
  OBVIOUS
<1> HIDE DEF e, f
<1>6. P * (x + d) <= P * f
  <2>1. x + d <= f /\ x + d \in Nat
    BY <1>3, <1>5
  <2>2. QED
    BY <1>3, <2>1, Monotone
<1>7. P * (x + d) = P * x + P * d
  OBVIOUS
<1>8. P * (before + x) = P * before + P * x
  OBVIOUS
<1>9. (S - a + n) * acc = S * acc - a * acc + n * acc
  OBVIOUS
<1>10. P * (D - d + e) = P * D - P * d + P * e
  BY <1>2
<1>11. P * (after + c) = P * after + P * c
  OBVIOUS
<1>12. P * c = IF c = 0 THEN 0 ELSE P
  OBVIOUS
<1>13. P * x + n * acc <= a * acc - P * d + P * e + P * c
  <2>1. CASE c = 0
    BY <1>1, <1>2, <1>3, <1>4, <1>6, <1>7, <1>12, <2>1
  <2>2. CASE c = 1
    BY <1>1, <1>2, <1>3, <1>6, <1>7, <1>12, <2>2
  <2>3. QED
    BY <2>1, <2>2
<1>14. P * (before + x) + (S - a + n) * acc <= P * (D - d + e) + P * (after + c)
  <2> DEFINE pb == P * before  px == P * x  sa == S * acc  aa == a * acc  na == n * acc
             pD == P * D  pd == P * d  pe == P * e  pf == P * after  pc == P * c
  <2>1. /\ pb \in Nat /\ px \in Nat /\ sa \in Nat /\ aa \in Nat /\ na \in Nat
        /\ pD \in Nat /\ pd \in Nat /\ pe \in Nat /\ pf \in Nat /\ pc \in Int
        /\ pb + sa <= pD + pf /\ px + na <= aa - pd + pe + pc
    BY <1>1, <1>2, <1>13
  <2> HIDE DEF pb, px, sa, aa, na, pD, pd, pe, pf, pc
  <2>2. (pb + px) + (sa - aa + na) <= (pD - pd + pe) + (pf + pc)
    BY <2>1
  <2>3. QED
    BY <1>8, <1>9, <1>10, <1>11, <2>2 DEF pb, px, sa, aa, na, pD, pd, pe, pf, pc
<1>15. QED
  BY <1>2, <1>14 DEF e

-----------------------------------------------------------------------------
(* A rewarder whose rates are at most B has distributed no more than       *)
(* streamed, and its accumulator is at most what one staked unit gets.     *)
Limited(r, B, t) ==
  /\ r.lastUpdateTime <= t
  /\ r.rewardDistributed <= B * r.lastUpdateTime
  /\ r.accRewardPerShare <= Precision * r.rewardDistributed

CapHeld(r) == r.totalRewardCap > 0 => r.rewardDistributed <= r.totalRewardCap

(* An update within the limits wraps nothing around, and the accumulator   *)
(* grows by no more than what is distributed, shared by all that is staked.*)
LEMMA UpdateWithinLimits ==
  ASSUME NEW B \in Nat, NEW r \in RewarderState, NEW S \in Nat, NEW t \in 0 .. MaxTime,
         r.rewardPerSecond <= B, Precision * (B * MaxTime) <= MaxUint256,
         Limited(r, B, t), CapHeld(r),
         NEW q, q = UpdatePool(r, S, t)
  PROVE  /\ Limited(q, B, t)
         /\ q.accRewardPerShare >= r.accRewardPerShare
         /\ S * q.accRewardPerShare + Precision * r.rewardDistributed
              <= S * r.accRewardPerShare + Precision * q.rewardDistributed
<1> DEFINE last == r.lastUpdateTime  rate == r.rewardPerSecond
           dist == r.rewardDistributed  acc == r.accRewardPerShare  cap == r.totalRewardCap
<1>1. /\ last \in Nat /\ rate \in Nat /\ dist \in Nat /\ acc \in Nat /\ cap \in Nat
      /\ t \in Nat /\ t <= MaxTime /\ MaxTime \in Nat /\ MaxUint256 \in Nat
      /\ Precision \in Nat \ {0}
      /\ dist \in 0 .. MaxUint256 /\ acc \in 0 .. MaxUint256
  BY RewarderFields, RewarderAssumption, ChefAssumption
<1>2. /\ last <= t /\ dist <= B * last /\ acc <= Precision * dist /\ rate <= B
      /\ cap > 0 => dist <= cap
  BY DEF Limited, CapHeld
<1>3. CASE q = r
  <2>1. S * acc + Precision * dist <= S * acc + Precision * dist
    BY <1>1
  <2>2. QED
    BY <1>1, <1>3, <2>1
<1>4. CASE t > last /\ S = 0
  <2>1. ~(t <= last)
    BY <1>1, <1>4
  <2>2. q = [r EXCEPT !.lastUpdateTime = t]
    BY <1>4, <2>1 DEF UpdatePool
  <2>3. q.lastUpdateTime = t /\ q.rewardDistributed = dist /\ q.accRewardPerShare = acc
    BY <2>2 DEF RewarderState
  <2>4. B * last <= B * t /\ B * last \in Nat /\ B * t \in Nat
    BY <1>1, <1>2, Monotone
  <2>5. dist <= B * t
    BY <1>1, <1>2, <2>4
  <2>6. S * acc + Precision * dist <= S * acc + Precision * dist
    BY <1>1
  <2> HIDE DEF last, dist, acc
  <2>7. Limited(q, B, t)
    BY <1>1, <1>2, <2>3, <2>5 DEF Limited
  <2>8. QED
    BY <1>1, <2>3, <2>6, <2>7 DEF dist, acc
<1>5. CASE t > last /\ S # 0 /\ ~Exhausted(r, t)
  <2> DEFINE R == RewardSince(r, t)
             delta == (R * Precision) \div S
             stream == (t - last) * rate
  <2>1. q = Accrue(r, S, t)
    <3>1. ~(t <= last) /\ S > 0
      BY <1>1, <1>5
    <3>2. QED
      BY <1>5, <3>1 DEF UpdatePool
  <2>2. stream \in Nat
    BY <1>1, <1>2
  <2>3. /\ dist + stream <= B * t /\ B * t <= B * MaxTime /\ B * MaxTime \in Nat
        /\ B * MaxTime <= Precision * (B * MaxTime)
    <3>1. t \in 0 .. MaxTime /\ last \in 0 .. t /\ rate \in 0 .. B /\ S \in Nat \ {0}
      BY <1>1, <1>2, <1>5
    <3> HIDE DEF last, rate, dist, acc
    <3>2. stream <= (t - last) * rate
      BY <2>2
    <3> HIDE DEF stream
    <3>3. QED
      BY <1>1, <1>2, <2>2, <3>1, <3>2, AccrualNumbers
  <2>4. dist + stream \in 0 .. MaxUint256 /\ stream \in 0 .. MaxUint256
    <3> HIDE DEF last, rate, dist, stream
    <3>1. dist + stream \in Nat /\ dist + stream <= MaxUint256
      <4>1. Precision * (B * MaxTime) \in Nat /\ B * t \in Nat
        BY <1>1, <2>3
      <4>2. QED
        BY <1>1, <2>2, <2>3, <4>1
    <3>2. QED
      BY <1>1, <2>2, <3>1
  <2>5. Streamed(r, t) = stream
    BY <2>4, WrapFacts DEF Streamed
  <2>6. HitsCap(r, t) <=> cap > 0 /\ dist + stream > cap
    <3>1. Wrap256(dist + stream) = dist + stream
      BY <2>4, WrapFacts
    <3>2. QED
      BY <2>5, <3>1 DEF HitsCap
  <2>7. R \in Nat /\ R <= stream
    <3>1. CASE HitsCap(r, t)
      <4>1. cap - dist \in 0 .. MaxUint256
        BY <1>1, <1>2, <2>6, <3>1, RewarderFields
      <4>2. R = cap - dist
        BY <3>1, <4>1, WrapFacts DEF RewardSince, LeftUnderCap
      <4>3. dist + stream > cap
        BY <2>6, <3>1
      <4> HIDE DEF R, stream, dist, cap
      <4>4. QED
        BY <1>1, <2>2, <4>1, <4>2, <4>3
    <3>2. CASE ~HitsCap(r, t)
      BY <2>2, <2>5, <3>2 DEF RewardSince
    <3>3. QED
      BY <3>1, <3>2
  <2>8. /\ dist + R <= B * t /\ B * t <= B * MaxTime /\ B * MaxTime \in Nat
        /\ R * Precision <= Precision * (B * MaxTime)
        /\ B * MaxTime <= Precision * (B * MaxTime)
        /\ Precision * (dist + R) <= Precision * (B * MaxTime)
        /\ acc + delta <= Precision * (dist + R)
        /\ S * delta <= R * Precision
    <3>1. t \in 0 .. MaxTime /\ last \in 0 .. t /\ rate \in 0 .. B /\ S \in Nat \ {0}
      BY <1>1, <1>2, <1>5
    <3>2. R <= (t - last) * rate
      BY <2>7
    <3> HIDE DEF last, rate, dist, acc, R
    <3>3. QED
      BY <1>1, <1>2, <2>7, <3>1, <3>2, AccrualNumbers
  <2> HIDE DEF R, stream
  <2>9. /\ R * Precision \in Nat /\ delta \in Nat /\ B * t \in Nat
        /\ Precision * (dist + R) \in Nat /\ Precision * (B * MaxTime) \in Nat
        /\ S * delta \in Nat
    <3>1. R * Precision \in Nat /\ S \in Nat \ {0}
      BY <1>1, <1>5, <2>7
    <3>2. delta \in Nat
      BY <3>1, Quotient
    <3> HIDE DEF delta
    <3>3. QED
      BY <1>1, <2>7, <2>8, <3>1, <3>2
  <2>10. PerShare(R, S) = delta
    <3>1. R * Precision \in 0 .. MaxUint256
      BY <1>1, <2>8, <2>9
    <3>2. QED
      BY <3>1, WrapFacts DEF PerShare
  <2> HIDE DEF delta
  <2>11. Wrap256(acc + delta) = acc + delta /\ Wrap256(dist + R) = dist + R
    <3> HIDE DEF acc, dist
    <3>1. acc + delta \in 0 .. MaxUint256 /\ dist + R \in 0 .. MaxUint256
      BY <1>1, <2>7, <2>8, <2>9
    <3>2. QED
      BY <3>1, WrapFacts
  <2>12. q = [r EXCEPT !.accRewardPerShare = Wrap256(acc + PerShare(R, S)),
                       !.rewardDistributed = Wrap256(dist + R),
                       !.lastUpdateTime = t]
    BY <2>1 DEF Accrue, R
  <2>13. /\ q.lastUpdateTime = t /\ q.rewardDistributed = dist + R
         /\ q.accRewardPerShare = acc + delta
    BY <2>10, <2>11, <2>12 DEF RewarderState
  <2> HIDE DEF acc, dist, last, rate
  <2>14. Limited(q, B, t)
    BY <1>1, <2>8, <2>13 DEF Limited
  <2>15. S * (acc + delta) + Precision * dist <= S * acc + Precision * (dist + R)
    <3>1. /\ S * (acc + delta) = S * acc + S * delta
          /\ Precision * (dist + R) = Precision * dist + R * Precision
          /\ S * acc \in Nat /\ Precision * dist \in Nat
      BY <1>1, <2>7, <2>9
    <3>2. QED
      BY <2>8, <2>9, <3>1
  <2>16. acc + delta >= acc
    BY <1>1, <2>9
  <2>17. QED
    BY <2>13, <2>14, <2>15, <2>16 DEF acc, dist
<1>6. t <= last \/ (t > last /\ S # 0 /\ Exhausted(r, t)) => q = r
  <2>1. CASE t <= last
    <3>1. ~(t > last)
      BY <1>1, <2>1
    <3>2. QED
      BY <2>1, <3>1 DEF UpdatePool
  <2>2. CASE t > last /\ S # 0 /\ Exhausted(r, t)
    <3>1. ~(t <= last) /\ S > 0
      BY <1>1, <2>2
    <3>2. QED
      BY <2>2, <3>1 DEF UpdatePool
  <2>3. QED
    BY <2>1, <2>2
<1>7. QED
  BY <1>1, <1>3, <1>4, <1>5, <1>6

-----------------------------------------------------------------------------
(* The books of one pool, in units of 1 / Precision: no debt is more than  *)
(* what its stake has earned, and what was paid, with all that the stakes  *)
(* have earned, is covered by the debts charged and by what the rewarder   *)
(* distributed, with one unit of rounding for each call.                   *)
Balanced(r, staked, stakes, out, calls) ==
  /\ \A u \in Users : Precision * r.rewardDebt[u] <= stakes[u] * r.accRewardPerShare
  /\ Precision * out + staked * r.accRewardPerShare
       <= Precision * SumFunctionOnSet(r.rewardDebt, Users)
          + Precision * (r.rewardDistributed + calls)

LEMMA UpdateKeepsBalance ==
  ASSUME NEW r \in RewarderState, NEW q \in RewarderState, NEW S \in Nat,
         NEW stakes \in [Users -> Nat], NEW out \in Nat, NEW calls \in Nat,
         q.rewardDebt = r.rewardDebt,
         q.accRewardPerShare >= r.accRewardPerShare,
         S * q.accRewardPerShare + Precision * r.rewardDistributed
           <= S * r.accRewardPerShare + Precision * q.rewardDistributed,
         Balanced(r, S, stakes, out, calls)
  PROVE  Balanced(q, S, stakes, out, calls)
<1> DEFINE acc == r.accRewardPerShare  acc2 == q.accRewardPerShare
           dist == r.rewardDistributed  dist2 == q.rewardDistributed
           D == SumFunctionOnSet(r.rewardDebt, Users)
<1>1. /\ acc \in Nat /\ acc2 \in Nat /\ dist \in Nat /\ dist2 \in Nat /\ Precision \in Nat
      /\ r.rewardDebt \in [Users -> Nat] /\ IsFiniteSet(Users)
  BY RewarderFields, RewarderAssumption, ChefAssumption
<1>2. D \in Nat
  BY <1>1, SumBounds
<1>3. /\ acc2 >= acc
      /\ S * acc2 + Precision * dist <= S * acc + Precision * dist2
      /\ Precision * out + S * acc <= Precision * D + Precision * (dist + calls)
  BY DEF Balanced
<1>4. ASSUME NEW u \in Users
      PROVE  Precision * q.rewardDebt[u] <= stakes[u] * acc2
  <2>1. Precision * r.rewardDebt[u] <= stakes[u] * acc
    BY DEF Balanced
  <2>2. stakes[u] \in Nat /\ r.rewardDebt[u] \in Nat
    BY <1>1
  <2>3. stakes[u] * acc <= stakes[u] * acc2
    BY <1>1, <1>3, <2>2, Monotone
  <2>4. /\ Precision * r.rewardDebt[u] \in Nat
        /\ stakes[u] * acc \in Nat /\ stakes[u] * acc2 \in Nat
    BY <1>1, <2>2
  <2>5. QED
    BY <2>1, <2>3, <2>4
<1> HIDE DEF acc, acc2, dist, dist2, D
<1>5. Precision * out + S * acc2 <= Precision * D + Precision * (dist2 + calls)
  <2>1. /\ Precision * (dist + calls) = Precision * dist + Precision * calls
        /\ Precision * (dist2 + calls) = Precision * dist2 + Precision * calls
        /\ Precision * out \in Nat /\ S * acc \in Nat /\ S * acc2 \in Nat
        /\ Precision * D \in Nat /\ Precision * dist \in Nat /\ Precision * dist2 \in Nat
        /\ Precision * calls \in Nat
    BY <1>1, <1>2
  <2>2. QED
    BY <1>3, <2>1
<1>6. QED
  BY <1>4, <1>5 DEF Balanced, acc2, dist2, D

(* What a call owes a staker, when nothing wraps around. *)
LEMMA UnpaidExact ==
  ASSUME NEW r \in RewarderState, NEW u \in Users, NEW a \in Nat,
         a * r.accRewardPerShare <= MaxUint256,
         Precision * r.rewardDebt[u] <= a * r.accRewardPerShare
  PROVE  /\ Earned(r, a) = (a * r.accRewardPerShare) \div Precision
         /\ r.rewardDebt[u] <= Earned(r, a)
         /\ Unpaid(r, u, a) = Earned(r, a) - r.rewardDebt[u]
<1> DEFINE y == a * r.accRewardPerShare
           d == r.rewardDebt[u]
<1>1. /\ r.accRewardPerShare \in Nat /\ d \in Nat /\ d <= MaxUint256
      /\ Precision \in Nat \ {0} /\ MaxUint256 \in Nat
  BY RewarderFields, RewarderAssumption
<1>2. y \in Nat /\ y \in 0 .. MaxUint256 /\ Precision * d <= y
  BY <1>1
<1>3. Wrap256(y) = y
  BY <1>2, WrapFacts
<1>4. Earned(r, a) = y \div Precision
  BY <1>3 DEF Earned
<1> HIDE DEF y
<1>5. /\ y \div Precision \in Nat /\ y < Precision * (y \div Precision) + Precision
      /\ y \div Precision <= y
  BY <1>1, <1>2, Quotient
<1>6. d <= y \div Precision
  <2> DEFINE e == y \div Precision
  <2>1. e \in Nat /\ y < Precision * e + Precision
    BY <1>5
  <2> HIDE DEF e, d
  <2>2. SUFFICES ASSUME e + 1 <= d PROVE FALSE
    BY <1>1, <2>1 DEF e
  <2>3. Precision * (e + 1) <= Precision * d
    BY <1>1, <2>1, <2>2, Monotone
  <2>4. Precision * (e + 1) = Precision * e + Precision
    BY <1>1, <2>1
  <2>5. Precision * e \in Nat /\ Precision * d \in Nat
    BY <1>1, <2>1
  <2>6. QED
    BY <1>1, <1>2, <2>1, <2>3, <2>4, <2>5
<1>7. y \div Precision - d \in 0 .. MaxUint256
  BY <1>1, <1>2, <1>5, <1>6
<1>8. Unpaid(r, u, a) = Wrap256(y \div Precision - d)
  BY <1>4 DEF Unpaid
<1>9. Unpaid(r, u, a) = y \div Precision - d
  BY <1>7, <1>8, WrapFacts
<1>10. QED
  BY <1>4, <1>6, <1>9 DEF y

LEMMA SettleKeepsBalance ==
  ASSUME NEW q \in RewarderState, NEW u \in Users, NEW S \in Nat,
         NEW stakes \in [Users -> Nat], stakes[u] <= S,
         NEW n \in Nat, NEW x \in Nat, NEW c \in {0, 1}, c = 0 => n = stakes[u],
         NEW out \in Nat, NEW calls \in Nat,
         stakes[u] * q.accRewardPerShare <= MaxUint256,
         n * q.accRewardPerShare <= MaxUint256,
         x <= Unpaid(q, u, stakes[u]),
         Balanced(q, S, stakes, out, calls)
  PROVE  Balanced(SettleDebt(q, u, n), S - stakes[u] + n, [stakes EXCEPT ![u] = n],
                  out + x, calls + c)
<1> DEFINE acc == q.accRewardPerShare
           dist == q.rewardDistributed
           debts == q.rewardDebt
           a == stakes[u]
           d == debts[u]
           e == (n * acc) \div Precision
           D == SumFunctionOnSet(debts, Users)
           p == SettleDebt(q, u, n)
           new == [debts EXCEPT ![u] = e]
<1>1. /\ acc \in Nat /\ dist \in Nat /\ Precision \in Nat \ {0}
      /\ debts \in [Users -> Nat] /\ debts \in [Users -> Int] /\ IsFiniteSet(Users)
      /\ d \in Nat /\ a \in Nat
  BY RewarderFields, RewarderAssumption, ChefAssumption
<1>2. D \in Nat /\ d <= D
  BY <1>1, SumBounds
<1>3. Earned(q, n) = e /\ e \in Nat
  <2>1. n * acc \in 0 .. MaxUint256 /\ n * acc \in Nat
    BY <1>1
  <2>2. Wrap256(n * acc) = n * acc
    BY <2>1, WrapFacts
  <2>3. Earned(q, n) = e
    BY <2>2 DEF Earned
  <2>4. e \in Nat
    BY <1>1, <2>1, Quotient
  <2>5. QED
    BY <2>3, <2>4
<1>4. p.accRewardPerShare = acc /\ p.rewardDistributed = dist /\ p.rewardDebt = new
  <2>1. p = [q EXCEPT !.rewardDebt = [debts EXCEPT ![u] = Earned(q, n)]]
    BY DEF SettleDebt, RewarderState
  <2>2. p = [q EXCEPT !.rewardDebt = new]
    BY <1>3, <2>1
  <2> HIDE DEF p, new
  <2>3. QED
    BY <2>2 DEF RewarderState
<1>5. SumFunctionOnSet(new, Users) = D - d + e
  <2>1. new = Put(debts, u, e)
    BY DEF Put
  <2> HIDE DEF new, debts, e
  <2>2. SumFunctionOnSet(Put(debts, u, e), Users) = SumFunctionOnSet(debts, Users) - debts[u] + e
    BY <1>1, <1>3, SumUpdate
  <2>3. QED
    BY <2>1, <2>2
<1>6. Precision * d <= a * acc
  BY DEF Balanced
<1>7. x <= (a * acc) \div Precision - d
  BY <1>1, <1>6, UnpaidExact
<1>8. Precision * out + S * acc <= Precision * D + Precision * (dist + calls)
  BY DEF Balanced
<1> HIDE DEF acc, dist, a, D
<1>9. /\ Precision * e <= n * acc
      /\ Precision * (out + x) + (S - a + n) * acc
           <= Precision * (D - d + e) + Precision * (dist + calls + c)
  <2>1. c = 0 => n = a
    BY DEF a
  <2>2. a <= S
    BY DEF a
  <2>3. dist + calls \in Nat
    BY <1>1
  <2> HIDE DEF d
  <2>4. Settles(Precision, acc, a, n, d, x, c, S, D, out, dist + calls)
    BY <1>1, <1>2, <1>6, <1>7, <1>8, <2>1, <2>2, <2>3 DEF Settles
  <2>5. QED
    BY <2>4, SettlementNumbers
<1>10. ASSUME NEW v \in Users
       PROVE  Precision * p.rewardDebt[v] <= [stakes EXCEPT ![u] = n][v] * p.accRewardPerShare
  <2>1. CASE v = u
    <3>1. p.rewardDebt[v] = e
      BY <1>1, <1>4, <2>1
    <3>2. QED
      BY <1>4, <1>9, <2>1, <3>1
  <2>2. CASE v # u
    <3>1. p.rewardDebt[v] = debts[v]
      BY <1>1, <1>4, <2>2
    <3>2. Precision * debts[v] <= stakes[v] * acc
      BY DEF Balanced, acc
    <3>3. QED
      BY <1>4, <2>2, <3>1, <3>2
  <2>3. QED
    BY <2>1, <2>2
<1>11. dist + calls + c = dist + (calls + c)
  BY <1>1
<1> HIDE DEF p, new, e, d
<1>12. Precision * (out + x) + (S - a + n) * p.accRewardPerShare
         <= Precision * SumFunctionOnSet(p.rewardDebt, Users)
            + Precision * (p.rewardDistributed + (calls + c))
  BY <1>4, <1>5, <1>9, <1>11
<1>13. QED
  BY <1>10, <1>12 DEF Balanced, p, a

-----------------------------------------------------------------------------
(* The invariant: with the types, the stakes, the cap and one pool to each *)
(* rewarder, LP is conserved, every rewarder is within its limits, and the *)
(* books of every pool are balanced.                                       *)
LpConserved ==
  \A l \in LpTokens : SumFunctionOnSet(lpBalance[l], StakeAccount) = LpTotal(l)

Books(l) ==
  Balanced(rewarder[rewarderOf[l]], totalStaked[l], amount[l],
           paid[rewarderOf[l]], deposits[rewarderOf[l]] + withdrawals[rewarderOf[l]])

(* A rewarder no pool uses yet has paid nothing and owes nothing.          *)
UnusedIsFresh ==
  \A w \in Rewarders :
    (\A l \in LpTokens : rewarderOf[l] # w) =>
      paid[w] = 0 /\ \A u \in Users : rewarder[w].rewardDebt[u] = 0

Accounts(B) ==
  /\ LpConserved /\ UnusedIsFresh /\ UnaddedIsEmpty
  /\ \A w \in Rewarders : Limited(rewarder[w], B, now)
  /\ \A l \in LpTokens : PoolAdded(l) => Books(l)

Safe == IInv /\ CapIsKept /\ NotShared

LEMMA StakeAccountFacts ==
  IsFiniteSet(StakeAccount) /\ Users \subseteq StakeAccount /\ Chef \in StakeAccount
<1>1. IsFiniteSet({Chef})
  BY FS_Singleton
<1>2. QED
  BY <1>1, ChefAssumption, FS_Union DEF StakeAccount

LEMMA LpTotalType == ASSUME NEW l \in LpTokens PROVE LpTotal(l) \in Nat
<1>1. LpSupply[l] \in [Users -> Nat] /\ IsFiniteSet(Users)
  BY ChefAssumption
<1>2. QED
  BY <1>1, SumBounds DEF LpTotal

LEMMA StakeFits ==
  ASSUME IInv, LpConserved, NEW l \in LpTokens, NEW u \in Users
  PROVE  /\ amount[l][u] \in Nat /\ totalStaked[l] \in Nat
         /\ amount[l][u] <= totalStaked[l] /\ amount[l][u] <= LpTotal(l)
<1>1. amount[l][u] \in Nat /\ totalStaked[l] \in Nat /\ amount[l][u] <= totalStaked[l]
  BY StakeInTotal
<1>2. lpBalance[l] \in [StakeAccount -> Nat] /\ totalStaked[l] <= lpBalance[l][Chef]
  BY DEF IInv, TypeOK, StakesAreBacked
<1>3. lpBalance[l][Chef] <= SumFunctionOnSet(lpBalance[l], StakeAccount)
  BY <1>2, StakeAccountFacts, SumBounds
<1>4. lpBalance[l][Chef] <= LpTotal(l) /\ lpBalance[l][Chef] \in Nat
  BY <1>2, <1>3, StakeAccountFacts DEF LpConserved
<1>5. QED
  BY <1>1, <1>2, <1>4, LpTotalType

LEMMA LpConservedKept ==
  ASSUME TypeOK, LpConserved, NEW l \in LpTokens, NEW a \in StakeAccount,
         NEW b \in StakeAccount, NEW x \in Nat, LpMoves(l, a, b, x)
  PROVE  LpConserved'
<1>1. lpBalance[l] \in [StakeAccount -> Nat] /\ Covers(lpBalance[l], a, x)
  BY DEF TypeOK, LpMoves
<1>2. SumFunctionOnSet(Transfer(lpBalance[l], a, b, x), StakeAccount)
        = SumFunctionOnSet(lpBalance[l], StakeAccount)
  BY <1>1, StakeAccountFacts, SumTransfer
<1>3. /\ lpBalance'[l] = Transfer(lpBalance[l], a, b, x)
      /\ \A k \in LpTokens : k # l => lpBalance'[k] = lpBalance[k]
  BY LpMoved
<1>4. ASSUME NEW k \in LpTokens
      PROVE  SumFunctionOnSet(lpBalance'[k], StakeAccount) = LpTotal(k)
  <2>1. CASE k = l
    BY <1>2, <1>3, <2>1 DEF LpConserved
  <2>2. CASE k # l
    BY <1>3, <2>2 DEF LpConserved
  <2>3. QED
    BY <2>1, <2>2
<1>5. QED
  BY <1>4 DEF LpConserved

(* What Fits says of one pool's rewarder. *)
LEMMA ProductsFit ==
  ASSUME NEW B \in Nat, Fits(B), NEW l \in LpTokens
  PROVE  /\ Precision * (B * MaxTime) \in Nat
         /\ Precision * (B * MaxTime) <= MaxUint256
         /\ \A n \in Nat, acc \in Nat :
              n <= LpTotal(l) /\ acc <= Precision * (B * MaxTime) => n * acc <= MaxUint256
<1> DEFINE y == Precision * (B * MaxTime)
           m == LpTotal(l)
<1>1. y \in Nat /\ m \in Nat /\ MaxUint256 \in Nat
  BY RewarderAssumption, ChefAssumption, LpTotalType
<1>2. y * (m + 1) <= MaxUint256
  BY DEF Fits
<1> HIDE DEF y, m
<1>3. y * (m + 1) = y * m + y /\ y * m \in Nat
  BY <1>1
<1>4. ASSUME NEW n \in Nat, NEW acc \in Nat, n <= m, acc <= y
      PROVE  n * acc <= MaxUint256
  <2>1. n * acc <= m * y /\ n * acc \in Nat /\ m * y \in Nat
    BY <1>1, <1>4, Monotone
  <2>2. m * y = y * m
    BY <1>1
  <2>3. QED
    BY <1>1, <1>2, <1>3, <2>1, <2>2
<1>5. y <= MaxUint256
  BY <1>1, <1>2, <1>3
<1>6. QED
  BY <1>1, <1>4, <1>5 DEF y, m

LEMMA AccumulatorFits ==
  ASSUME NEW B \in Nat, NEW r \in RewarderState, NEW t \in 0 .. MaxTime, Limited(r, B, t)
  PROVE  r.accRewardPerShare <= Precision * (B * MaxTime)
<1>1. /\ r.accRewardPerShare \in Nat /\ r.rewardDistributed \in Nat
      /\ r.lastUpdateTime \in Nat /\ MaxTime \in Nat /\ Precision \in Nat
      /\ r.lastUpdateTime <= MaxTime
  BY RewarderFields, RewarderAssumption, ChefAssumption
<1>2. B * r.lastUpdateTime <= B * MaxTime /\ B * r.lastUpdateTime \in Nat /\ B * MaxTime \in Nat
  BY <1>1, Monotone
<1>3. r.rewardDistributed <= B * MaxTime
  BY <1>1, <1>2 DEF Limited
<1>4. /\ Precision * r.rewardDistributed <= Precision * (B * MaxTime)
      /\ Precision * r.rewardDistributed \in Nat /\ Precision * (B * MaxTime) \in Nat
  BY <1>1, <1>2, <1>3, Monotone
<1>5. QED
  BY <1>1, <1>4 DEF Limited

(* A pool's rewarder brought up to date. *)
LEMMA UpdatedIsBalanced ==
  ASSUME NEW B \in Nat, Fits(B), Safe, Accounts(B), NEW l \in LpTokens, PoolAdded(l)
  PROVE  /\ Updated(l) \in RewarderState
         /\ Limited(Updated(l), B, now)
         /\ Balanced(Updated(l), totalStaked[l], amount[l], paid[rewarderOf[l]],
                     deposits[rewarderOf[l]] + withdrawals[rewarderOf[l]])
<1> DEFINE w == rewarderOf[l]
           r == rewarder[w]
           q == Updated(l)
           calls == deposits[w] + withdrawals[w]
<1>1. /\ TypeOK /\ w \in Rewarders /\ r \in RewarderState /\ q \in RewarderState
      /\ totalStaked[l] \in Nat /\ now \in 0 .. MaxTime
  BY PoolFacts DEF Safe, IInv
<1>2. amount[l] \in [Users -> Nat] /\ paid[w] \in Nat /\ calls \in Nat
  BY <1>1 DEF TypeOK
<1>3. q = UpdatePool(r, totalStaked[l], now)
  BY DEF Updated
<1>4. r.rewardPerSecond <= B
  <2>1. r.rewardPerSecond \in RewardRates \cup {0}
    BY <1>1 DEF RewarderState
  <2>2. QED
    BY <2>1 DEF Fits
<1>5. Limited(r, B, now) /\ CapHeld(r)
  BY <1>1 DEF Accounts, Safe, CapIsKept, CapHeld
<1>6. Precision * (B * MaxTime) <= MaxUint256
  BY ProductsFit
<1>7. q.rewardDebt = r.rewardDebt
  BY <1>1, <1>3, UpdateFacts
<1>8. Balanced(r, totalStaked[l], amount[l], paid[w], calls)
  BY DEF Accounts, Books
<1> HIDE DEF w, r, q, calls
<1>9. /\ Limited(q, B, now)
      /\ q.accRewardPerShare >= r.accRewardPerShare
      /\ totalStaked[l] * q.accRewardPerShare + Precision * r.rewardDistributed
           <= totalStaked[l] * r.accRewardPerShare + Precision * q.rewardDistributed
  BY <1>1, <1>3, <1>4, <1>5, <1>6, UpdateWithinLimits
<1>10. Balanced(q, totalStaked[l], amount[l], paid[w], calls)
  BY <1>1, <1>2, <1>7, <1>8, <1>9, UpdateKeepsBalance
<1>11. QED
  BY <1>1, <1>9, <1>10 DEF w, q, calls

-----------------------------------------------------------------------------
(* A call on one pool leaves the books of the others alone. *)
OnlyTouches(l) ==
  /\ rewarderOf' = rewarderOf /\ now' = now
  /\ \A w \in Rewarders : w # rewarderOf[l] =>
       /\ rewarder'[w] = rewarder[w] /\ paid'[w] = paid[w]
       /\ deposits'[w] = deposits[w] /\ withdrawals'[w] = withdrawals[w]
  /\ \A k \in LpTokens : k # l => amount'[k] = amount[k] /\ totalStaked'[k] = totalStaked[k]

LEMMA OtherBooksKept ==
  ASSUME NEW B \in Nat, Safe, Accounts(B), NEW l \in LpTokens, PoolAdded(l),
         OnlyTouches(l), LpConserved',
         Limited(rewarder'[rewarderOf[l]], B, now), Books(l)'
  PROVE  Accounts(B)'
<1>1. /\ UnusedIsFresh /\ UnaddedIsEmpty
      /\ \A w \in Rewarders : Limited(rewarder[w], B, now)
      /\ \A k \in LpTokens : PoolAdded(k) => Books(k)
      /\ \A k \in LpTokens : PoolAdded(k) => rewarderOf[k] \in Rewarders
  BY PoolFacts DEF Accounts, Safe, IInv
<1>2. UnusedIsFresh'
  BY <1>1 DEF UnusedIsFresh, OnlyTouches
<1>3. UnaddedIsEmpty'
  BY <1>1 DEF UnaddedIsEmpty, OnlyTouches, PoolAdded
<1>4. ASSUME NEW w \in Rewarders PROVE Limited(rewarder'[w], B, now')
  <2>1. CASE w = rewarderOf[l]
    BY <2>1 DEF OnlyTouches
  <2>2. CASE w # rewarderOf[l]
    BY <1>1, <2>2 DEF OnlyTouches
  <2>3. QED
    BY <2>1, <2>2
<1>5. ASSUME NEW k \in LpTokens, PoolAdded(k)' PROVE Books(k)'
  <2>1. CASE k = l
    BY <2>1
  <2>2. CASE k # l
    <3>1. PoolAdded(k) /\ rewarderOf[k] # rewarderOf[l] /\ rewarderOf[k] \in Rewarders
      BY <1>1, <1>5, <2>2 DEF OnlyTouches, PoolAdded, Safe, NotShared
    <3>2. /\ rewarderOf'[k] = rewarderOf[k]
          /\ rewarder'[rewarderOf[k]] = rewarder[rewarderOf[k]]
          /\ paid'[rewarderOf[k]] = paid[rewarderOf[k]]
          /\ deposits'[rewarderOf[k]] = deposits[rewarderOf[k]]
          /\ withdrawals'[rewarderOf[k]] = withdrawals[rewarderOf[k]]
          /\ amount'[k] = amount[k] /\ totalStaked'[k] = totalStaked[k]
      BY <2>2, <3>1 DEF OnlyTouches
    <3>3. Books(k)
      BY <1>1, <3>1
    <3>4. QED
      BY <3>2, <3>3 DEF Books
  <2>3. QED
    BY <2>1, <2>2
<1>6. QED
  BY <1>2, <1>3, <1>4, <1>5 DEF Accounts

(* A call that pays, sets a stake to n and charges its debt. *)
LEMMA CallKeepsAccounts ==
  ASSUME NEW B \in Nat, Fits(B), Safe, Accounts(B), IInv', LpConserved',
         NEW l \in LpTokens, NEW u \in Users, PoolAdded(l),
         PayReward(u, l), NEW n \in Nat, ChargeDebt(u, l, n),
         amount'[l] = [amount[l] EXCEPT ![u] = n],
         totalStaked'[l] = totalStaked[l] - amount[l][u] + n,
         \A k \in LpTokens : k # l => amount'[k] = amount[k] /\ totalStaked'[k] = totalStaked[k],
         rewarderOf' = rewarderOf, now' = now,
         \A w \in Rewarders : w # rewarderOf[l] =>
           deposits'[w] = deposits[w] /\ withdrawals'[w] = withdrawals[w],
         NEW c \in {0, 1}, c = 0 => n = amount[l][u],
         deposits'[rewarderOf[l]] + withdrawals'[rewarderOf[l]]
           = deposits[rewarderOf[l]] + withdrawals[rewarderOf[l]] + c
  PROVE  Accounts(B)'
<1> DEFINE w == rewarderOf[l]
           q == Updated(l)
           a == amount[l][u]
           S == totalStaked[l]
           x == Payment(u, l)
           calls == deposits[w] + withdrawals[w]
           r == SettleDebt(q, u, n)
<1>1. /\ TypeOK /\ IInv /\ LpConserved /\ w \in Rewarders /\ q \in RewarderState
      /\ now \in 0 .. MaxTime
  BY PoolFacts DEF Safe, IInv, Accounts
<1>2. /\ Limited(q, B, now)
      /\ Balanced(q, S, amount[l], paid[w], calls)
  BY UpdatedIsBalanced
<1>3. /\ a \in Nat /\ S \in Nat /\ a <= S /\ a <= LpTotal(l)
      /\ amount[l] \in [Users -> Nat] /\ paid[w] \in Nat /\ calls \in Nat
  BY <1>1, StakeFits DEF TypeOK
<1>4. n <= LpTotal(l)
  <2>1. /\ lpBalance'[l] \in [StakeAccount -> Nat] /\ totalStaked'[l] <= lpBalance'[l][Chef]
        /\ SumFunctionOnSet(lpBalance'[l], StakeAccount) = LpTotal(l)
    BY DEF IInv, TypeOK, StakesAreBacked, LpConserved
  <2>2. lpBalance'[l][Chef] <= LpTotal(l) /\ lpBalance'[l][Chef] \in Nat
    BY <2>1, StakeAccountFacts, SumBounds
  <2>3. n <= totalStaked'[l] /\ totalStaked'[l] \in Nat
    BY <1>3
  <2>4. QED
    BY <2>1, <2>2, <2>3, LpTotalType
<1>5. /\ a * q.accRewardPerShare <= MaxUint256 /\ n * q.accRewardPerShare <= MaxUint256
  <2>1. q.accRewardPerShare \in Nat /\ q.accRewardPerShare <= Precision * (B * MaxTime)
    BY <1>1, <1>2, AccumulatorFits, RewarderFields
  <2> HIDE DEF q, a
  <2>2. QED
    BY <1>3, <1>4, <2>1, ProductsFit
<1>6. x \in Nat /\ x <= Unpaid(q, u, a)
  BY <1>1, PaymentType
<1>7. Balanced(r, S - a + n, [amount[l] EXCEPT ![u] = n], paid[w] + x, calls + c)
  <2> HIDE DEF q, S, x, calls, w
  <2>1. QED
    BY <1>1, <1>2, <1>3, <1>5, <1>6, SettleKeepsBalance
<1>8. /\ rewarder' = [rewarder EXCEPT ![w] = r]
      /\ rewarder \in [Rewarders -> RewarderState]
  BY <1>1 DEF ChargeDebt, TypeOK
<1>9. /\ rewarder'[w] = r
      /\ \A v \in Rewarders : v # w => rewarder'[v] = rewarder[v]
  <2> HIDE DEF r, w
  <2>1. QED
    BY <1>1, <1>8
<1>10. /\ paid'[w] = paid[w] + x
       /\ \A v \in Rewarders : v # w => paid'[v] = paid[v]
  <2>1. paid' = Credit(paid, w, x) /\ paid \in [Rewarders -> Nat]
    BY <1>1 DEF PayReward, TypeOK
  <2> HIDE DEF w, x
  <2>2. QED
    BY <1>1, <2>1 DEF Credit
<1>11. Limited(r, B, now)
  <2>1. /\ r.accRewardPerShare = q.accRewardPerShare
        /\ r.rewardDistributed = q.rewardDistributed
        /\ r.lastUpdateTime = q.lastUpdateTime
    BY <1>1 DEF SettleDebt, RewarderState
  <2>2. QED
    BY <1>2, <2>1 DEF Limited
<1>12. deposits'[w] + withdrawals'[w] = calls + c
  OBVIOUS
<1>13. rewarderOf'[l] = w
  OBVIOUS
<1>14. OnlyTouches(l)
  BY <1>9, <1>10 DEF OnlyTouches
<1>15. amount'[l] = [amount[l] EXCEPT ![u] = n] /\ totalStaked'[l] = S - a + n
  OBVIOUS
<1> HIDE DEF r, x, calls, S, a, q, w
<1>16. Books(l)'
  BY <1>7, <1>9, <1>10, <1>12, <1>13, <1>15 DEF Books
<1>17. Limited(rewarder'[w], B, now)
  BY <1>9, <1>11
<1>18. QED
  BY <1>14, <1>16, <1>17, OtherBooksKept DEF w

LEMMA DepositKeepsAccounts ==
  ASSUME NEW B \in Nat, Fits(B), Safe, Accounts(B), IInv',
         NEW l \in LpTokens, NEW u \in Users, NEW x \in Nat, Deposit(u, l, x)
  PROVE  Accounts(B)'
<1> DEFINE n == amount[l][u] + x
           w == rewarderOf[l]
<1>1. /\ TypeOK /\ StakesAreBacked /\ LpConserved /\ PoolAdded(l) /\ w \in Rewarders
      /\ u \in StakeAccount /\ Chef \in StakeAccount
  BY PoolFacts, StakeAccountFacts DEF Safe, IInv, Accounts, Deposit
<1>2. amount[l][u] \in Nat /\ n \in Nat
  BY <1>1 DEF TypeOK
<1>3. /\ PayReward(u, l) /\ Stake(u, l, n) /\ ChargeDebt(u, l, n)
      /\ LpMoves(l, u, Chef, x)
      /\ deposits' = Credit(deposits, w, 1) /\ withdrawals' = withdrawals
      /\ rewarderOf' = rewarderOf /\ now' = now
  BY DEF Deposit, LpMoves
<1>4. amount \in [LpTokens -> [Users -> Nat]] /\ deposits \in [Rewarders -> Nat]
      /\ withdrawals \in [Rewarders -> Nat]
  BY <1>1 DEF TypeOK
<1> HIDE DEF n, w
<1>5. LpConserved'
  BY <1>1, <1>3, LpConservedKept
<1>6. /\ amount'[l] = [amount[l] EXCEPT ![u] = n]
      /\ \A k \in LpTokens : k # l => amount'[k] = amount[k]
  BY <1>3, <1>4 DEF Stake
<1>7. /\ totalStaked'[l] = totalStaked[l] - amount[l][u] + n
      /\ \A k \in LpTokens : k # l => totalStaked'[k] = totalStaked[k]
  BY <1>1, <1>2, <1>3, StakeSet
<1>8. /\ deposits'[w] + withdrawals'[w] = deposits[w] + withdrawals[w] + 1
      /\ \A v \in Rewarders : v # w => deposits'[v] = deposits[v] /\ withdrawals'[v] = withdrawals[v]
  BY <1>1, <1>3, <1>4 DEF Credit
<1>9. 1 \in {0, 1} /\ (1 = 0 => n = amount[l][u])
  OBVIOUS
<1>10. QED
  BY <1>1, <1>2, <1>3, <1>5, <1>6, <1>7, <1>8, <1>9, CallKeepsAccounts DEF w

LEMMA WithdrawKeepsAccounts ==
  ASSUME NEW B \in Nat, Fits(B), Safe, Accounts(B), IInv',
         NEW l \in LpTokens, NEW u \in Users, NEW x \in Nat, Withdraw(u, l, x)
  PROVE  Accounts(B)'
<1> DEFINE n == amount[l][u] - x
           w == rewarderOf[l]
<1>1. /\ TypeOK /\ StakesAreBacked /\ LpConserved /\ PoolAdded(l) /\ w \in Rewarders
      /\ u \in StakeAccount /\ Chef \in StakeAccount
  BY PoolFacts, StakeAccountFacts DEF Safe, IInv, Accounts, Withdraw, WithdrawSucceeds
<1>2. amount[l][u] \in Nat /\ n \in Nat
  BY <1>1 DEF TypeOK, Withdraw, WithdrawSucceeds, MayWithdraw
<1>3. /\ PayReward(u, l) /\ Stake(u, l, n) /\ ChargeDebt(u, l, n)
      /\ LpMoves(l, Chef, u, x)
      /\ withdrawals' = Credit(withdrawals, w, 1) /\ deposits' = deposits
      /\ rewarderOf' = rewarderOf /\ now' = now
  BY DEF Withdraw, WithdrawSucceeds, LpMoves
<1>4. amount \in [LpTokens -> [Users -> Nat]] /\ deposits \in [Rewarders -> Nat]
      /\ withdrawals \in [Rewarders -> Nat]
  BY <1>1 DEF TypeOK
<1> HIDE DEF n, w
<1>5. LpConserved'
  BY <1>1, <1>3, LpConservedKept
<1>6. /\ amount'[l] = [amount[l] EXCEPT ![u] = n]
      /\ \A k \in LpTokens : k # l => amount'[k] = amount[k]
  BY <1>3, <1>4 DEF Stake
<1>7. /\ totalStaked'[l] = totalStaked[l] - amount[l][u] + n
      /\ \A k \in LpTokens : k # l => totalStaked'[k] = totalStaked[k]
  BY <1>1, <1>2, <1>3, StakeSet
<1>8. /\ deposits'[w] + withdrawals'[w] = deposits[w] + withdrawals[w] + 1
      /\ \A v \in Rewarders : v # w => deposits'[v] = deposits[v] /\ withdrawals'[v] = withdrawals[v]
  BY <1>1, <1>3, <1>4 DEF Credit
<1>9. 1 \in {0, 1} /\ (1 = 0 => n = amount[l][u])
  OBVIOUS
<1>10. QED
  BY <1>1, <1>2, <1>3, <1>5, <1>6, <1>7, <1>8, <1>9, CallKeepsAccounts DEF w

LEMMA HarvestKeepsAccounts ==
  ASSUME NEW B \in Nat, Fits(B), Safe, Accounts(B), IInv',
         NEW l \in LpTokens, NEW u \in Users, Harvest(u, l)
  PROVE  Accounts(B)'
<1> DEFINE n == amount[l][u]
           w == rewarderOf[l]
<1>1. /\ TypeOK /\ LpConserved /\ PoolAdded(l) /\ w \in Rewarders
  BY PoolFacts DEF Safe, IInv, Accounts, Harvest
<1>2. /\ amount \in [LpTokens -> [Users -> Nat]] /\ totalStaked[l] \in Nat /\ n \in Nat
      /\ deposits[w] \in Nat /\ withdrawals[w] \in Nat
  BY <1>1 DEF TypeOK
<1>3. /\ PayReward(u, l) /\ ChargeDebt(u, l, n)
      /\ amount' = amount /\ totalStaked' = totalStaked /\ lpBalance' = lpBalance
      /\ deposits' = deposits /\ withdrawals' = withdrawals
      /\ rewarderOf' = rewarderOf /\ now' = now
  BY DEF Harvest, chefVars
<1>4. LpConserved'
  BY <1>1, <1>3 DEF LpConserved
<1>5. amount'[l] = [amount[l] EXCEPT ![u] = n]
  BY <1>2, <1>3
<1> HIDE DEF w
<1>6. totalStaked'[l] = totalStaked[l] - amount[l][u] + n
  BY <1>2, <1>3
<1>7. deposits'[w] + withdrawals'[w] = deposits[w] + withdrawals[w] + 0
  BY <1>2, <1>3
<1>8. 0 \in {0, 1} /\ (0 = 0 => n = amount[l][u])
  OBVIOUS
<1> HIDE DEF n
<1>9. QED
  BY <1>1, <1>2, <1>3, <1>4, <1>5, <1>6, <1>7, <1>8, CallKeepsAccounts DEF w

(* The administrator's calls update the rewarder and charge no debt. *)
LEMMA SettingKeepsAccounts ==
  ASSUME NEW B \in Nat, Fits(B), Safe, Accounts(B),
         NEW l \in LpTokens, PoolAdded(l), NEW r,
         rewarder' = [rewarder EXCEPT ![rewarderOf[l]] = r],
         r.rewardDebt = Updated(l).rewardDebt,
         r.accRewardPerShare = Updated(l).accRewardPerShare,
         r.rewardDistributed = Updated(l).rewardDistributed,
         r.lastUpdateTime = Updated(l).lastUpdateTime,
         UNCHANGED <<now, chefVars, deployed, tokenVars, historyVars>>
  PROVE  Accounts(B)'
<1> DEFINE w == rewarderOf[l]
<1>1. w \in Rewarders /\ rewarder \in [Rewarders -> RewarderState] /\ LpConserved
  BY PoolFacts DEF Safe, IInv, TypeOK, Accounts
<1>2. UNCHANGED <<now, rewarderOf, totalStaked, amount, lpBalance, paid, deposits, withdrawals>>
  BY DEF chefVars, tokenVars, historyVars
<1>3. rewarder'[w] = r /\ \A v \in Rewarders : v # w => rewarder'[v] = rewarder[v]
  BY <1>1
<1>4. /\ Limited(Updated(l), B, now)
      /\ Balanced(Updated(l), totalStaked[l], amount[l], paid[w], deposits[w] + withdrawals[w])
  BY UpdatedIsBalanced
<1>5. /\ Limited(r, B, now)
      /\ Balanced(r, totalStaked[l], amount[l], paid[w], deposits[w] + withdrawals[w])
  BY <1>4 DEF Limited, Balanced
<1>6. LpConserved'
  BY <1>1, <1>2 DEF LpConserved
<1>7. OnlyTouches(l)
  BY <1>2, <1>3 DEF OnlyTouches
<1> HIDE DEF w
<1>8. rewarderOf'[l] = w
  BY <1>2 DEF w
<1>9. Books(l)'
  BY <1>2, <1>3, <1>5, <1>8 DEF Books
<1>10. QED
  BY <1>3, <1>5, <1>6, <1>7, <1>9, OtherBooksKept DEF w

LEMMA SetRateKeepsAccounts ==
  ASSUME NEW B \in Nat, Fits(B), Safe, Accounts(B),
         NEW l \in LpTokens, NEW rate \in RewardRates, SetPoolRewardRate(l, rate)
  PROVE  Accounts(B)'
<1> DEFINE r == [Updated(l) EXCEPT !.rewardPerSecond = rate]
<1>1. /\ PoolAdded(l) /\ rewarder' = [rewarder EXCEPT ![rewarderOf[l]] = r]
      /\ UNCHANGED <<now, chefVars, deployed, tokenVars, historyVars>>
  BY DEF SetPoolRewardRate
<1>2. /\ r.rewardDebt = Updated(l).rewardDebt
      /\ r.accRewardPerShare = Updated(l).accRewardPerShare
      /\ r.rewardDistributed = Updated(l).rewardDistributed
      /\ r.lastUpdateTime = Updated(l).lastUpdateTime
  BY <1>1, PoolFacts DEF RewarderState, Safe, IInv
<1> HIDE DEF r
<1>3. QED
  BY <1>1, <1>2, SettingKeepsAccounts

LEMMA SetCapKeepsAccounts ==
  ASSUME NEW B \in Nat, Fits(B), Safe, Accounts(B),
         NEW l \in LpTokens, NEW cap \in RewardCaps, SetPoolRewardCap(l, cap)
  PROVE  Accounts(B)'
<1> DEFINE r == [Updated(l) EXCEPT !.totalRewardCap = cap]
<1>1. /\ PoolAdded(l) /\ rewarder' = [rewarder EXCEPT ![rewarderOf[l]] = r]
      /\ UNCHANGED <<now, chefVars, deployed, tokenVars, historyVars>>
  BY DEF SetPoolRewardCap
<1>2. /\ r.rewardDebt = Updated(l).rewardDebt
      /\ r.accRewardPerShare = Updated(l).accRewardPerShare
      /\ r.rewardDistributed = Updated(l).rewardDistributed
      /\ r.lastUpdateTime = Updated(l).lastUpdateTime
  BY <1>1, PoolFacts DEF RewarderState, Safe, IInv
<1> HIDE DEF r
<1>3. QED
  BY <1>1, <1>2, SettingKeepsAccounts

LEMMA NewIsLimited ==
  ASSUME NEW B \in Nat, NEW rate, NEW cap, NEW t \in Nat
  PROVE  Limited(NewRewarder(rate, cap, t, Users), B, t)
<1>1. 0 <= B * t /\ 0 <= Precision * 0 /\ t <= t
  BY RewarderAssumption
<1>2. QED
  BY <1>1 DEF Limited, NewRewarder

LEMMA PoolsAreDeployed ==
  ASSUME Safe, NEW w \in Rewarders, w \notin deployed
  PROVE  /\ \A l \in LpTokens : rewarderOf[l] # w
         /\ \A l \in LpTokens : PoolAdded(l) => rewarderOf[l] \in Rewarders
<1>1. \A l \in LpTokens : PoolAdded(l) => rewarderOf[l] \in deployed /\ rewarderOf[l] \in Rewarders
  BY PoolFacts DEF Safe, IInv
<1>2. QED
  BY <1>1, ChefAssumption DEF PoolAdded

LEMMA DeployKeepsAccounts ==
  ASSUME NEW B \in Nat, Safe, Accounts(B), NEW w \in Rewarders, NEW rate, NEW cap,
         DeployRewarder(w, rate, cap)
  PROVE  Accounts(B)'
<1> DEFINE r == NewRewarder(rate, cap, now, Users)
<1>1. /\ w \notin deployed /\ rewarder' = [rewarder EXCEPT ![w] = r]
      /\ UNCHANGED <<now, rewarderOf, totalStaked, amount, lpBalance, paid, deposits, withdrawals>>
  BY DEF DeployRewarder, Deploy, chefVars, tokenVars, historyVars
<1>2. rewarder \in [Rewarders -> RewarderState] /\ now \in Nat
  BY ChefAssumption DEF Safe, IInv, TypeOK
<1>3. Limited(r, B, now) /\ \A u \in Users : r.rewardDebt[u] = 0
  BY <1>2, NewIsLimited DEF NewRewarder
<1> HIDE DEF r
<1>4. rewarder'[w] = r /\ \A v \in Rewarders : v # w => rewarder'[v] = rewarder[v]
  BY <1>1, <1>2
<1>5. /\ \A l \in LpTokens : rewarderOf[l] # w
      /\ \A l \in LpTokens : PoolAdded(l) => rewarderOf[l] \in Rewarders
  BY <1>1, PoolsAreDeployed
<1>6. LpConserved' /\ UnaddedIsEmpty'
  BY <1>1 DEF Accounts, LpConserved, UnaddedIsEmpty, PoolAdded
<1>7. UnusedIsFresh'
  BY <1>1, <1>3, <1>4 DEF Accounts, UnusedIsFresh
<1>8. \A v \in Rewarders : Limited(rewarder'[v], B, now')
  BY <1>1, <1>3, <1>4 DEF Accounts
<1>9. ASSUME NEW l \in LpTokens, PoolAdded(l)' PROVE Books(l)'
  <2>1. /\ PoolAdded(l) /\ rewarderOf'[l] = rewarderOf[l]
        /\ rewarder'[rewarderOf[l]] = rewarder[rewarderOf[l]]
    BY <1>1, <1>4, <1>5, <1>9 DEF PoolAdded
  <2>2. Books(l)
    BY <2>1 DEF Accounts
  <2>3. QED
    BY <1>1, <2>1, <2>2 DEF Books
<1>10. QED
  BY <1>6, <1>7, <1>8, <1>9 DEF Accounts

(* A pool opened with a rewarder no pool uses starts with balanced books.  *)
LEMMA OpenedIsBalanced ==
  ASSUME NEW r \in RewarderState, \A u \in Users : r.rewardDebt[u] = 0,
         NEW stakes \in [Users -> Nat], NEW calls \in Nat
  PROVE  Balanced(r, 0, stakes, 0, calls)
<1>1. /\ r.accRewardPerShare \in Nat /\ r.rewardDistributed \in Nat /\ Precision \in Nat
      /\ IsFiniteSet(Users)
  BY RewarderFields, RewarderAssumption, ChefAssumption
<1>2. SumFunctionOnSet(r.rewardDebt, Users) = 0
  BY <1>1, SumZero
<1>3. ASSUME NEW u \in Users
      PROVE  Precision * r.rewardDebt[u] <= stakes[u] * r.accRewardPerShare
  <2>1. stakes[u] * r.accRewardPerShare \in Nat /\ Precision * 0 = 0
    BY <1>1
  <2>2. QED
    BY <2>1
<1>4. Precision * 0 + 0 * r.accRewardPerShare
        <= Precision * 0 + Precision * (r.rewardDistributed + calls)
  <2>1. /\ Precision * (r.rewardDistributed + calls) \in Nat
        /\ Precision * 0 = 0 /\ 0 * r.accRewardPerShare = 0
    BY <1>1
  <2>2. QED
    BY <2>1
<1>5. QED
  BY <1>2, <1>3, <1>4 DEF Balanced

LEMMA OpeningKeepsAccounts ==
  ASSUME NEW B \in Nat, Safe, Accounts(B), IInv',
         NEW l \in LpTokens, ~PoolAdded(l), NEW w \in Rewarders,
         \A k \in LpTokens : rewarderOf[k] # w,
         rewarderOf' = [rewarderOf EXCEPT ![l] = w],
         Limited(rewarder'[w], B, now), \A u \in Users : rewarder'[w].rewardDebt[u] = 0,
         \A v \in Rewarders : v # w => rewarder'[v] = rewarder[v],
         UNCHANGED <<now, totalStaked, amount, lpBalance, historyVars>>
  PROVE  Accounts(B)'
<1>1. UNCHANGED <<paid, deposits, withdrawals>>
  BY DEF historyVars
<1>2. /\ rewarderOf'[l] = w
      /\ \A k \in LpTokens : k # l => rewarderOf'[k] = rewarderOf[k]
  BY DEF Safe, IInv, TypeOK
<1>3. w # NoRewarder
  BY ChefAssumption
<1>4. LpConserved' /\ UnaddedIsEmpty'
  BY <1>2, <1>3 DEF Accounts, LpConserved, UnaddedIsEmpty, PoolAdded
<1>5. ASSUME NEW v \in Rewarders, \A k \in LpTokens : rewarderOf'[k] # v
      PROVE  paid'[v] = 0 /\ \A u \in Users : rewarder'[v].rewardDebt[u] = 0
  <2>1. v # w
    BY <1>2, <1>5
  <2>2. \A k \in LpTokens : rewarderOf[k] # v
    <3>1. rewarderOf[l] # v
      BY ChefAssumption DEF PoolAdded
    <3>2. QED
      BY <1>2, <1>5, <3>1
  <2>3. paid[v] = 0 /\ \A u \in Users : rewarder[v].rewardDebt[u] = 0
    BY <2>2 DEF Accounts, UnusedIsFresh
  <2>4. QED
    BY <1>1, <2>1, <2>3
<1>6. UnusedIsFresh'
  BY <1>5 DEF UnusedIsFresh
<1>7. \A v \in Rewarders : Limited(rewarder'[v], B, now')
  BY DEF Accounts
<1>8. ASSUME NEW k \in LpTokens, PoolAdded(k)' PROVE Books(k)'
  <2>1. CASE k = l
    <3>1. totalStaked[l] = 0 /\ paid[w] = 0
      BY DEF Accounts, UnaddedIsEmpty, UnusedIsFresh
    <3>2. rewarder'[w] \in RewarderState
      BY DEF IInv, TypeOK
    <3>3. amount[l] \in [Users -> Nat] /\ deposits[w] + withdrawals[w] \in Nat
      BY DEF Safe, IInv, TypeOK
    <3>4. Balanced(rewarder'[w], 0, amount[l], 0, deposits[w] + withdrawals[w])
      BY <3>2, <3>3, OpenedIsBalanced
    <3>5. QED
      BY <1>1, <1>2, <2>1, <3>1, <3>4 DEF Books
  <2>2. CASE k # l
    <3>1. PoolAdded(k) /\ rewarderOf'[k] = rewarderOf[k]
      BY <1>2, <1>8, <2>2 DEF PoolAdded
    <3>2. rewarderOf[k] \in Rewarders
      BY <3>1, PoolFacts DEF Safe, IInv
    <3>3. rewarder'[rewarderOf[k]] = rewarder[rewarderOf[k]]
      BY <3>2
    <3>4. Books(k)
      BY <3>1 DEF Accounts
    <3>5. QED
      BY <1>1, <3>1, <3>3, <3>4 DEF Books
  <2>3. QED
    BY <2>1, <2>2
<1>9. QED
  BY <1>4, <1>6, <1>7, <1>8 DEF Accounts

LEMMA AddKeepsAccounts ==
  ASSUME ~RewardersAreShared, NEW B \in Nat, Safe, Accounts(B), IInv',
         NEW l \in LpTokens, NEW w \in Rewarders, Add(l, w)
  PROVE  Accounts(B)'
<1>1. /\ ~PoolAdded(l) /\ \A k \in LpTokens : rewarderOf[k] # w
      /\ rewarderOf' = [rewarderOf EXCEPT ![l] = w]
      /\ UNCHANGED <<now, totalStaked, amount, lpBalance, historyVars>> /\ rewarder' = rewarder
  BY DEF Add, tokenVars
<1>2. Limited(rewarder'[w], B, now) /\ \A u \in Users : rewarder'[w].rewardDebt[u] = 0
  BY <1>1 DEF Accounts, UnusedIsFresh
<1>3. QED
  BY <1>1, <1>2, OpeningKeepsAccounts

LEMMA AddPoolWithRewarderKeepsAccounts ==
  ASSUME NEW B \in Nat, Safe, Accounts(B), IInv',
         NEW l \in LpTokens, NEW w \in Rewarders, NEW rate, NEW cap,
         AddPoolWithRewarder(l, w, rate, cap)
  PROVE  Accounts(B)'
<1> DEFINE r == NewRewarder(rate, cap, now, Users)
<1>1. /\ ~PoolAdded(l) /\ w \notin deployed
      /\ rewarderOf' = [rewarderOf EXCEPT ![l] = w]
      /\ rewarder' = [rewarder EXCEPT ![w] = r]
      /\ UNCHANGED <<now, totalStaked, amount, lpBalance, historyVars>>
  BY DEF AddPoolWithRewarder, Deploy, tokenVars
<1>2. rewarder \in [Rewarders -> RewarderState] /\ now \in Nat
  BY ChefAssumption DEF Safe, IInv, TypeOK
<1>3. Limited(r, B, now) /\ \A u \in Users : r.rewardDebt[u] = 0
  BY <1>2, NewIsLimited DEF NewRewarder
<1> HIDE DEF r
<1>4. rewarder'[w] = r /\ \A v \in Rewarders : v # w => rewarder'[v] = rewarder[v]
  BY <1>1, <1>2
<1>5. \A k \in LpTokens : rewarderOf[k] # w
  BY <1>1, PoolsAreDeployed
<1>6. QED
  BY <1>1, <1>3, <1>4, <1>5, OpeningKeepsAccounts

-----------------------------------------------------------------------------
(* Calls and blocks that leave pools and rewarders alone. *)
LEMMA QuietKeepsAccounts ==
  ASSUME NEW B \in Nat, TypeOK, TypeOK', Accounts(B), LpConserved', now <= now',
         UNCHANGED <<chefVars, rewarder, historyVars>>
  PROVE  Accounts(B)'
<1>1. UNCHANGED <<rewarderOf, totalStaked, amount, rewarder, paid, deposits, withdrawals>>
  BY DEF chefVars, historyVars
<1>2. UnusedIsFresh' /\ UnaddedIsEmpty'
  BY <1>1 DEF Accounts, UnusedIsFresh, UnaddedIsEmpty, PoolAdded
<1>3. ASSUME NEW w \in Rewarders PROVE Limited(rewarder'[w], B, now')
  <2>1. Limited(rewarder[w], B, now) /\ rewarder[w].lastUpdateTime \in Nat
    BY RewarderFields, ChefAssumption DEF Accounts, TypeOK
  <2>2. now \in Nat /\ now' \in Nat
    BY ChefAssumption DEF TypeOK
  <2>3. QED
    BY <1>1, <2>1, <2>2 DEF Limited
<1>4. \A l \in LpTokens : PoolAdded(l)' => Books(l)'
  BY <1>1 DEF Accounts, Books, PoolAdded
<1>5. QED
  BY <1>2, <1>3, <1>4 DEF Accounts

LEMMA FundRewarderKeepsAccounts ==
  ASSUME NEW B \in Nat, Safe, Accounts(B), IInv', NEW w, NEW x, FundRewarder(w, x)
  PROVE  Accounts(B)'
<1>1. UNCHANGED <<now, chefVars, rewarder, lpBalance, historyVars>>
  BY DEF FundRewarder
<1>2. LpConserved'
  BY <1>1 DEF Accounts, LpConserved
<1>3. TypeOK /\ TypeOK' /\ now <= now'
  BY <1>1, ChefAssumption DEF Safe, IInv, TypeOK
<1>4. QED
  BY <1>1, <1>2, <1>3, QuietKeepsAccounts

LEMMA SendLpKeepsAccounts ==
  ASSUME NEW B \in Nat, Safe, Accounts(B), IInv', NEW u \in Users, NEW l \in LpTokens,
         NEW to \in StakeAccount, NEW x \in Nat, SendLp(u, l, to, x)
  PROVE  Accounts(B)'
<1>1. UNCHANGED <<now, chefVars, rewarder, historyVars>> /\ LpMoves(l, u, to, x)
  BY DEF SendLp, LpMoves
<1>2. TypeOK /\ TypeOK' /\ now <= now' /\ LpConserved /\ u \in StakeAccount
  BY <1>1, ChefAssumption, StakeAccountFacts DEF Safe, IInv, TypeOK, Accounts
<1>3. LpConserved'
  BY <1>1, <1>2, LpConservedKept
<1>4. QED
  BY <1>1, <1>2, <1>3, QuietKeepsAccounts

LEMMA NextBlockKeepsAccounts ==
  ASSUME NEW B \in Nat, Safe, Accounts(B), IInv', NextBlock
  PROVE  Accounts(B)'
<1>1. UNCHANGED <<chefVars, rewarder, lpBalance, historyVars>> /\ now' = now + 1
  BY DEF NextBlock, tokenVars
<1>2. TypeOK /\ TypeOK' /\ now <= now'
  BY <1>1, ChefAssumption DEF Safe, IInv, TypeOK
<1>3. LpConserved'
  BY <1>1 DEF Accounts, LpConserved
<1>4. QED
  BY <1>1, <1>2, <1>3, QuietKeepsAccounts

LEMMA StutterKeepsAccounts ==
  ASSUME NEW B \in Nat, Safe, Accounts(B), IInv', UNCHANGED vars
  PROVE  Accounts(B)'
<1>1. UNCHANGED <<now, chefVars, rewarder, lpBalance, historyVars>>
  BY DEF vars, tokenVars
<1>2. TypeOK /\ TypeOK' /\ now <= now'
  BY <1>1, ChefAssumption DEF Safe, IInv, TypeOK
<1>3. LpConserved'
  BY <1>1 DEF Accounts, LpConserved
<1>4. QED
  BY <1>1, <1>2, <1>3, QuietKeepsAccounts

LEMMA NextKeepsAccounts ==
  ASSUME ~RewardersAreShared, NEW B \in Nat, Fits(B), Safe, Accounts(B), IInv', [Next]_vars
  PROVE  Accounts(B)'
<1>1. SUFFICES ASSUME Next PROVE Accounts(B)'
  BY StutterKeepsAccounts
<1>2. \A x \in Amounts : x \in Nat
  BY ChefAssumption
<1>3. CASE NextBlock
  BY <1>3, NextBlockKeepsAccounts
<1>4. ASSUME NEW w \in Rewarders, NEW rate \in RewardRates, NEW cap \in RewardCaps,
             \/ DeployRewarder(w, rate, cap)
             \/ \E l \in LpTokens : AddPoolWithRewarder(l, w, rate, cap)
      PROVE  Accounts(B)'
  BY <1>4, DeployKeepsAccounts, AddPoolWithRewarderKeepsAccounts
<1>5. ASSUME NEW l \in LpTokens,
             \/ \E w \in Rewarders : Add(l, w)
             \/ \E rate \in RewardRates : SetPoolRewardRate(l, rate)
             \/ \E cap \in RewardCaps : SetPoolRewardCap(l, cap)
      PROVE  Accounts(B)'
  BY <1>5, AddKeepsAccounts, SetRateKeepsAccounts, SetCapKeepsAccounts
<1>6. ASSUME NEW l \in LpTokens, NEW u \in Users, Harvest(u, l) PROVE Accounts(B)'
  BY <1>6, HarvestKeepsAccounts
<1>7. ASSUME NEW l \in LpTokens, NEW u \in Users, NEW x \in Amounts,
             \/ Deposit(u, l, x)
             \/ Withdraw(u, l, x)
             \/ \E to \in StakeAccount : SendLp(u, l, to, x)
      PROVE  Accounts(B)'
  BY <1>2, <1>7, DepositKeepsAccounts, WithdrawKeepsAccounts, SendLpKeepsAccounts
<1>8. ASSUME NEW w \in Rewarders, NEW x \in Amounts, FundRewarder(w, x)
      PROVE  Accounts(B)'
  BY <1>8, FundRewarderKeepsAccounts
<1>9. QED
  BY <1>1, <1>3, <1>4, <1>5, <1>6, <1>7, <1>8 DEF Next

LEMMA InitHasAccounts ==
  ASSUME NEW B \in Nat, Init PROVE Accounts(B)
<1>1. IInv
  BY InitIsSafe
<1>2. LpConserved
  <2>1. SUFFICES ASSUME NEW l \in LpTokens
                 PROVE  SumFunctionOnSet(lpBalance[l], StakeAccount) = LpTotal(l)
    BY DEF LpConserved
  <2>2. \A a \in StakeAccount : lpBalance[l][a] \in Int
    BY <1>1 DEF IInv, TypeOK
  <2>3. /\ lpBalance[l][Chef] = 0
        /\ \A u \in Users : lpBalance[l][u] = LpSupply[l][u]
    BY StakeAccountFacts, ChefAssumption DEF Init
  <2>4. SumFunctionOnSet(lpBalance[l], StakeAccount)
          = 0 + SumFunctionOnSet(lpBalance[l], StakeAccount \ {Chef})
    BY <2>2, <2>3, StakeAccountFacts, SumRemove
  <2>5. StakeAccount \ {Chef} = Users
    BY ChefAssumption DEF StakeAccount
  <2>6. SumFunctionOnSet(lpBalance[l], Users) = SumFunctionOnSet(LpSupply[l], Users)
    BY <2>3, ChefAssumption, SumCongruence
  <2>7. QED
    BY <2>4, <2>5, <2>6, LpTotalType DEF LpTotal
<1>3. UnusedIsFresh
  BY DEF Init, UnusedIsFresh, NewRewarder
<1>4. UnaddedIsEmpty /\ \A l \in LpTokens : ~PoolAdded(l)
  BY DEF Init, UnaddedIsEmpty, PoolAdded
<1>5. \A w \in Rewarders : Limited(rewarder[w], B, now)
  <2>1. now \in Nat /\ now = 0
    BY DEF Init
  <2>2. Limited(NewRewarder(0, 0, 0, Users), B, 0)
    BY NewIsLimited
  <2>3. QED
    BY <2>1, <2>2 DEF Init
<1>6. QED
  BY <1>2, <1>3, <1>4, <1>5 DEF Accounts

-----------------------------------------------------------------------------
(* From the books to the promise. *)

(* Per staker, p units of what is owed (f) and of the debt (g) are covered *)
(* by the stake (h) times c; hence so are their sums.                      *)
LEMMA SumOfShares ==
  ASSUME NEW S, IsFiniteSet(S), NEW f \in [S -> Nat], NEW g \in [S -> Nat],
         NEW h \in [S -> Nat], NEW p \in Nat, NEW c \in Nat,
         \A x \in S : p * f[x] + p * g[x] <= h[x] * c
  PROVE  p * SumFunctionOnSet(f, S) + p * SumFunctionOnSet(g, S)
           <= SumFunctionOnSet(h, S) * c
<1> DEFINE F(U) == SumFunctionOnSet(f, U)
           G(U) == SumFunctionOnSet(g, U)
           H(U) == SumFunctionOnSet(h, U)
           Good == {U \in SUBSET S : p * F(U) + p * G(U) <= H(U) * c}
<1>1. ASSUME NEW U \in SUBSET S, \A V \in SUBSET U : V # U => V \in Good
      PROVE  U \in Good
  <2>1. IsFiniteSet(U)
    BY FS_Subset
  <2>2. CASE U = {}
    <3>1. F(U) = 0 /\ G(U) = 0 /\ H(U) = 0
      BY <2>1, <2>2, SumZero
    <3> HIDE DEF F, G, H
    <3>2. p * 0 + p * 0 <= 0 * c
      OBVIOUS
    <3>3. QED
      BY <3>1, <3>2
  <2>3. CASE U # {}
    <3> DEFINE x == Pick(U)
               V == U \ {x}
    <3>1. x \in U /\ x \in S /\ V \in SUBSET U /\ V # U /\ IsFiniteSet(V) /\ V \in SUBSET S
      BY <2>1, <2>3, PickIn, FS_Subset
    <3>2. V \in Good
      BY <1>1, <3>1
    <3>3. /\ F(U) = f[x] + F(V) /\ G(U) = g[x] + G(V) /\ H(U) = h[x] + H(V)
      BY <2>1, <2>3, SumRemovesPick
    <3>4. F(V) \in Nat /\ G(V) \in Nat /\ H(V) \in Nat
      BY <3>1, SumType
    <3>5. f[x] \in Nat /\ g[x] \in Nat /\ h[x] \in Nat /\ p * f[x] + p * g[x] <= h[x] * c
      BY <3>1
    <3>6. p * F(V) + p * G(V) <= H(V) * c
      BY <3>2
    <3> HIDE DEF F, G, H, x, V
    <3>7. p * (f[x] + F(V)) + p * (g[x] + G(V)) <= (h[x] + H(V)) * c
      <4>1. /\ p * (f[x] + F(V)) = p * f[x] + p * F(V)
            /\ p * (g[x] + G(V)) = p * g[x] + p * G(V)
            /\ (h[x] + H(V)) * c = h[x] * c + H(V) * c
        BY <3>4, <3>5
      <4>2. /\ p * f[x] \in Nat /\ p * F(V) \in Nat /\ p * g[x] \in Nat /\ p * G(V) \in Nat
            /\ h[x] * c \in Nat /\ H(V) * c \in Nat
        BY <3>4, <3>5
      <4>3. QED
        BY <3>5, <3>6, <4>1, <4>2
    <3>8. QED
      BY <3>3, <3>7
  <2>4. QED
    BY <2>2, <2>3
<1>2. \A U \in SUBSET S : U \in Good
  <2> HIDE DEF Good
  <2> QED BY <1>1, SubsetInduction
<1>3. QED
  BY <1>2

LEMMA BooksBalance ==
  ASSUME NEW B \in Nat, Fits(B), Safe, Accounts(B), NEW l \in LpTokens, PoolAdded(l)
  PROVE  paid[rewarderOf[l]] + Owed(l)
           <= rewarder[rewarderOf[l]].rewardDistributed
              + deposits[rewarderOf[l]] + withdrawals[rewarderOf[l]]
<1> DEFINE w == rewarderOf[l]
           r == rewarder[w]
           acc == r.accRewardPerShare
           dist == r.rewardDistributed
           debts == r.rewardDebt
           owed == [u \in Users |-> Unpaid(r, u, amount[l][u])]
           D == SumFunctionOnSet(debts, Users)
           S == totalStaked[l]
           O == SumFunctionOnSet(owed, Users)
           calls == deposits[w] + withdrawals[w]
<1>1. /\ IInv /\ TypeOK /\ LpConserved /\ w \in Rewarders /\ r \in RewarderState
      /\ now \in 0 .. MaxTime /\ S \in Nat
  BY PoolFacts DEF Safe, IInv, Accounts
<1>2. /\ amount[l] \in [Users -> Nat] /\ paid[w] \in Nat
      /\ deposits[w] \in Nat /\ withdrawals[w] \in Nat
      /\ S = SumFunctionOnSet(amount[l], Users)
  BY <1>1 DEF IInv, TypeOK, StakesAreBacked
<1>3. /\ acc \in Nat /\ dist \in Nat /\ debts \in [Users -> Nat]
      /\ Precision \in Nat \ {0} /\ IsFiniteSet(Users)
  BY <1>1, RewarderFields, RewarderAssumption, ChefAssumption
<1>4. owed \in [Users -> Nat]
  <2>1. \A u \in Users : Unpaid(r, u, amount[l][u]) \in 0 .. MaxUint256
    BY <1>1, <1>2, UnpaidType
  <2>2. QED
    BY <2>1
<1>5. O \in Nat /\ D \in Nat
  BY <1>3, <1>4, SumBounds
<1>6. Balanced(r, S, amount[l], paid[w], calls) /\ Limited(r, B, now)
  BY <1>1 DEF Accounts, Books
<1>7. acc <= Precision * (B * MaxTime)
  BY <1>1, <1>6, AccumulatorFits
<1>8. ASSUME NEW u \in Users
      PROVE  Precision * owed[u] + Precision * debts[u] <= amount[l][u] * acc
  <2> DEFINE a == amount[l][u]
             d == debts[u]
             y == a * acc
             e == y \div Precision
  <2>1. a \in Nat /\ a <= LpTotal(l) /\ d \in Nat
    BY <1>1, <1>3, StakeFits
  <2>2. y <= MaxUint256 /\ y \in Nat
    <3> HIDE DEF a, acc
    <3>1. QED
      BY <1>3, <1>7, <2>1, ProductsFit
  <2>3. Precision * d <= y
    BY <1>6 DEF Balanced
  <2>4. d <= e /\ Unpaid(r, u, a) = e - d
    BY <1>1, <2>1, <2>2, <2>3, UnpaidExact
  <2>5. owed[u] = e - d
    BY <2>4
  <2> HIDE DEF a, d, y, owed
  <2>6. e \in Nat /\ Precision * e <= y
    BY <1>3, <2>2, Quotient
  <2> HIDE DEF e
  <2>7. Precision * (e - d) = Precision * e - Precision * d
    BY <1>3, <2>1, <2>6
  <2>8. Precision * e \in Nat /\ Precision * d \in Nat
    BY <1>3, <2>1, <2>6
  <2>9. Precision * owed[u] + Precision * d <= y
    BY <2>2, <2>5, <2>6, <2>7, <2>8
  <2>10. QED
    BY <2>9 DEF a, d, y
<1>9. /\ Precision * paid[w] + S * acc <= Precision * D + Precision * (dist + calls)
  BY <1>6 DEF Balanced
<1> HIDE DEF owed, debts, acc, dist
<1>10. Precision * O + Precision * D <= S * acc
  BY <1>2, <1>3, <1>4, <1>8, SumOfShares
<1>11. paid[w] + O <= dist + calls
  <2> HIDE DEF O, D, S
  <2>1. calls \in Nat
    BY <1>2
  <2> HIDE DEF calls
  <2>2. Precision * (paid[w] + O) = Precision * paid[w] + Precision * O
    BY <1>2, <1>3, <1>5
  <2>3. /\ Precision * paid[w] \in Nat /\ Precision * O \in Nat /\ Precision * D \in Nat
        /\ S * acc \in Nat /\ Precision * (dist + calls) \in Nat
    BY <1>1, <1>2, <1>3, <1>5, <2>1
  <2>4. Precision * (paid[w] + O) <= Precision * (dist + calls)
    BY <1>9, <1>10, <2>2, <2>3
  <2>5. paid[w] + O \in Nat /\ dist + calls \in Nat
    BY <1>2, <1>3, <1>5, <2>1
  <2>6. QED
    BY <1>3, <2>4, <2>5, CancelFactor
<1>12. O = Owed(l)
  BY DEF Owed, owed
<1>13. dist + calls = dist + deposits[w] + withdrawals[w]
  BY <1>2, <1>3
<1>14. QED
  BY <1>11, <1>12, <1>13 DEF dist

(* No interleaving of stakers and administrators makes a rewarder promise  *)
(* rewards twice, when each pool has a rewarder of its own, no cap is set  *)
(* below what was distributed, and the products fit their words.           *)
THEOREM RewardsPromisedOnce ==
  ASSUME NEW B \in Nat, Fits(B), ~RewardersAreShared, ~CapMayDropBelow
  PROVE  Spec => []RewardsNotPromisedTwice
<1>1. Init => Accounts(B) /\ NotShared
  BY InitHasAccounts DEF Init, NotShared, PoolAdded
<1>2. IInv /\ IInv' /\ CapIsKept /\ NotShared /\ Accounts(B) /\ [Next]_vars
        => Accounts(B)' /\ NotShared'
  BY NextKeepsAccounts, NotSharedKept DEF Safe
<1>3. IInv /\ CapIsKept /\ NotShared /\ Accounts(B) => RewardsNotPromisedTwice
  BY BooksBalance DEF Safe, RewardsNotPromisedTwice
<1>4. QED
  BY <1>1, <1>2, <1>3, Inductive, CapHolds, PTL DEF Spec
=============================================================================
