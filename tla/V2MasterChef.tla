---------------------------- MODULE V2MasterChef ----------------------------
(***************************************************************************)
(* LP staking: V2MasterChef.sol and the rewarders (Rewarder.sol) it pays   *)
(* rewards through.  A pool is identified by its LP token, of which no two *)
(* pools share one.  Every call is a transaction: it happens as a whole or *)
(* not at all.  The reward token is not one of the staked LP tokens.       *)
(***************************************************************************)
EXTENDS Rewarder, Ledger, FiniteSets

CONSTANTS
  Users,              \* stakers
  Chef,               \* the address of V2MasterChef
  Treasury,           \* whoever funds the rewarders
  LpTokens,           \* the LP tokens pools may be opened for
  Rewarders,          \* the rewarder contracts that may be deployed
  NoRewarder,         \* stands for a pool that has not been added
  LpSupply,           \* LP token -> user -> LP held at the start
  RewardSupply,       \* reward tokens in the treasury at the start
  Amounts,            \* amounts staked, withdrawn, funded
  RewardRates,        \* values of rewardPerSecond
  RewardCaps,         \* values of totalRewardCap, 0 for none
  RewardersAreShared, \* may `add` attach a rewarder to two pools?
  CapMayDropBelow,    \* may a cap be set below what is distributed?
  MaxTime,            \* bound on the block time
  MaxDeposits         \* bound on the number of deposits

StakeAccount == Users \cup {Chef}
RewardAccount == Users \cup Rewarders \cup {Treasury}

ASSUME ChefAssumption ==
  /\ IsFiniteSet(Users) /\ IsFiniteSet(LpTokens) /\ IsFiniteSet(Rewarders)
  /\ Chef \notin Users /\ NoRewarder \notin Rewarders
  /\ Treasury \notin Users \cup Rewarders /\ Users \cap Rewarders = {}
  /\ LpSupply \in [LpTokens -> [Users -> Nat]] /\ RewardSupply \in Nat
  /\ Amounts \subseteq Nat /\ RewardRates \subseteq Nat /\ RewardCaps \subseteq 0 .. MaxUint256
  /\ RewardersAreShared \in BOOLEAN /\ CapMayDropBelow \in BOOLEAN
  /\ MaxTime \in Nat /\ MaxDeposits \in Nat

VARIABLES
  now,            \* block.timestamp
  rewarderOf,     \* LP token -> rewarder of its pool, or NoRewarder
  totalStaked,    \* LP token -> LP staked in its pool
  amount,         \* LP token -> user -> userInfo.amount
  rewarder,       \* rewarder -> its storage
  deployed,       \* the rewarders that exist
  lpBalance,      \* LP token -> account -> balance
  rewardBalance,  \* account -> balance of the reward token
  paid,           \* history: rewarder -> rewards it has paid
  deposits,       \* history: rewarder -> deposits made through it
  withdrawals     \* history: rewarder -> withdrawals made through it

chefVars == <<rewarderOf, totalStaked, amount>>
tokenVars == <<lpBalance, rewardBalance>>
historyVars == <<paid, deposits, withdrawals>>
vars == <<now, chefVars, rewarder, deployed, tokenVars, historyVars>>

Init ==
  /\ now = 0
  /\ rewarderOf = [l \in LpTokens |-> NoRewarder]
  /\ totalStaked = [l \in LpTokens |-> 0]
  /\ amount = [l \in LpTokens |-> [u \in Users |-> 0]]
  /\ rewarder = [w \in Rewarders |-> NewRewarder(0, 0, 0, Users)]
  /\ deployed = {}
  /\ lpBalance = [l \in LpTokens |-> [a \in StakeAccount |->
                    IF a \in Users THEN LpSupply[l][a] ELSE 0]]
  /\ rewardBalance = [a \in RewardAccount |->
                        IF a = Treasury THEN RewardSupply ELSE 0]
  /\ paid = [w \in Rewarders |-> 0]
  /\ deposits = [w \in Rewarders |-> 0]
  /\ withdrawals = [w \in Rewarders |-> 0]

-----------------------------------------------------------------------------
(* Administration: calls of accounts with STAKING_ADMIN_ROLE. *)

PoolAdded(l) == rewarderOf[l] # NoRewarder

Deploy(w, rate, cap) ==
  /\ w \notin deployed
  /\ deployed' = deployed \cup {w}
  /\ rewarder' = [rewarder EXCEPT ![w] = NewRewarder(rate, cap, now, Users)]

(* A rewarder deployed by hand, to be attached with `add`.                 *)
DeployRewarder(w, rate, cap) ==
  /\ Deploy(w, rate, cap)
  /\ UNCHANGED <<now, chefVars, tokenVars, historyVars>>

Add(l, w) ==
  /\ ~PoolAdded(l)
  /\ w \in deployed
  /\ RewardersAreShared \/ \A k \in LpTokens : rewarderOf[k] # w
  /\ rewarderOf' = [rewarderOf EXCEPT ![l] = w]
  /\ UNCHANGED <<now, totalStaked, amount, rewarder, deployed, tokenVars, historyVars>>

AddPoolWithRewarder(l, w, rate, cap) ==
  /\ ~PoolAdded(l)
  /\ Deploy(w, rate, cap)
  /\ rewarderOf' = [rewarderOf EXCEPT ![l] = w]
  /\ UNCHANGED <<now, totalStaked, amount, tokenVars, historyVars>>

(* The rewarder of pool l, brought up to date.                             *)
\* Mutant: the update is left out.
NotUpdated(l) == rewarder[rewarderOf[l]]

Updated(l) == UpdatePool(rewarder[rewarderOf[l]], totalStaked[l], now)

SetPoolRewardRate(l, rate) ==
  /\ PoolAdded(l)
  /\ rewarder' = [rewarder EXCEPT
                    ![rewarderOf[l]] = [Updated(l) EXCEPT !.rewardPerSecond = rate]]
  /\ UNCHANGED <<now, chefVars, deployed, tokenVars, historyVars>>

SetPoolRewardCap(l, cap) ==
  /\ PoolAdded(l)
  /\ CapMayDropBelow \/ cap = 0 \/ cap >= Updated(l).rewardDistributed
  /\ rewarder' = [rewarder EXCEPT
                    ![rewarderOf[l]] = [Updated(l) EXCEPT !.totalRewardCap = cap]]
  /\ UNCHANGED <<now, chefVars, deployed, tokenVars, historyVars>>

-----------------------------------------------------------------------------
(* Staking.  Every call pays what the old amount has earned, as far as the *)
(* rewarder's balance goes, and then charges the new amount's debt.        *)

\* Mutant: the whole reward is sent, whatever the rewarder holds.
PaymentInFull(u, l) == Unpaid(Updated(l), u, amount[l][u])

Payment(u, l) ==
  LET due  == Unpaid(Updated(l), u, amount[l][u])
      left == rewardBalance[rewarderOf[l]]
  IN  IF left < due THEN left ELSE due

PayReward(u, l) ==
  /\ Covers(rewardBalance, rewarderOf[l], Payment(u, l))
  /\ rewardBalance' = Transfer(rewardBalance, rewarderOf[l], u, Payment(u, l))
  /\ paid' = Credit(paid, rewarderOf[l], Payment(u, l))

\* Mutant: the debt is that of the old amount, afterStakeChange is missing.
ChargeOldDebt(u, l, newAmount) ==
  rewarder' = [rewarder EXCEPT
                 ![rewarderOf[l]] = SettleDebt(Updated(l), u, amount[l][u])]

ChargeDebt(u, l, newAmount) ==
  rewarder' = [rewarder EXCEPT
                 ![rewarderOf[l]] = SettleDebt(Updated(l), u, newAmount)]

\* Mutant: the pool's total is forgotten.
StakeWithoutTotal(u, l, newAmount) ==
  /\ amount' = [amount EXCEPT ![l][u] = newAmount]
  /\ UNCHANGED totalStaked

Stake(u, l, newAmount) ==
  /\ amount' = [amount EXCEPT ![l][u] = newAmount]
  /\ totalStaked' = [totalStaked EXCEPT ![l] = @ - amount[l][u] + newAmount]

Deposit(u, l, x) ==
  /\ x > 0
  /\ PoolAdded(l)
  /\ deposits[rewarderOf[l]] < MaxDeposits
  /\ Covers(lpBalance[l], u, x)
  /\ PayReward(u, l)
  /\ lpBalance' = [lpBalance EXCEPT ![l] = Transfer(@, u, Chef, x)]
  /\ Stake(u, l, amount[l][u] + x)
  /\ ChargeDebt(u, l, amount[l][u] + x)
  /\ deposits' = Credit(deposits, rewarderOf[l], 1)
  /\ UNCHANGED <<now, rewarderOf, deployed, withdrawals>>

\* Mutant: the check of the staked amount is dropped.
MayWithdrawAny(u, l, x) == TRUE

MayWithdraw(u, l, x) == x <= amount[l][u]

(* All that can make withdraw revert, in the chef and in the tokens.       *)
WithdrawSucceeds(u, l, x) ==
  /\ x > 0
  /\ PoolAdded(l)
  /\ MayWithdraw(u, l, x)
  /\ Covers(rewardBalance, rewarderOf[l], Payment(u, l))
  /\ Covers(lpBalance[l], Chef, x)

Withdraw(u, l, x) ==
  /\ WithdrawSucceeds(u, l, x)
  /\ PayReward(u, l)
  /\ Stake(u, l, amount[l][u] - x)
  /\ ChargeDebt(u, l, amount[l][u] - x)
  /\ lpBalance' = [lpBalance EXCEPT ![l] = Transfer(@, Chef, u, x)]
  /\ withdrawals' = Credit(withdrawals, rewarderOf[l], 1)
  /\ UNCHANGED <<now, rewarderOf, deployed, deposits>>

Harvest(u, l) ==
  /\ PoolAdded(l)
  /\ amount[l][u] > 0
  /\ PayReward(u, l)
  /\ ChargeDebt(u, l, amount[l][u])
  /\ UNCHANGED <<now, chefVars, deployed, lpBalance, deposits, withdrawals>>

(* The view of the chef that the frontend shows.                           *)
PendingRewards(l, u) ==
  IF PoolAdded(l)
    THEN PendingReward(rewarder[rewarderOf[l]], u, amount[l][u], totalStaked[l], now)
    ELSE 0

-----------------------------------------------------------------------------
(* The world outside. *)

FundRewarder(w, x) ==
  /\ x > 0 /\ w \in deployed
  /\ Covers(rewardBalance, Treasury, x)
  /\ rewardBalance' = Transfer(rewardBalance, Treasury, w, x)
  /\ UNCHANGED <<now, chefVars, rewarder, deployed, lpBalance, historyVars>>

(* LP sent around, also straight to the chef, where it is nobody's stake.  *)
SendLp(u, l, to, x) ==
  /\ x > 0
  /\ Covers(lpBalance[l], u, x)
  /\ lpBalance' = [lpBalance EXCEPT ![l] = Transfer(@, u, to, x)]
  /\ UNCHANGED <<now, chefVars, rewarder, deployed, rewardBalance, historyVars>>

NextBlock ==
  /\ now < MaxTime
  /\ now' = now + 1
  /\ UNCHANGED <<chefVars, rewarder, deployed, tokenVars, historyVars>>

Next ==
  \/ NextBlock
  \/ \E w \in Rewarders, rate \in RewardRates, cap \in RewardCaps :
       \/ DeployRewarder(w, rate, cap)
       \/ \E l \in LpTokens : AddPoolWithRewarder(l, w, rate, cap)
  \/ \E l \in LpTokens :
       \/ \E w \in Rewarders : Add(l, w)
       \/ \E rate \in RewardRates : SetPoolRewardRate(l, rate)
       \/ \E cap \in RewardCaps : SetPoolRewardCap(l, cap)
       \/ \E u \in Users :
            \/ Harvest(u, l)
            \/ \E x \in Amounts :
                 \/ Deposit(u, l, x)
                 \/ Withdraw(u, l, x)
                 \/ \E to \in StakeAccount : SendLp(u, l, to, x)
  \/ \E w \in Rewarders, x \in Amounts : FundRewarder(w, x)

Spec == Init /\ [][Next]_vars

-----------------------------------------------------------------------------
RewarderState ==
  [rewardPerSecond : RewardRates \cup {0}, totalRewardCap : RewardCaps \cup {0},
   rewardDistributed : 0 .. MaxUint256, lastUpdateTime : 0 .. MaxTime,
   accRewardPerShare : 0 .. MaxUint256, rewardDebt : [Users -> 0 .. MaxUint256]]

(* Types: rewarder storage holds 256-bit values, balances are naturals.    *)
TypeOK ==
  /\ now \in 0 .. MaxTime
  /\ rewarderOf \in [LpTokens -> deployed \cup {NoRewarder}]
  /\ totalStaked \in [LpTokens -> Nat]
  /\ amount \in [LpTokens -> [Users -> Nat]]
  /\ rewarder \in [Rewarders -> RewarderState]
  /\ deployed \subseteq Rewarders
  /\ lpBalance \in [LpTokens -> [StakeAccount -> Nat]]
  /\ rewardBalance \in [RewardAccount -> Nat]
  /\ paid \in [Rewarders -> Nat]
  /\ deposits \in [Rewarders -> Nat] /\ withdrawals \in [Rewarders -> Nat]

(* Stakes add up to the total rewards are divided by, and the chef holds   *)
(* the LP for all of them, whatever LP is sent past it.                    *)
StakesAreBacked ==
  \A l \in LpTokens :
    /\ totalStaked[l] = SumFunctionOnSet(amount[l], Users)
    /\ totalStaked[l] <= lpBalance[l][Chef]

(* A staker can always take the whole stake back, even from a pool whose   *)
(* rewarder is empty or owes more than it has.                             *)
StakersCanExit ==
  \A l \in LpTokens, u \in Users :
    amount[l][u] > 0 => WithdrawSucceeds(u, l, amount[l][u])

Owed(l) ==
  SumFunctionOnSet([u \in Users |-> Unpaid(rewarder[rewarderOf[l]], u, amount[l][u])],
                   Users)

(* What a rewarder has paid and still owes its stakers is never more than  *)
(* what it has distributed, except that rounding may favour a staker by    *)
(* one unit at each deposit or withdrawal: no interleaving of stakers,     *)
(* rate changes and cap changes makes it promise rewards twice.            *)
RewardsNotPromisedTwice ==
  \A l \in LpTokens :
    LET w == rewarderOf[l]
    IN  PoolAdded(l) =>
          paid[w] + Owed(l)
            <= rewarder[w].rewardDistributed + deposits[w] + withdrawals[w]

(* totalRewardCap bounds what the rewarder distributes.                    *)
CapIsKept ==
  \A w \in Rewarders :
    rewarder[w].totalRewardCap > 0 =>
      rewarder[w].rewardDistributed <= rewarder[w].totalRewardCap

(* A harvest pays exactly what pendingRewards showed in the same block, as *)
(* far as the rewarder's balance goes: the view and the update are two     *)
(* separate pieces of code.                                                *)
HarvestPaysWhatIsShown ==
  [][\A l \in LpTokens, u \in Users :
       Harvest(u, l) =>
         LET shown == PendingRewards(l, u)
             left  == rewardBalance[rewarderOf[l]]
         IN  rewardBalance'[u] - rewardBalance[u] = (IF left < shown THEN left ELSE shown)
    ]_vars

(* What a staker has earned up to now changes only by the staker's own     *)
(* calls: no deposit, withdrawal, harvest, new rate or first registration  *)
(* in the same block shifts rewards from one staker to another.            *)
OthersKeepTheirRewards ==
  [][\A l \in LpTokens, u \in Users :
       LET w == rewarderOf[l]
       IN  (/\ PoolAdded(l) /\ now' = now
            /\ amount'[l][u] = amount[l][u]
            /\ rewarder'[w].rewardDebt[u] = rewarder[w].rewardDebt[u]
            /\ rewarder'[w].totalRewardCap = rewarder[w].totalRewardCap)
           => PendingRewards(l, u)' = PendingRewards(l, u)]_vars

(* "Maximum total rewards to distribute" (AddPoolModal.tsx:188): with a    *)
(* cap at all times, no more than the highest cap is ever paid, up to the  *)
(* rounding of RewardsNotPromisedTwice.                                    *)
PaidWithinHighestCap ==
  0 \notin RewardCaps =>
    \A w \in Rewarders :
      \E cap \in RewardCaps : paid[w] <= cap + deposits[w] + withdrawals[w]

(* "Pool closes when cap is reached" (AddPoolModal.tsx:188): changing the  *)
(* cap of a pool does not by itself make any staker richer or poorer.      *)
CapChangeIsNotRetroactive ==
  [][\A l \in LpTokens, cap \in RewardCaps :
       SetPoolRewardCap(l, cap) =>
         \A u \in Users : PendingRewards(l, u)' = PendingRewards(l, u)]_vars
=============================================================================
