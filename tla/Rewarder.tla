------------------------------ MODULE Rewarder ------------------------------
(***************************************************************************)
(* The reward bookkeeping of Rewarder.sol.  A rewarder is a record whose   *)
(* fields are the contract's storage; each operator is one of its          *)
(* functions, applied at block time t while `staked` LP are staked.  All   *)
(* its arithmetic is unchecked, hence Wrap256.                             *)
(***************************************************************************)
EXTENDS Integers

CONSTANTS
  Precision,    \* ACC_REWARD_PRECISION, the scale of accRewardPerShare
  MaxUint256    \* type(uint256).max

ASSUME RewarderAssumption ==
  Precision \in Nat \ {0} /\ MaxUint256 \in Nat

Wrap256(x) == x % (MaxUint256 + 1)

NewRewarder(rate, cap, t, users) ==
  [rewardPerSecond |-> rate, totalRewardCap |-> cap, rewardDistributed |-> 0,
   lastUpdateTime |-> t, accRewardPerShare |-> 0,
   rewardDebt |-> [u \in users |-> 0]]

(* Rewards streamed since the last update, before the cap.                 *)
Streamed(r, t) == Wrap256((t - r.lastUpdateTime) * r.rewardPerSecond)

HitsCap(r, t) ==
  /\ r.totalRewardCap > 0
  /\ Wrap256(r.rewardDistributed + Streamed(r, t)) > r.totalRewardCap

\* Mutant: the cap is taken for what is left.
WholeCap(r) == r.totalRewardCap

(* What the cap leaves; nothing checks that it is not already exceeded.    *)
LeftUnderCap(r) == Wrap256(r.totalRewardCap - r.rewardDistributed)

RewardSince(r, t) == IF HitsCap(r, t) THEN LeftUnderCap(r) ELSE Streamed(r, t)

(* The cap was reached before: the update returns early and leaves         *)
(* lastUpdateTime where it was.                                            *)
Exhausted(r, t) == HitsCap(r, t) /\ LeftUnderCap(r) = 0

PerShare(reward, staked) == Wrap256(reward * Precision) \div staked

Accrue(r, staked, t) ==
  [r EXCEPT
     !.accRewardPerShare = Wrap256(@ + PerShare(RewardSince(r, t), staked)),
     !.rewardDistributed = Wrap256(@ + RewardSince(r, t)),
     !.lastUpdateTime = t]

\* _updatePool
UpdatePool(r, staked, t) ==
  CASE t <= r.lastUpdateTime -> r
    [] t > r.lastUpdateTime /\ staked = 0 -> [r EXCEPT !.lastUpdateTime = t]
    [] t > r.lastUpdateTime /\ staked > 0 ->
         IF Exhausted(r, t) THEN r ELSE Accrue(r, staked, t)

(* Everything the amount has earned since the rewarder was deployed.       *)
Earned(r, amount) == Wrap256(amount * r.accRewardPerShare) \div Precision

(* The part of it the user has not been paid for.                          *)
Unpaid(r, u, amount) == Wrap256(Earned(r, amount) - r.rewardDebt[u])

(* beforeStakeChange and afterStakeChange leave the debt of the new amount.*)
SettleDebt(r, u, amount) == [r EXCEPT !.rewardDebt[u] = Earned(r, amount)]

(* The view pendingReward, which repeats the update without storing it.    *)
\* Mutant: the cap is forgotten.
PendingRewardUncapped(r, u, amount, staked, t) ==
  IF amount = 0 \/ staked = 0 THEN 0
  ELSE LET acc == r.accRewardPerShare + PerShare(Streamed(r, t), staked)
       IN  Unpaid([r EXCEPT !.accRewardPerShare = Wrap256(acc)], u, amount)

PendingReward(r, u, amount, staked, t) ==
  IF amount = 0 \/ staked = 0 THEN 0
  ELSE LET new == IF t > r.lastUpdateTime
                    THEN PerShare(RewardSince(r, t), staked) ELSE 0
       IN  Unpaid([r EXCEPT !.accRewardPerShare = Wrap256(@ + new)], u, amount)
=============================================================================
