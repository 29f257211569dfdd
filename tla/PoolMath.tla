------------------------------ MODULE PoolMath ------------------------------
(***************************************************************************)
(* The constant-product arithmetic of V2AMM.sol, with Solidity's integer   *)
(* widths: checked operations revert when the result does not fit, the     *)
(* operations in unchecked blocks wrap around.  The widths, the fee and    *)
(* the locked liquidity are parameters, so that small instances keep the   *)
(* proportions of the real contract (128-bit reserves, 256-bit products).  *)
(***************************************************************************)
EXTENDS Rounding

CONSTANTS
  FeeNum, FeeDenom,     \* share of the input that is traded (997 / 1000)
  MinimumLiquidity,     \* LP locked for ever by the first deposit (1000)
  MaxUint128,           \* type(uint128).max, the largest reserve
  MaxUint256            \* type(uint256).max, the largest product

(* The fee is a proper fraction, and a fee times two reserves fits in the  *)
(* wide integers: what the real constants satisfy and the proofs need.     *)
ASSUME PoolMathAssumption ==
  /\ FeeNum \in Nat \ {0} /\ FeeDenom \in Nat /\ FeeNum <= FeeDenom
  /\ MinimumLiquidity \in Nat \ {0}
  /\ MaxUint128 \in Nat /\ MaxUint256 \in Nat
  /\ 2 * FeeDenom * MaxUint128 <= MaxUint256

(* The wide integers are twice as wide, so a product of two reserves fits. *)
ASSUME WidthAssumption == MaxUint128 * MaxUint128 <= MaxUint256

Wrap128(x) == x % (MaxUint128 + 1)
Wrap256(x) == x % (MaxUint256 + 1)
FitsUint256(x) == x <= MaxUint256

(* getAmountOut for the given reserves; the products are unchecked.        *)
\* Mutant: the input is not added to the side it moves.
AmountOutAtSpotPrice(reserveIn, reserveOut, amountIn) ==
  (amountIn * FeeNum * reserveOut) \div (reserveIn * FeeDenom)

AmountOut(reserveIn, reserveOut, amountIn) ==
  LET amountInWithFee == Wrap256(amountIn * FeeNum)
      numerator       == Wrap256(amountInWithFee * reserveOut)
      denominator     == Wrap256(Wrap256(reserveIn * FeeDenom) + amountInWithFee)
  IN  numerator \div denominator

=============================================================================
