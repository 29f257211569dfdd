--------------------------- MODULE MCV2MasterChef ---------------------------
(***************************************************************************)
(* Two stakers, one pool, one rewarder; rewards of up to two units per     *)
(* second against a treasury that cannot pay them all.                     *)
(***************************************************************************)
EXTENDS V2MasterChef, TLC

MCLpSupply == [l \in LpTokens |-> [u \in Users |-> 2]]
MCAmounts == {1, 2}
MCRates == {0, 1}
MCCaps == {0, 2}
MCLowCaps == {1, 2}
StakerSymmetry == Permutations(Users)
=============================================================================
