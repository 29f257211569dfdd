----------------------------- MODULE MCIndexer -----------------------------
(***************************************************************************)
(* One pool, up to three blocks: the pool is funded, swapped in and mostly *)
(* withdrawn; other events do not touch reserves.                          *)
(***************************************************************************)
EXTENDS Indexer, TLC

CONSTANTS pool

E(kind, c0, c1) == [kind |-> kind, pool |-> pool, change |-> <<c0, c1>>]
Fund == E("liquidity", 4, 4)
Drain == E("liquidity", -6, -1)
Withdraw == E("liquidity", -2, -1)
Swap == E("swap", 4, -2)
SwapBack == E("swap", -2, 1)
MCBlockContents ==
  {<<Fund>>, <<SwapBack, Withdraw>>, <<E("staking", 0, 0), Swap>>,
   <<E("governance", 0, 0), E("delegate", 0, 0)>>, <<>>}

MCFundSwapRemove == {<<Fund>>, <<Swap>>, <<Drain>>}
=============================================================================
