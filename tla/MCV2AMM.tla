------------------------------- MODULE MCV2AMM -------------------------------
(***************************************************************************)
(* V2AMM with a larger and a smaller account, whose tokens together just   *)
(* fit a 3-bit reserve; products are 6-bit.  MCAbundantBalance gives both  *)
(* accounts more than fits in a reserve together.                          *)
(***************************************************************************)
EXTENDS V2AMM, TLC

CONSTANTS Large, Small

MCInitialBalance ==
  [t \in Token |-> [u \in Users |-> IF u = Large THEN 4 ELSE 3]]
MCAbundantBalance == [t \in Token |-> [u \in Users |-> 6]]
MCAmounts == 0 .. 7
MCMinimums == {0, 2}
=============================================================================
