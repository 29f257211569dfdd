----------------------------- MODULE MCV2Router -----------------------------
(***************************************************************************)
(* Wrapped ETH lies between two tokens in the order of addresses, so that  *)
(* it is the second token of one pool and the first of another.            *)
(***************************************************************************)
EXTENDS V2Router

CONSTANTS alice

MCTokens == {11, 12, 13}
MCInitialBalance ==
  [x \in Assets |-> [u \in Users |->
     IF x = Weth THEN 0 ELSE IF x = Eth THEN 7 ELSE 5]]
MCPaths == {<<11, 12>>, <<12, 13>>, <<13, 12>>, <<13, 12, 11>>, <<11, 12, 11>>}
=============================================================================
