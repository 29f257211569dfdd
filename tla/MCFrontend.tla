----------------------------- MODULE MCFrontend -----------------------------
(* One user with one amount of everything and nothing approved yet, the     *)
(* reward token too little.  Each flow has its own neutral page.            *)
EXTENDS Frontend

Pool(x, y, n, m) == [token0 |-> x, token1 |-> y, reserve0 |-> n, reserve1 |-> m]

(* A pool of the first pair of tokens, a better route of two over another  *)
(* token, and a pool of the second pair.                                   *)
MCPools(m) ==
  [detour |-> <<Pool("c", "weth", 100, 200), Pool("a", "c", 100, 100),
                Pool("a", "weth", 100, 110), Pool("b", "weth", 100, 200)>>][m]
MCPoolOrder == <<"a", "b">>
MCPoolReserves == <<10, 10>>
MCMaxRequests == [swap |-> 3, liquidity |-> 3, staking |-> 2, governance |-> 2, details |-> 0, analytics |-> 0, home |-> 0]
MCMaxEdits == [swap |-> 2, liquidity |-> 2, staking |-> 1, governance |-> 0, details |-> 0, analytics |-> 0, home |-> 0]
MCMaxVisits == [swap |-> 3, liquidity |-> 3, staking |-> 2, governance |-> 3, details |-> 3, analytics |-> 3, home |-> 3]
MCLinks == {<<"liquidity", "swap">>,
            <<"swap", "details">>, <<"details", "swap">>,
            <<"staking", "home">>, <<"governance", "analytics">>,
            <<"home", "staking">>, <<"analytics", "governance">>}
MCStarts == {<<"a", "weth">>}
MCGranted == [t \in {"a", "b", "lp", "rw"} |-> IF t = "rw" THEN 5 ELSE 0]
=============================================================================
