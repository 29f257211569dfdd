------------------------------ MODULE Routing ------------------------------
(***************************************************************************)
(* frontend/src/lib/amm.ts: the routes a swap may take over the pools the  *)
(* API lists, and the amount each pays.  Only operators; the swap page     *)
(* (SwapFlow) evaluates them on every change of its form.  A pool is a     *)
(* record [token0, token1, reserve0, reserve1], a route a sequence of      *)
(* tokens.  Prices in floating point, shown beside a route, are left out.  *)
(***************************************************************************)
EXTENDS Naturals, FiniteSets, SequencesExt, Lists

SwapFee == 997
SwapFeeDenominator == 1000
MaxRouteDepth == 3
MaxOptions == 2

Joins(q, x, y) == {q.token0, q.token1} = {x, y}

(* The tokens one pool away from a token, in the order of the pools' list. *)
Neighbours(pools, token) ==
  LET Far(q) == IF q.token0 = token THEN q.token1 ELSE q.token0
      met[n \in 0..Len(pools)] ==
        IF n = 0 THEN <<>>
        ELSE IF \/ token \notin {pools[n].token0, pools[n].token1}
                \/ Contains(met[n - 1], Far(pools[n]))
             THEN met[n - 1] ELSE Append(met[n - 1], Far(pools[n]))
  IN met[Len(pools)]

(* A path over one more pool, to a token it has not been to. *)
Steps(pools, path) ==
  LET fresh == Without(Neighbours(pools, Last(path)), ToSet(path))
  IN [i \in DOMAIN fresh |-> Append(path, fresh[i])]

(* Breadth first: all paths of one length at a time, shortest first, and *)
(* those that arrive are not continued.                                    *)
Deepen(pools, out, before) ==
  LET steps == FlattenSeq([i \in DOMAIN before.queue |-> Steps(pools, before.queue[i])])
      arrived == {path \in ToSet(steps) : Last(path) = out}
  IN [queue |-> Without(steps, arrived),
      results |-> before.results \o Without(steps, ToSet(steps) \ arrived)]

RoutesFrom(pools, in, out) ==
  LET search[depth \in 0..MaxRouteDepth] ==
        IF depth = 0 THEN [queue |-> << <<in>> >>, results |-> <<>>]
        ELSE Deepen(pools, out, search[depth - 1])
  IN search[MaxRouteDepth].results

FindAllSwapRoutes(pools, in, out) ==
  IF in = out THEN << <<in>> >> ELSE RoutesFrom(pools, in, out)

(* The first pool of the list between two tokens, its reserves in their order. *)
PoolIndex(pools, x, y) ==
  CHOOSE i \in DOMAIN pools : /\ Joins(pools[i], x, y)
                              /\ \A j \in 1..(i - 1) : ~Joins(pools[j], x, y)
ReserveOf(pools, x, y) ==
  LET q == pools[PoolIndex(pools, x, y)]
  IN IF q.token0 = x THEN q.reserve0 ELSE q.reserve1

\* Mutant: the fee is forgotten in the quote.
PaidWithoutFee(amount, reserveIn, reserveOut) == (amount * reserveOut) \div (reserveIn + amount)

Paid(amount, reserveIn, reserveOut) ==
  (amount * SwapFee * reserveOut) \div (reserveIn * SwapFeeDenominator + amount * SwapFee)

(* What a route pays; 0 also where the code returns null, both are dropped. *)
SimulateRoute(pools, route, amountIn) ==
  LET amount[i \in 1..Len(route)] ==
        IF i = 1 THEN amountIn ELSE
        LET r0 == ReserveOf(pools, route[i - 1], route[i])
            r1 == ReserveOf(pools, route[i], route[i - 1])
        IN IF r0 = 0 \/ r1 = 0 THEN 0 ELSE Paid(amount[i - 1], r0, r1)
  IN IF Len(route) < 2 THEN 0 ELSE amount[Len(route)]

(* The best two of the routes that pay anything, the better one first. *)
RouteOptions(pools, in, out, amountIn) ==
  LET Option(route) ==
        [route |-> route, amountOut |-> SimulateRoute(pools, route, amountIn),
         poolReserveIn |-> IF Len(route) < 2 THEN 0
                           ELSE ReserveOf(pools, route[1], route[2])]
      routes == FindAllSwapRoutes(pools, in, out)
      paying == {i \in DOMAIN routes : SimulateRoute(pools, routes[i], amountIn) > 0}
      Before(i, j) ==
        LET x == SimulateRoute(pools, routes[i], amountIn)
            y == SimulateRoute(pools, routes[j], amountIn)
        IN x > y \/ (x = y /\ i < j)
      Ranked(k) == CHOOSE j \in paying : Cardinality({i \in paying : Before(i, j)}) = k - 1
      count == IF Cardinality(paying) < MaxOptions THEN Cardinality(paying) ELSE MaxOptions
  IN IF amountIn = 0 THEN <<>> ELSE [k \in 1..count |-> Option(routes[Ranked(k)])]

(* minAmountOut: slippage in basis points. *)
MinAmountOut(amountOut, slippageBps) == (amountOut * (10000 - slippageBps)) \div 10000
=============================================================================
