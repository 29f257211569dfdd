------------------------------ MODULE V2Router ------------------------------
(***************************************************************************)
(* The router (V2Router.sol) with the factory (V2Factory.sol), its pools   *)
(* (V2AMM) and wrapped ETH (WETH.sol).                                     *)
(*                                                                         *)
(* Callers are accounts without code, so a transaction runs from its first *)
(* statement to its last without calls coming back: one action is one      *)
(* call.  Allowances and deadlines only make calls revert and are left     *)
(* out: every call here has come in time and with enough allowance.        *)
(***************************************************************************)
EXTENDS PoolMath, Ledger, FiniteSets, Sequences, SequencesExt

CONSTANTS
  Users,           \* externally owned accounts
  Router,          \* the router's address
  Dead,            \* where the pools lock LP
  Tokens,          \* token contracts, numbers because addresses are ordered
  Weth,            \* the one of them that wraps ETH
  Eth,             \* stands for ETH among the assets
  InitialBalance,  \* asset -> user -> balance
  Deposits,        \* amounts desired in deposits
  Minimums,        \* minimums of deposits and withdrawals
  Inputs,          \* amounts swapped, burned and wrapped
  Gifts,           \* amounts sent to the router past its calls
  MaxStrays,       \* bound on what lies in the router
  Paths,           \* the paths swaps are called with
  MaxPools         \* bound on the number of pools

Assets == Tokens \cup {Eth}
PoolIds == 1 .. MaxPools            \* addresses, in the order of creation
NoPool == 0
Side == {0, 1}
Holder == Users \cup {Router}       \* who may hold LP, with Dead and the pool
Account == Holder \cup {Weth} \cup PoolIds
Self == NoPool                      \* a pool's own address, in its ledger of LP

ASSUME RouterAssumption ==
  /\ IsFiniteSet(Users) /\ IsFiniteSet(Tokens)
  /\ Router \notin Users /\ Dead \notin Holder \cup {Self}
  /\ Holder \cap (PoolIds \cup {Self, Weth}) = {}
  /\ Tokens \subseteq Nat /\ Weth \in Tokens /\ Eth \notin Tokens
  /\ MaxPools \in Nat /\ MaxStrays \in Nat /\ Tokens \cap PoolIds = {}
  /\ InitialBalance \in [Assets -> [Users -> Nat]]
  /\ \A u \in Users : InitialBalance[Weth][u] = 0
  /\ Deposits \subseteq Nat /\ Minimums \subseteq Nat /\ Inputs \subseteq Nat /\ Gifts \subseteq Nat
  /\ Paths \subseteq Seq(Tokens)

VARIABLES
  pools,     \* allPairs, with the storage of each pool and of its LP token
  getPair,   \* two tokens -> their pool, or NoPool
  balance,   \* asset -> account -> balance; the ETH of contracts too
  strays,    \* history: asset -> what was sent to the router past its calls
  repeated   \* history: a swap went through the same pool twice

vars == <<pools, getPair, balance, strays, repeated>>

Init ==
  /\ pools = <<>>
  /\ getPair = [pair \in Tokens \X Tokens |-> NoPool]
  /\ balance = [x \in Assets |->
                  [a \in Account |-> IF a \in Users THEN InitialBalance[x][a] ELSE 0]]
  /\ strays = [x \in Assets |-> 0]
  /\ repeated = FALSE

-----------------------------------------------------------------------------
(* Movements of assets within a call, on a state b of the balances.        *)
Has(b, x, a, n) == Covers(b[x], a, n)

Move(b, x, from, to, n) == [b EXCEPT ![x] = Transfer(@, from, to, n)]

\* WETH.deposit and WETH.withdraw, called by a.
Wrap(b, a, n) ==
  [b EXCEPT ![Eth] = Transfer(@, a, Weth, n), ![Weth] = Credit(@, a, n)]

\* Mutant: the wrapped ETH is not burned.
UnwrapWithoutBurn(b, a, n) == [b EXCEPT ![Eth] = Transfer(@, Weth, a, n)]

Unwrap(b, a, n) ==
  [b EXCEPT ![Weth] = Debit(@, a, n), ![Eth] = Transfer(@, Weth, a, n)]

-----------------------------------------------------------------------------
(* The factory.                                                            *)
Least(a, b) == IF a < b THEN a ELSE b
Greatest(a, b) == IF a < b THEN b ELSE a

NewPool(a, b) ==
  [address     |-> Len(pools) + 1,
   token       |-> [s \in Side |-> IF s = 0 THEN Least(a, b) ELSE Greatest(a, b)],
   reserve     |-> [s \in Side |-> 0],
   lp          |-> [h \in Holder \cup {Self, Dead} |-> 0],
   totalSupply |-> 0]

MayCreatePair(a, b) == a # b /\ getPair[<<a, b>>] = NoPool /\ Len(pools) < MaxPools

\* Mutant: the pair is found in the order of its addresses only.
PairsWithOneWay(a, b) ==
  [getPair EXCEPT ![<<Least(a, b), Greatest(a, b)>>] = Len(pools) + 1]

PairsWith(a, b) ==
  [getPair EXCEPT ![<<a, b>>] = Len(pools) + 1, ![<<b, a>>] = Len(pools) + 1]

CreatePair(a, b) ==
  /\ MayCreatePair(a, b)
  /\ pools' = Append(pools, NewPool(a, b))
  /\ getPair' = PairsWith(a, b)
  /\ UNCHANGED <<balance, strays, repeated>>

-----------------------------------------------------------------------------
(* A pool p by itself is V2AMM, whose operators say what its calls do.     *)
Pool(p) == INSTANCE V2AMM WITH
  Users <- Holder, Pool <- Self, InitialBalance <- [s \in Side |-> InitialBalance[Eth]],
  Amounts <- Inputs,
  reserve <- p.reserve, lp <- p.lp, totalSupply <- p.totalSupply,
  balance <- [s \in Side |-> [a \in Account \cup {Self} |->
                balance[p.token[s]][IF a = Self THEN p.address ELSE a]]]

SideOf(p, x) == IF p.token[0] = x THEN 0 ELSE 1
IsEmpty(p) == \A s \in Side : p.reserve[s] = 0
HasLiquidity(p) == \A s \in Side : p.reserve[s] > 0

(* addLiquidity of the pool, called by the router with minimums of zero.   *)
InitialLp(amount) == Sqrt(amount[0] * amount[1])

AcceptsDeposit(p, amount) ==
  /\ \A s \in Side : amount[s] <= MaxUint128
  /\ \/ /\ IsEmpty(p)
        /\ \A s \in Side : amount[s] > 0
        /\ FitsUint256(amount[0] * amount[1])
        /\ InitialLp(amount) > MinimumLiquidity
     \/ /\ HasLiquidity(p)
        /\ \A s \in Side : FitsUint256(amount[s] * p.totalSupply)
        /\ Pool(p)!MintedFor(amount) > 0

(* The LP goes to the router, which passes it on.                          *)
Deposited(p, to, amount) ==
  LET first  == IsEmpty(p)
      minted == IF first THEN InitialLp(amount) - MinimumLiquidity
                         ELSE Pool(p)!MintedFor(amount)
      lp     == IF first THEN Pool(p)!MintInitial(Router, InitialLp(amount))
                         ELSE Credit(p.lp, Router, minted)
  IN  [p EXCEPT !.reserve     = Pool(p)!ReservesAfterDeposit(amount),
                !.lp          = Transfer(lp, Router, to, minted),
                !.totalSupply = @ + minted + (IF first THEN MinimumLiquidity ELSE 0)]

(* removeLiquidity of pool i, called by account a.                         *)
AcceptsRemoval(i, a, n, min) ==
  LET p == pools[i]
  IN  /\ n > 0 /\ p.totalSupply > 0
      /\ Covers(p.lp, a, n)
      /\ \A s \in Side :
           /\ FitsUint256(n * p.reserve[s])
           /\ Pool(p)!Redeemed(n)[s] >= min[s]
           /\ Has(balance, p.token[s], i, Pool(p)!Redeemed(n)[s])

\* Mutant: the reserves are left as they were.
RemovedFromLpOnly(p, a, n) ==
  [p EXCEPT !.lp = Debit(@, a, n), !.totalSupply = @ - n]

Removed(p, a, n) ==
  [p EXCEPT !.reserve     = Pool(p)!ReservesAfterWithdrawal(Pool(p)!Redeemed(n)),
            !.lp          = Debit(@, a, n),
            !.totalSupply = @ - n]

PaidOut(i, a, n) ==
  LET p == pools[i]
  IN  Move(Move(balance, p.token[0], i, a, Pool(p)!Redeemed(n)[0]),
           p.token[1], i, a, Pool(p)!Redeemed(n)[1])

-----------------------------------------------------------------------------
(* _calculateOptimalAmounts: the whole of one desired amount and as much   *)
(* of the other as the reserves' ratio asks for.                           *)
Optimal(p, desired, s) == ProRata(desired[1 - s], p.reserve[s], p.reserve[1 - s])

\* Mutant: the optimal amount is compared with what is desired of the other.
ComparesWrongSide(p, desired) == Optimal(p, desired, 1) <= desired[0]

UsesAllOf0(p, desired) == Optimal(p, desired, 1) <= desired[1]

OptimalAmounts(p, desired) ==
  IF IsEmpty(p) THEN desired
  ELSE IF UsesAllOf0(p, desired)
    THEN [desired EXCEPT ![1] = Optimal(p, desired, 1)]
    ELSE [desired EXCEPT ![0] = Optimal(p, desired, 0)]

AcceptsRatio(p, desired, min) ==
  \/ IsEmpty(p)
  \/ /\ HasLiquidity(p)
     /\ FitsUint256(desired[0] * p.reserve[1])
     /\ \/ /\ UsesAllOf0(p, desired)
           /\ Optimal(p, desired, 1) >= min[1]
        \/ /\ ~UsesAllOf0(p, desired)
           /\ FitsUint256(desired[1] * p.reserve[0])
           /\ Optimal(p, desired, 0) <= desired[0]
           /\ Optimal(p, desired, 0) >= min[0]

(* Deposits through the router into the pool of a and b, which is created  *)
(* if there is none.  before is the state of the balances when the router  *)
(* starts to collect; desired and min are by token.                        *)
OnSides(p, f) == [s \in Side |-> f[p.token[s]]]

PoolsFor(a, b) == IF getPair[<<a, b>>] = NoPool THEN Append(pools, NewPool(a, b)) ELSE pools

IndexFor(a, b) == IF getPair[<<a, b>>] = NoPool THEN Len(pools) + 1 ELSE getPair[<<a, b>>]

AddToPool(a, b, desired, min, to) ==
  LET i == IndexFor(a, b)
      p == PoolsFor(a, b)[i]
      amount == OptimalAmounts(p, OnSides(p, desired))
  IN  /\ getPair[<<a, b>>] = NoPool => MayCreatePair(a, b)
      /\ AcceptsRatio(p, OnSides(p, desired), OnSides(p, min))
      /\ AcceptsDeposit(p, amount)
      /\ pools' = [PoolsFor(a, b) EXCEPT ![i] = Deposited(p, to, amount)]
      /\ getPair' = IF getPair[<<a, b>>] = NoPool THEN PairsWith(a, b) ELSE getPair

(* What a deposit takes of token x.                                        *)
Taken(a, b, desired, x) ==
  LET p == PoolsFor(a, b)[IndexFor(a, b)]
  IN  OptimalAmounts(p, OnSides(p, desired))[SideOf(p, x)]

AddLiquidity(u, a, b, desired, min, to) ==
  LET takenA == Taken(a, b, desired, a)
      takenB == Taken(a, b, desired, b)
      held   == Move(Move(balance, a, u, Router, takenA), b, u, Router, takenB)
  IN  /\ a # b
      /\ desired[a] > 0 /\ desired[b] > 0
      /\ AddToPool(a, b, desired, min, to)
      /\ Has(balance, a, u, takenA) /\ Has(balance, b, u, takenB)
      /\ balance' = Move(Move(held, a, Router, IndexFor(a, b), takenA),
                         b, Router, IndexFor(a, b), takenB)
      /\ UNCHANGED <<strays, repeated>>

(* The value sent along is in the router from the start; what the pool     *)
(* does not take of it is refunded.                                        *)
AddLiquidityETH(u, token, value, desired, min, to) ==
  LET both      == [x \in {token, Weth} |-> IF x = Weth THEN value ELSE desired]
      takenTok  == Taken(token, Weth, both, token)
      takenWeth == Taken(token, Weth, both, Weth)
      i         == IndexFor(token, Weth)
      wrapped   == Wrap(Move(balance, Eth, u, Router, value),
                        Router, takenWeth)
      given     == Move(Move(Move(wrapped, token, u, Router, takenTok),
                             token, Router, i, takenTok),
                        Weth, Router, i, takenWeth)
  IN  /\ token # Weth
      /\ value > 0
      /\ Has(balance, Eth, u, value) /\ Has(balance, token, u, takenTok)
      /\ AddToPool(token, Weth, both, min, to)
      /\ Has(given, Eth, Router, value - takenWeth)
      /\ balance' = Move(given, Eth, Router, u, value - takenWeth)
      /\ UNCHANGED <<strays, repeated>>

(* The LP burned is the router's own; everything the router then holds of  *)
(* the two tokens goes to the receiver, whoever it belonged to.            *)
RemoveLiquidityETH(token, n, min, to) ==
  LET i     == getPair[<<token, Weth>>]
      paid  == PaidOut(i, Router, n)
      given == Move(paid, token, Router, to, paid[token][Router])
      weth  == paid[Weth][Router]
  IN  /\ i # NoPool
      /\ AcceptsRemoval(i, Router, n, OnSides(pools[i], min))
      /\ Has(given, Eth, Weth, weth)
      /\ pools' = [pools EXCEPT ![i] = Removed(@, Router, n)]
      /\ balance' = Move(Unwrap(given, Router, weth), Eth, Router, to, weth)
      /\ strays' = [strays EXCEPT ![token] = 0, ![Weth] = 0]
      /\ UNCHANGED <<getPair, repeated>>

-----------------------------------------------------------------------------
(* Quotes and swaps along a path.                                          *)
Hops(path) == 1 .. Len(path) - 1
PoolOfHop(path, k) == getPair[<<path[k], path[k + 1]>>]
UsesPoolTwice(path) ==
  \E j, k \in Hops(path) : j # k /\ PoolOfHop(path, j) = PoolOfHop(path, k)

\* Mutant: the reserves are taken as they are stored, for either direction.
QuoteUnsorted(p, tokenIn, x) == AmountOut(p.reserve[0], p.reserve[1], x)

Quote(p, tokenIn, x) ==
  LET s == SideOf(p, tokenIn) IN AmountOut(p.reserve[s], p.reserve[1 - s], x)

(* getAmountsOut: every hop is quoted before the first one is swapped.     *)
AmountsOut(x, path) ==
  LET amounts[k \in DOMAIN path] ==
        IF k = 1 THEN x
        ELSE Quote(pools[PoolOfHop(path, k - 1)], path[k - 1], amounts[k - 1])
  IN  amounts

HasQuote(x, path) ==
  /\ Len(path) >= 2
  /\ \A k \in Hops(path) :
       PoolOfHop(path, k) # NoPool /\ HasLiquidity(pools[PoolOfHop(path, k)])
  /\ \A k \in Hops(path) : AmountsOut(x, path)[k] > 0

(* swap of pool i for the router, in a state w of the pools and balances   *)
(* within the call; w.done is false once a hop has reverted.               *)
SwapIn(w, i, tokenIn, x) ==
  LET p   == w.pools[i]
      s   == SideOf(p, tokenIn)
      out == AmountOut(p.reserve[s], p.reserve[1 - s], x)
  IN  [pools   |-> [w.pools EXCEPT ![i].reserve = Pool(p)!ReservesAfterSwap(s, x, out)],
       balance |-> Move(Move(w.balance, tokenIn, Router, i, x),
                        p.token[1 - s], i, Router, out),
       done    |-> /\ w.done
                   /\ x <= MaxUint128 /\ HasLiquidity(p)
                   /\ Has(w.balance, tokenIn, Router, x)
                   /\ Has(w.balance, p.token[1 - s], i, out)]

(* _swap: hop after hop with the quoted amounts, then the quoted output to *)
(* its receiver.                                                           *)
SwapAlong(held, amounts, path, to) ==
  LET after[k \in 0 .. Len(path) - 1] ==
        IF k = 0 THEN [pools |-> pools, balance |-> held, done |-> TRUE]
        ELSE SwapIn(after[k - 1], PoolOfHop(path, k), path[k], amounts[k])
      w   == after[Len(path) - 1]
      out == amounts[Len(path)]
  IN  [w EXCEPT !.balance = Move(@, Last(path), Router, to, out),
                !.done    = @ /\ Has(w.balance, Last(path), Router, out)]

SwapExactTokensForTokens(u, x, min, path, to) ==
  /\ x > 0 /\ HasQuote(x, path)
  /\ LET amounts == AmountsOut(x, path)
         w       == SwapAlong(Move(balance, path[1], u, Router, x), amounts, path, to)
     IN  /\ Last(amounts) >= min
         /\ Has(balance, path[1], u, x)
         /\ w.done
         /\ pools' = w.pools /\ balance' = w.balance
  /\ repeated' = (repeated \/ UsesPoolTwice(path))
  /\ UNCHANGED <<getPair, strays>>

SwapExactETHForTokens(u, x, min, path, to) ==
  /\ x > 0 /\ path[1] = Weth /\ HasQuote(x, path)
  /\ LET amounts == AmountsOut(x, path)
         wrapped == Wrap(Move(balance, Eth, u, Router, x), Router, x)
         w       == SwapAlong(wrapped, amounts, path, to)
     IN  /\ Last(amounts) >= min
         /\ Has(balance, Eth, u, x)
         /\ w.done
         /\ pools' = w.pools /\ balance' = w.balance
  /\ repeated' = (repeated \/ UsesPoolTwice(path))
  /\ UNCHANGED <<getPair, strays>>

SwapExactTokensForETH(u, x, min, path, to) ==
  /\ x > 0 /\ Last(path) = Weth /\ HasQuote(x, path)
  /\ LET amounts == AmountsOut(x, path)
         w       == SwapAlong(Move(balance, path[1], u, Router, x), amounts, path, Router)
     IN  /\ Last(amounts) >= min
         /\ Has(balance, path[1], u, x)
         /\ w.done
         /\ pools' = w.pools
         /\ balance' = Move(Unwrap(w.balance, Router, Last(amounts)),
                            Eth, Router, to, Last(amounts))
  /\ repeated' = (repeated \/ UsesPoolTwice(path))
  /\ UNCHANGED <<getPair, strays>>

-----------------------------------------------------------------------------
(* Calls past the router.                                                  *)

(* removeLiquidity of the pool itself, which is what the frontend calls.   *)
RemoveLiquidity(u, i, n, min) ==
  /\ i \in DOMAIN pools
  /\ AcceptsRemoval(i, u, n, OnSides(pools[i], min))
  /\ pools' = [pools EXCEPT ![i] = Removed(@, u, n)]
  /\ balance' = PaidOut(i, u, n)
  /\ UNCHANGED <<getPair, strays, repeated>>

(* LP for removeLiquidityETH has to be sent to the router beforehand.      *)
SendLpToRouter(u, i, n) ==
  /\ i \in DOMAIN pools
  /\ n > 0 /\ Covers(pools[i].lp, u, n)
  /\ pools' = [pools EXCEPT ![i].lp = Transfer(@, u, Router, n)]
  /\ UNCHANGED <<getPair, balance, strays, repeated>>

(* Tokens, or ETH (the router's receive accepts it), sent to the router.   *)
SendToRouter(u, x, n) ==
  /\ SumFunctionOnSet(strays, Assets) + n <= MaxStrays
  /\ n > 0 /\ Has(balance, x, u, n)
  /\ balance' = Move(balance, x, u, Router, n)
  /\ strays' = Credit(strays, x, n)
  /\ UNCHANGED <<pools, getPair, repeated>>

Deposit(u, n) ==
  /\ n > 0 /\ Has(balance, Eth, u, n)
  /\ balance' = Wrap(balance, u, n)
  /\ UNCHANGED <<pools, getPair, strays, repeated>>

Withdraw(u, n) ==
  /\ Has(balance, Weth, u, n) /\ n > 0
  /\ balance' = Unwrap(balance, u, n)
  /\ UNCHANGED <<pools, getPair, strays, repeated>>

-----------------------------------------------------------------------------
(* A deposit does not depend on the order its two tokens are named in.     *)
AddLiquidityNext(u) ==
  \E a \in Tokens, to \in Users :
    \/ \E b \in {x \in Tokens : a < x} :
         \E desired \in [{a, b} -> Deposits], min \in [{a, b} -> Minimums] :
           AddLiquidity(u, a, b, desired, min, to)
    \/ \E value, desired \in Deposits, min \in [{a, Weth} -> Minimums] :
         AddLiquidityETH(u, a, value, desired, min, to)

SwapNext(u) ==
  \E x \in Inputs, min \in Minimums, path \in Paths, to \in Users :
    \/ SwapExactTokensForTokens(u, x, min, path, to)
    \/ SwapExactETHForTokens(u, x, min, path, to)
    \/ SwapExactTokensForETH(u, x, min, path, to)

Next ==
  \/ \E a, b \in Tokens : CreatePair(a, b)
  \/ \E u \in Users :
       \/ AddLiquidityNext(u)
       \/ SwapNext(u)
       \/ \E i \in PoolIds, n \in Inputs :
            \/ \E min \in [Tokens -> Minimums] : RemoveLiquidity(u, i, n, min)
            \/ SendLpToRouter(u, i, n)
       \/ \E x \in Assets, n \in Gifts : SendToRouter(u, x, n)
       \/ \E n \in Inputs : Deposit(u, n) \/ Withdraw(u, n)
  \/ \E token \in Tokens, n \in Inputs, to \in Users, min \in [Tokens -> Minimums] :
       RemoveLiquidityETH(token, n, min, to)

Spec == Init /\ [][Next]_vars

-----------------------------------------------------------------------------
(* Types; the pool found for two tokens trades these two, whichever is     *)
(* asked for first, and every pool is found.                               *)
TypeOK ==
  /\ getPair \in [Tokens \X Tokens -> {NoPool} \cup DOMAIN pools]
  /\ \A i \in DOMAIN pools :
       /\ pools[i].address = i
       /\ pools[i].token \in [Side -> Tokens] /\ pools[i].token[0] < pools[i].token[1]
       /\ {pair \in Tokens \X Tokens : getPair[pair] = i}
            = {<<pools[i].token[s], pools[i].token[1 - s]>> : s \in Side}
  /\ balance \in [Assets -> [Account -> Nat]]
  /\ strays \in [Assets -> Nat] /\ repeated \in BOOLEAN

(* What V2AMM promises of a pool holds for every pool behind the router,   *)
(* through calls of several hops and deposits that create their pool.      *)
PoolsAreSound ==
  \A i \in DOMAIN pools :
    /\ Pool(pools[i])!PoolIsSolvent
    /\ Pool(pools[i])!LpSupplyIsSumOfBalances
    /\ Pool(pools[i])!PoolNeverDrains

(* The router works for its callers and keeps nothing: whatever calls are  *)
(* made, it holds what was sent to it past its calls and no more and no    *)
(* less, so every hop has yielded what getAmountsOut had quoted and every  *)
(* refund was exact.  Paths that come back to a pool are left out, because *)
(* their later hops are quoted from reserves the earlier ones change.      *)
RouterKeepsNothing ==
  ~repeated => \A x \in Assets : balance[x][Router] = strays[x]

(* Wrapped ETH is worth ETH: WETH holds as much as there are tokens of it. *)
WethIsBacked == balance[Eth][Weth] = SumFunctionOnSet(balance[Weth], Account)

(* A deposit into a pool with liquidity takes no more of either token than *)
(* desired, in the pool's ratio up to one unit of the token computed, and  *)
(* is never refused as excessive: line 321 cannot be reached.              *)
DepositsKeepRatio ==
  \A i \in DOMAIN pools :
    HasLiquidity(pools[i]) =>
      \A desired \in [Side -> Deposits] :
        LET p == pools[i]
            amount == OptimalAmounts(p, desired)
        IN  /\ \A s \in Side : amount[s] <= desired[s]
            /\ \E s \in Side :
                 /\ amount[s] = desired[s]
                 /\ amount[1 - s] * p.reserve[s] <= amount[s] * p.reserve[1 - s]
                 /\ amount[s] * p.reserve[1 - s]
                      < (amount[1 - s] + 1) * p.reserve[s]
=============================================================================
