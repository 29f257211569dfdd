--------------------------- MODULE V2RouterProofs ---------------------------
(***************************************************************************)
(* The router, its pools and wrapped ETH, for any number of pools, paths   *)
(* of any length and any amounts.  Within a call the pools and balances    *)
(* pass through states no action shows, so what makes them sound is stated *)
(* of a sequence P of pools and balances B, not of the variables.          *)
(***************************************************************************)
EXTENDS V2Router, Groundwork, WellFoundedInduction

(* A quote of AmountOut, for the widths and the fee of the pools. *)
LEMMA AmountOutBounds ==
  ASSUME NEW r \in 1 .. MaxUint128, NEW s \in 1 .. MaxUint128, NEW x \in 1 .. MaxUint128
  PROVE  /\ AmountOut(r, s, x) \in Nat
         /\ AmountOut(r, s, x) < s
         /\ (r + x) * (s - AmountOut(r, s, x)) >= r * s
<1> USE PoolMathAssumption
<1>1. /\ r * FeeDenom + x * FeeNum <= MaxUint256
      /\ x * FeeNum <= MaxUint256 /\ r * FeeDenom <= MaxUint256
  BY FeeFits
<1>2. /\ x * FeeNum \in Nat /\ r * FeeDenom \in Nat /\ (x * FeeNum) * s \in Nat
      /\ r * FeeDenom + x * FeeNum \in Nat
  OBVIOUS
<1>3. /\ Wrap256(x * FeeNum) = x * FeeNum /\ Wrap256(r * FeeDenom) = r * FeeDenom
      /\ Wrap256(r * FeeDenom + x * FeeNum) = r * FeeDenom + x * FeeNum
  BY <1>1, <1>2, WrapBelow DEF Wrap256
<1>4. PICK num : num = Wrap256((x * FeeNum) * s)
  OBVIOUS
<1>5. num \in Nat /\ num <= (x * FeeNum) * s
  BY <1>2, <1>4, WrapBelow DEF Wrap256
<1>6. AmountOut(r, s, x) = num \div (r * FeeDenom + x * FeeNum)
  BY <1>3, <1>4 DEF AmountOut
<1>7. QED
  BY <1>5, <1>6, PaidBounds

Balances == [Assets -> [Account -> Nat]]
LpHolder == Holder \cup {Self, Dead}
InCirculation(x) == SumFunctionOnSet(InitialBalance[x], Users)
Total(B, x) == SumFunctionOnSet(B[x], Account)

(* What there is of every asset fits a reserve; wrapped ETH is ETH.        *)
SupplyFits == \A x \in Assets \ {Weth} : InCirculation(x) <= MaxUint128

(* Assets are only moved, and WETH holds an ETH for each of its tokens.    *)
Funded(B) ==
  /\ B \in Balances
  /\ \A x \in Assets \ {Weth} : Total(B, x) = InCirculation(x)
  /\ B[Eth][Weth] = Total(B, Weth)

-----------------------------------------------------------------------------
(* Accounts, and movements between them. *)
LEMMA AccountsDiffer ==
  /\ IsFiniteSet(Account) /\ IsFiniteSet(LpHolder)
  /\ Users \subseteq Account /\ Router \in Account /\ Weth \in Account
  /\ PoolIds \subseteq Account
  /\ Users \subseteq Holder /\ Router \in Holder /\ Holder \subseteq LpHolder
  /\ Self \in LpHolder /\ Dead \in LpHolder /\ Dead \notin Holder
  /\ Router \in LpHolder /\ Users \subseteq LpHolder
  /\ \A u \in Users : u # Router /\ u # Weth /\ u \notin PoolIds
  /\ Router # Weth /\ Router \notin PoolIds /\ Weth \notin PoolIds
  /\ Weth \in Tokens /\ Eth \notin Tokens /\ Eth # Weth
  /\ Tokens \subseteq Assets /\ Eth \in Assets /\ Self \notin PoolIds
<1>1. IsFiniteSet(PoolIds) /\ IsFiniteSet(Users)
  BY RouterAssumption, FS_Interval DEF PoolIds
<1>2. IsFiniteSet(Holder)
  BY <1>1, FS_AddElement, FS_Singleton, FS_Union DEF Holder
<1>3. IsFiniteSet(Account) /\ IsFiniteSet(LpHolder)
  <2>1. IsFiniteSet({Weth}) /\ IsFiniteSet({Self}) /\ IsFiniteSet({Dead})
    BY FS_Singleton
  <2>2. Account = (Holder \cup {Weth}) \cup PoolIds
    BY DEF Account
  <2>3. LpHolder = (Holder \cup {Self}) \cup {Dead}
    BY DEF LpHolder
  <2>4. IsFiniteSet(Holder \cup {Weth}) /\ IsFiniteSet(Holder \cup {Self})
    BY <1>2, <2>1, FS_Union
  <2>5. QED
    BY <1>1, <2>1, <2>2, <2>3, <2>4, FS_Union
<1>4. QED
  BY <1>3, RouterAssumption DEF Account, LpHolder, Holder, PoolIds, Self, NoPool, Assets

LEMMA MoveIs ==
  ASSUME NEW B \in Balances, NEW x \in Assets, NEW from \in Account, NEW to \in Account,
         from # to, NEW n \in Nat, Has(B, x, from, n)
  PROVE  /\ Move(B, x, from, to, n) \in Balances
         /\ \A y \in Assets : Total(Move(B, x, from, to, n), y) = Total(B, y)
         /\ \A y \in Assets \ {x} : Move(B, x, from, to, n)[y] = B[y]
         /\ \A a \in Account \ {from, to} : Move(B, x, from, to, n)[x][a] = B[x][a]
         /\ Move(B, x, from, to, n)[x][from] = B[x][from] - n
         /\ Move(B, x, from, to, n)[x][to] = B[x][to] + n
<1> DEFINE C == Move(B, x, from, to, n)
           g == Transfer(B[x], from, to, n)
<1>1. B[x] \in [Account -> Nat] /\ Covers(B[x], from, n)
  BY DEF Balances, Has
<1>2. g \in [Account -> Nat] /\ SumFunctionOnSet(g, Account) = SumFunctionOnSet(B[x], Account)
  BY <1>1, AccountsDiffer, SumTransfer
<1>3. /\ \A a \in Account \ {from, to} : g[a] = B[x][a]
      /\ g[from] = B[x][from] - n /\ g[to] = B[x][to] + n
  BY <1>1 DEF Transfer, Credit, Debit
<1>4. C = [B EXCEPT ![x] = g]
  BY DEF Move
<1> HIDE DEF g
<1>5. C[x] = g /\ C \in Balances /\ \A y \in Assets \ {x} : C[y] = B[y]
  BY <1>2, <1>4 DEF Balances
<1> HIDE DEF C
<1>6. \A y \in Assets : Total(C, y) = Total(B, y)
  BY <1>2, <1>5 DEF Total
<1>7. QED
  BY <1>3, <1>5, <1>6 DEF C

LEMMA MoveKeepsFunds ==
  ASSUME NEW B, Funded(B), NEW x \in Assets, NEW from \in Account, NEW to \in Account,
         from # to, x = Eth => from # Weth /\ to # Weth,
         NEW n \in Nat, Has(B, x, from, n)
  PROVE  Funded(Move(B, x, from, to, n))
<1> DEFINE C == Move(B, x, from, to, n)
<1>1. B \in Balances
  BY DEF Funded
<1>2. /\ C \in Balances
      /\ \A y \in Assets : Total(C, y) = Total(B, y)
      /\ \A y \in Assets \ {x} : C[y] = B[y]
      /\ \A a \in Account \ {from, to} : C[x][a] = B[x][a]
  BY <1>1, MoveIs
<1> HIDE DEF C
<1>3. C[Eth][Weth] = B[Eth][Weth]
  BY <1>2, AccountsDiffer
<1>4. QED
  BY <1>2, <1>3, AccountsDiffer DEF Funded, C

(* WETH's deposit: a's ETH goes to the contract, as much WETH to a.        *)
LEMMA WrapIs ==
  ASSUME NEW B, Funded(B), NEW a \in Account, a # Weth, NEW n \in Nat, Has(B, Eth, a, n)
  PROVE  /\ Funded(Wrap(B, a, n))
         /\ \A y \in Assets \ {Eth, Weth} : Wrap(B, a, n)[y] = B[y]
         /\ \A c \in Account \ {a} : Wrap(B, a, n)[Weth][c] = B[Weth][c]
         /\ \A c \in Account \ {a, Weth} : Wrap(B, a, n)[Eth][c] = B[Eth][c]
         /\ Wrap(B, a, n)[Weth][a] = B[Weth][a] + n
         /\ Wrap(B, a, n)[Eth][a] = B[Eth][a] - n
<1> DEFINE C == Wrap(B, a, n)
           e == Transfer(B[Eth], a, Weth, n)
           w == Credit(B[Weth], a, n)
<1>1. /\ B \in Balances /\ B[Eth] \in [Account -> Nat] /\ B[Weth] \in [Account -> Nat]
      /\ Covers(B[Eth], a, n) /\ B[Eth][Weth] = Total(B, Weth)
  BY AccountsDiffer DEF Funded, Balances, Has
<1>2. /\ e \in [Account -> Nat]
      /\ SumFunctionOnSet(e, Account) = SumFunctionOnSet(B[Eth], Account)
  BY <1>1, AccountsDiffer, SumTransfer
<1> DEFINE f == B[Weth]
<1>3. /\ w \in [Account -> Nat]
      /\ SumFunctionOnSet(w, Account) = SumFunctionOnSet(B[Weth], Account) + n
  <2>1. f \in [Account -> Nat] /\ IsFiniteSet(Account)
    BY <1>1, AccountsDiffer
  <2> HIDE DEF f
  <2>2. /\ Credit(f, a, n) \in [Account -> Nat]
        /\ SumFunctionOnSet(Credit(f, a, n), Account) = SumFunctionOnSet(f, Account) + n
    BY <2>1, SumCredit
  <2>3. QED
    BY <2>2 DEF f
<1>4. /\ \A c \in Account \ {a, Weth} : e[c] = B[Eth][c]
      /\ e[a] = B[Eth][a] - n /\ e[Weth] = B[Eth][Weth] + n
      /\ \A c \in Account \ {a} : w[c] = B[Weth][c]
      /\ w[a] = B[Weth][a] + n
  BY <1>1, AccountsDiffer DEF Transfer, Credit, Debit
<1>5. C = [B EXCEPT ![Eth] = e, ![Weth] = w]
  BY DEF Wrap
<1> HIDE DEF e, w
<1>6. /\ C \in Balances /\ C[Eth] = e /\ C[Weth] = w
      /\ \A y \in Assets \ {Eth, Weth} : C[y] = B[y]
  BY <1>1, <1>2, <1>3, <1>5, AccountsDiffer DEF Balances
<1> HIDE DEF C
<1>7. Funded(C)
  <2>1. \A x \in Assets \ {Weth} : Total(C, x) = Total(B, x)
    BY <1>2, <1>6 DEF Total
  <2>2. Total(C, Weth) = Total(B, Weth) + n
    BY <1>3, <1>6 DEF Total
  <2>3. QED
    BY <1>1, <1>4, <1>6, <2>1, <2>2 DEF Funded
<1>8. QED
  BY <1>4, <1>6, <1>7 DEF C

(* WETH's withdraw, which the contract can always pay.                     *)
LEMMA UnwrapIs ==
  ASSUME NEW B, Funded(B), NEW a \in Account, a # Weth, NEW n \in Nat, Has(B, Weth, a, n)
  PROVE  /\ Funded(Unwrap(B, a, n))
         /\ \A y \in Assets \ {Eth, Weth} : Unwrap(B, a, n)[y] = B[y]
         /\ \A c \in Account \ {a} : Unwrap(B, a, n)[Weth][c] = B[Weth][c]
         /\ \A c \in Account \ {a, Weth} : Unwrap(B, a, n)[Eth][c] = B[Eth][c]
         /\ Unwrap(B, a, n)[Weth][a] = B[Weth][a] - n
         /\ Unwrap(B, a, n)[Eth][a] = B[Eth][a] + n
<1> DEFINE C == Unwrap(B, a, n)
           e == Transfer(B[Eth], Weth, a, n)
           w == Debit(B[Weth], a, n)
<1>1. /\ B \in Balances /\ B[Eth] \in [Account -> Nat] /\ B[Weth] \in [Account -> Nat]
      /\ Covers(B[Weth], a, n) /\ B[Eth][Weth] = Total(B, Weth)
  BY AccountsDiffer DEF Funded, Balances, Has
<1>2. Covers(B[Eth], Weth, n)
  <2>1. B[Weth][a] <= SumFunctionOnSet(B[Weth], Account)
    BY <1>1, AccountsDiffer, SumBounds
  <2>2. B[Weth][a] \in Nat /\ SumFunctionOnSet(B[Weth], Account) \in Nat
    BY <1>1, AccountsDiffer, SumBounds
  <2>3. QED
    BY <1>1, <2>1, <2>2 DEF Covers, Total
<1>3. /\ e \in [Account -> Nat]
      /\ SumFunctionOnSet(e, Account) = SumFunctionOnSet(B[Eth], Account)
  BY <1>1, <1>2, AccountsDiffer, SumTransfer
<1>4. /\ w \in [Account -> Nat]
      /\ SumFunctionOnSet(w, Account) = SumFunctionOnSet(B[Weth], Account) - n
  BY <1>1, AccountsDiffer, SumDebit
<1>5. /\ \A c \in Account \ {a, Weth} : e[c] = B[Eth][c]
      /\ e[a] = B[Eth][a] + n /\ e[Weth] = B[Eth][Weth] - n
      /\ \A c \in Account \ {a} : w[c] = B[Weth][c]
      /\ w[a] = B[Weth][a] - n
  BY <1>1, AccountsDiffer DEF Transfer, Credit, Debit
<1>6. C = [B EXCEPT ![Weth] = w, ![Eth] = e]
  BY DEF Unwrap
<1> HIDE DEF e, w
<1>7. /\ C \in Balances /\ C[Eth] = e /\ C[Weth] = w
      /\ \A y \in Assets \ {Eth, Weth} : C[y] = B[y]
  BY <1>1, <1>3, <1>4, <1>6, AccountsDiffer DEF Balances
<1> HIDE DEF C
<1>8. Funded(C)
  <2>1. \A x \in Assets \ {Weth} : Total(C, x) = Total(B, x)
    BY <1>3, <1>7 DEF Total
  <2>2. Total(C, Weth) = Total(B, Weth) - n
    BY <1>4, <1>7 DEF Total
  <2>3. QED
    BY <1>1, <1>5, <1>7, <2>1, <2>2 DEF Funded
<1>9. QED
  BY <1>5, <1>7, <1>8 DEF C

(* No account holds more of a token than a reserve can count.              *)
LEMMA BalancesFit ==
  ASSUME SupplyFits, NEW B, Funded(B), NEW x \in Tokens, NEW a \in Account
  PROVE  B[x][a] \in Nat /\ B[x][a] <= MaxUint128
<1>1. /\ B[x] \in [Account -> Nat] /\ B[Eth] \in [Account -> Nat] /\ x \in Assets
      /\ MaxUint128 \in Nat
  BY AccountsDiffer, PoolMathAssumption DEF Funded, Balances
<1>2. \A y \in {x, Eth}, c \in Account : B[y][c] \in Nat /\ B[y][c] <= Total(B, y) /\ Total(B, y) \in Nat
  BY <1>1, AccountsDiffer, SumBounds DEF Total
<1>3. CASE x # Weth
  BY <1>1, <1>2, <1>3, AccountsDiffer DEF Funded, SupplyFits
<1>4. CASE x = Weth
  <2>1. B[Eth][Weth] <= MaxUint128
    BY <1>1, <1>2, AccountsDiffer DEF Funded, SupplyFits
  <2>2. B[x][a] <= B[Eth][Weth]
    BY <1>2, <1>4 DEF Funded
  <2>3. QED
    BY <1>1, <1>2, <2>1, <2>2, AccountsDiffer
<1>5. QED
  BY <1>3, <1>4

LEMMA MoveToSelf ==
  ASSUME NEW B \in Balances, NEW x \in Assets, NEW a \in Account, NEW n \in Nat
  PROVE  Move(B, x, a, a, n) = B
<1> DEFINE f == B[x]
<1>1. f \in [Account -> Nat]
  BY DEF Balances
<1>2. Transfer(f, a, a, n) = f
  BY <1>1 DEF Transfer, Credit, Debit
<1>3. Move(B, x, a, a, n) = [B EXCEPT ![x] = f]
  BY <1>2 DEF Move
<1>4. QED
  BY <1>3 DEF Balances

LEMMA FundedAtFirst == Init => Funded(balance)
<1> SUFFICES ASSUME Init PROVE Funded(balance)
  OBVIOUS
<1>1. balance \in Balances
  BY AccountsDiffer, RouterAssumption DEF Init, Balances
<1>2. ASSUME NEW x \in Assets PROVE Total(balance, x) = InCirculation(x)
  <2>1. \A a \in Account : balance[x][a] \in Nat
    BY <1>1 DEF Balances
  <2>2. \A a \in Account \ Users : balance[x][a] = 0
    BY DEF Init
  <2>3. \A u \in Users : balance[x][u] = InitialBalance[x][u]
    BY AccountsDiffer DEF Init
  <2>4. SumFunctionOnSet(balance[x], Account) = SumFunctionOnSet(balance[x], Users)
    BY <2>1, <2>2, AccountsDiffer, SumOnSupport
  <2>5. SumFunctionOnSet(balance[x], Users) = InCirculation(x)
    BY <2>3, RouterAssumption, SumCongruence DEF InCirculation
  <2>6. QED
    BY <2>4, <2>5 DEF Total
<1>3. InCirculation(Weth) = 0
  BY RouterAssumption, SumZero DEF InCirculation
<1>4. balance[Eth][Weth] = 0
  BY AccountsDiffer DEF Init
<1>5. QED
  BY <1>1, <1>2, <1>3, <1>4, AccountsDiffer DEF Funded

-----------------------------------------------------------------------------
(* What is right about a pool p at address i, as long as the balances are  *)
(* B, and about a sequence P of pools.                                     *)
PoolRecord ==
  [address : Nat, token : [Side -> Tokens], reserve : [Side -> Nat],
   lp : [LpHolder -> Nat], totalSupply : Nat]

Lives(p) ==
  \/ /\ p.totalSupply = 0
     /\ \A s \in Side : p.reserve[s] = 0
  \/ /\ p.totalSupply >= MinimumLiquidity
     /\ p.lp[Dead] >= MinimumLiquidity
     /\ \A s \in Side : p.reserve[s] > 0

PoolOk(p, i, B) ==
  /\ p \in PoolRecord
  /\ p.address = i /\ p.token[0] < p.token[1]
  /\ \A s \in Side : p.reserve[s] <= B[p.token[s]][i]
  /\ p.totalSupply = SumFunctionOnSet(p.lp, LpHolder)
  /\ Lives(p)

Sound(P, B) ==
  /\ P \in Seq(PoolRecord) /\ Len(P) <= MaxPools
  /\ \A i \in DOMAIN P : PoolOk(P[i], i, B)

(* The pool's own operators, in this module's terms.                       *)
LEMMA PoolOperators ==
  ASSUME NEW p
  PROVE  /\ \A amount : Pool(p)!MintedFor(amount)
                = Lesser(ProRata(amount[0], p.totalSupply, p.reserve[0]),
                         ProRata(amount[1], p.totalSupply, p.reserve[1]))
         /\ \A n : Pool(p)!Redeemed(n)
                = [s \in Side |-> ProRata(n, p.reserve[s], p.totalSupply)]
         /\ \A amount : Pool(p)!ReservesAfterDeposit(amount)
                = [s \in Side |-> Wrap128(p.reserve[s] + amount[s])]
         /\ \A amount : Pool(p)!ReservesAfterWithdrawal(amount)
                = [s \in Side |-> Wrap128(p.reserve[s] - amount[s])]
         /\ \A s, x, out : Pool(p)!ReservesAfterSwap(s, x, out)
                = [p.reserve EXCEPT ![s] = Wrap128(@ + x), ![1 - s] = Wrap128(@ - out)]
         /\ \A a, n : Pool(p)!MintInitial(a, n)
                = Credit(Credit(p.lp, Dead, MinimumLiquidity), a, n - MinimumLiquidity)
<1>1. \A amount : Pool(p)!MintedFor(amount)
                = Lesser(ProRata(amount[0], p.totalSupply, p.reserve[0]),
                         ProRata(amount[1], p.totalSupply, p.reserve[1]))
  BY DEF Pool!MintedFor, Pool!Lesser, Pool!ProRata, Lesser, ProRata
<1>2. \A n : Pool(p)!Redeemed(n)
                = [s \in Side |-> ProRata(n, p.reserve[s], p.totalSupply)]
  BY DEF Pool!Redeemed, Pool!Token, Side, Pool!ProRata, ProRata
<1>3. \A amount : Pool(p)!ReservesAfterDeposit(amount)
                = [s \in Side |-> Wrap128(p.reserve[s] + amount[s])]
  BY DEF Pool!ReservesAfterDeposit, Pool!Token, Side, Pool!Wrap128, Wrap128
<1>4. \A amount : Pool(p)!ReservesAfterWithdrawal(amount)
                = [s \in Side |-> Wrap128(p.reserve[s] - amount[s])]
  BY DEF Pool!ReservesAfterWithdrawal, Pool!Token, Side, Pool!Wrap128, Wrap128
<1>5. \A s, x, out : Pool(p)!ReservesAfterSwap(s, x, out)
                = [p.reserve EXCEPT ![s] = Wrap128(@ + x), ![1 - s] = Wrap128(@ - out)]
  BY DEF Pool!ReservesAfterSwap, Pool!Other, Pool!Wrap128, Wrap128
<1>6. \A a, n : Pool(p)!MintInitial(a, n)
                = Credit(Credit(p.lp, Dead, MinimumLiquidity), a, n - MinimumLiquidity)
  BY DEF Pool!MintInitial, Pool!Credit, Credit
<1>7. QED
  BY <1>1, <1>2, <1>3, <1>4, <1>5, <1>6, Zenon

LEMMA WrapFits ==
  ASSUME NEW n \in Nat, n <= MaxUint128
  PROVE  Wrap128(n) = n
BY PoolMathAssumption DEF Wrap128

LEMMA NewPoolOk ==
  ASSUME NEW B \in Balances, Len(pools) + 1 \in PoolIds, NEW a \in Tokens, NEW b \in Tokens, a # b
  PROVE  /\ PoolOk(NewPool(a, b), Len(pools) + 1, B)
         /\ \/ NewPool(a, b).token[0] = a /\ NewPool(a, b).token[1] = b
            \/ NewPool(a, b).token[0] = b /\ NewPool(a, b).token[1] = a
<1> DEFINE p == NewPool(a, b)
           i == Len(pools) + 1
<1>1. i \in Nat /\ a \in Nat /\ b \in Nat
  BY RouterAssumption DEF PoolIds
<1>2. /\ p.address = i /\ p.totalSupply = 0
      /\ p.token \in [Side -> Tokens]
      /\ p.reserve = [s \in Side |-> 0]
      /\ p.lp = [h \in LpHolder |-> 0]
  BY <1>1 DEF NewPool, Least, Greatest, LpHolder
<1>3. p \in PoolRecord
  BY <1>1 DEF NewPool, Least, Greatest, LpHolder, PoolRecord
<1>4. /\ p.token[0] < p.token[1]
      /\ \/ p.token[0] = a /\ p.token[1] = b
         \/ p.token[0] = b /\ p.token[1] = a
  BY <1>1 DEF NewPool, Least, Greatest, Side
<1>5. SumFunctionOnSet(p.lp, LpHolder) = 0
  BY <1>2, AccountsDiffer, SumZero
<1> HIDE DEF p
<1>6. \A s \in Side : p.reserve[s] <= B[p.token[s]][i]
  BY <1>2, AccountsDiffer DEF Balances
<1>7. QED
  BY <1>2, <1>3, <1>4, <1>5, <1>6 DEF PoolOk, Lives, p

(* A pool stays right when its balances grow.                              *)
LEMMA PoolStaysOk ==
  ASSUME NEW p, NEW i \in PoolIds, NEW B \in Balances, NEW C \in Balances, PoolOk(p, i, B),
         \A s \in Side : C[p.token[s]][i] >= B[p.token[s]][i]
  PROVE  PoolOk(p, i, C)
<1>1. p.token \in [Side -> Tokens] /\ p.reserve \in [Side -> Nat]
  BY DEF PoolOk, PoolRecord
<1>2. \A s \in Side : B[p.token[s]][i] \in Nat /\ C[p.token[s]][i] \in Nat
  BY <1>1, AccountsDiffer DEF Balances
<1>3. \A s \in Side : p.reserve[s] <= C[p.token[s]][i]
  BY <1>1, <1>2 DEF PoolOk
<1>4. QED
  BY <1>3 DEF PoolOk

LEMMA SoundWithMore ==
  ASSUME NEW P, NEW B \in Balances, NEW C \in Balances, Sound(P, B),
         \A x \in Tokens, i \in PoolIds : C[x][i] >= B[x][i]
  PROVE  Sound(P, C)
<1>1. ASSUME NEW i \in DOMAIN P PROVE PoolOk(P[i], i, C)
  <2>1. PoolOk(P[i], i, B) /\ i \in PoolIds
    BY RouterAssumption DEF Sound, PoolIds
  <2>2. \A s \in Side : P[i].token[s] \in Tokens
    BY <2>1 DEF PoolOk, PoolRecord
  <2>3. QED
    BY <2>1, <2>2, PoolStaysOk
<1>2. QED
  BY <1>1 DEF Sound

(* One pool is replaced, and only its balances may have shrunk.            *)
LEMMA SoundWithOneChanged ==
  ASSUME NEW P, NEW B \in Balances, NEW C \in Balances, Sound(P, B),
         NEW i \in DOMAIN P, NEW q, PoolOk(q, i, C),
         \A x \in Tokens, j \in PoolIds \ {i} : C[x][j] >= B[x][j]
  PROVE  Sound([P EXCEPT ![i] = q], C)
<1> DEFINE Q == [P EXCEPT ![i] = q]
<1>1. q \in PoolRecord /\ P \in Seq(PoolRecord)
  BY DEF PoolOk, Sound
<1>2. Q \in Seq(PoolRecord) /\ Len(Q) = Len(P) /\ DOMAIN Q = DOMAIN P
  BY <1>1
<1>3. ASSUME NEW j \in DOMAIN P PROVE PoolOk(Q[j], j, C)
  <2>1. CASE j = i
    BY <2>1, <1>1
  <2>2. CASE j # i
    <3>1. PoolOk(P[j], j, B) /\ j \in PoolIds \ {i} /\ Q[j] = P[j]
      BY <2>2, <1>1, RouterAssumption DEF Sound, PoolIds
    <3>2. \A s \in Side : P[j].token[s] \in Tokens
      BY <3>1 DEF PoolOk, PoolRecord
    <3>3. QED
      BY <3>1, <3>2, PoolStaysOk
  <2>3. QED
    BY <2>1, <2>2
<1>4. Len(Q) <= MaxPools
  BY <1>2 DEF Sound
<1> HIDE DEF Q
<1>5. QED
  BY <1>2, <1>3, <1>4 DEF Sound, Q

LEMMA SoundPool ==
  ASSUME NEW P, NEW B \in Balances, Sound(P, B), NEW i \in DOMAIN P
  PROVE  /\ i \in PoolIds /\ i \in Account /\ i # Router /\ i # Weth
         /\ PoolOk(P[i], i, B)
         /\ P[i].token \in [Side -> Tokens]
         /\ P[i].token[0] \in Tokens /\ P[i].token[1] \in Tokens
         /\ P[i].token[0] # P[i].token[1]
<1>1. i \in PoolIds /\ PoolOk(P[i], i, B)
  BY RouterAssumption DEF Sound, PoolIds
<1>2. i \in Account /\ i # Router /\ i # Weth
  BY <1>1, AccountsDiffer
<1>3. P[i].token \in [Side -> Tokens] /\ P[i].token[0] < P[i].token[1]
  BY <1>1 DEF PoolOk, PoolRecord
<1>4. P[i].token[0] \in Tokens /\ P[i].token[1] \in Tokens
  BY <1>3 DEF Side
<1>5. P[i].token[0] # P[i].token[1]
  <2>1. Tokens \subseteq Nat
    BY RouterAssumption
  <2>2. P[i].token[0] \in Nat /\ P[i].token[1] \in Nat
    BY <1>4, <2>1
  <2>3. QED
    BY <1>3, <2>2
<1>6. QED
  BY <1>1, <1>2, <1>3, <1>4, <1>5

-----------------------------------------------------------------------------
(* The calls of one pool keep it right.                                    *)
LEMMA PoolParts ==
  ASSUME NEW p, NEW i \in PoolIds, NEW B \in Balances, PoolOk(p, i, B)
  PROVE  /\ p.reserve \in [Side -> Nat] /\ p.reserve[0] \in Nat /\ p.reserve[1] \in Nat
         /\ p.lp \in [LpHolder -> Nat] /\ p.totalSupply \in Nat
         /\ p.totalSupply = SumFunctionOnSet(p.lp, LpHolder)
         /\ p.token[0] \in Tokens /\ p.token[1] \in Tokens
         /\ \A s \in Side : /\ B[p.token[s]][i] \in Nat
                            /\ p.reserve[s] <= B[p.token[s]][i]
         /\ Lives(p)
<1>1. /\ p.reserve \in [Side -> Nat] /\ p.lp \in [LpHolder -> Nat] /\ p.totalSupply \in Nat
      /\ p.token \in [Side -> Tokens]
  BY DEF PoolOk, PoolRecord
<1>2. 0 \in Side /\ 1 \in Side
  BY DEF Side
<1>3. \A s \in Side : B[p.token[s]][i] \in Nat
  BY <1>1, AccountsDiffer DEF Balances
<1>4. QED
  BY <1>1, <1>2, <1>3 DEF PoolOk

(* The router passes the LP on that a pool mints for it.                   *)
LEMMA MintedIsPassedOn ==
  ASSUME NEW L \in [LpHolder -> Nat], NEW to \in Users, NEW m \in Nat
  PROVE  LET M == Transfer(Credit(L, Router, m), Router, to, m)
         IN  /\ M \in [LpHolder -> Nat]
             /\ SumFunctionOnSet(M, LpHolder) = SumFunctionOnSet(L, LpHolder) + m
             /\ M[Dead] = L[Dead]
<1> DEFINE K == Credit(L, Router, m)
           M == Transfer(K, Router, to, m)
<1>1. /\ K \in [LpHolder -> Nat]
      /\ SumFunctionOnSet(K, LpHolder) = SumFunctionOnSet(L, LpHolder) + m
  <2>1. IsFiniteSet(LpHolder) /\ Router \in LpHolder
    BY AccountsDiffer
  <2>2. QED
    BY <2>1, SumCredit
<1>2. /\ K[Router] = L[Router] + m /\ K[Dead] = L[Dead]
      /\ L[Router] \in Nat /\ L[Dead] \in Nat /\ Dead \in LpHolder /\ Router \in LpHolder
      /\ to \in LpHolder /\ Dead # to /\ Dead # Router
  BY AccountsDiffer DEF Credit
<1> HIDE DEF K
<1>3. Covers(K, Router, m)
  BY <1>2 DEF Covers
<1>4. M \in [LpHolder -> Nat] /\ SumFunctionOnSet(M, LpHolder) = SumFunctionOnSet(K, LpHolder)
  BY <1>1, <1>2, <1>3, AccountsDiffer, SumTransfer
<1>5. M[Dead] = K[Dead]
  BY <1>1, <1>2 DEF Transfer, Credit, Debit
<1>6. QED
  BY <1>1, <1>2, <1>4, <1>5 DEF K

LEMMA DepositedOk ==
  ASSUME NEW p, NEW i \in PoolIds, NEW B \in Balances, NEW C \in Balances,
         PoolOk(p, i, B), NEW to \in Users,
         NEW amount \in [Side -> Nat], AcceptsDeposit(p, amount),
         \A s \in Side : /\ C[p.token[s]][i] = B[p.token[s]][i] + amount[s]
                         /\ C[p.token[s]][i] <= MaxUint128
  PROVE  /\ PoolOk(Deposited(p, to, amount), i, C)
         /\ Deposited(p, to, amount).token = p.token
<1> DEFINE q == Deposited(p, to, amount)
           r == [s \in Side |-> p.reserve[s] + amount[s]]
           init == InitialLp(amount)
           m == IF IsEmpty(p) THEN init - MinimumLiquidity ELSE Pool(p)!MintedFor(amount)
           locked == IF IsEmpty(p) THEN MinimumLiquidity ELSE 0
           L == IF IsEmpty(p) THEN Credit(p.lp, Dead, MinimumLiquidity) ELSE p.lp
           M == Transfer(Credit(L, Router, m), Router, to, m)
<1>1. /\ p.reserve \in [Side -> Nat] /\ p.reserve[0] \in Nat /\ p.reserve[1] \in Nat
      /\ p.lp \in [LpHolder -> Nat] /\ p.totalSupply \in Nat
      /\ p.totalSupply = SumFunctionOnSet(p.lp, LpHolder)
      /\ \A s \in Side : /\ B[p.token[s]][i] \in Nat
                         /\ p.reserve[s] <= B[p.token[s]][i]
      /\ Lives(p)
  BY PoolParts
<1>2. amount[0] \in Nat /\ amount[1] \in Nat /\ MinimumLiquidity \in Nat \ {0}
  BY PoolMathAssumption DEF Side
<1>3. \A s \in Side : /\ r[s] \in Nat /\ r[s] <= C[p.token[s]][i]
                      /\ Wrap128(p.reserve[s] + amount[s]) = r[s]
  <2>1. SUFFICES ASSUME NEW s \in Side
                 PROVE  /\ r[s] \in Nat /\ r[s] <= C[p.token[s]][i]
                        /\ Wrap128(p.reserve[s] + amount[s]) = r[s]
    OBVIOUS
  <2>2. p.reserve[s] \in Nat /\ amount[s] \in Nat /\ MaxUint128 \in Nat
    BY <1>1, PoolMathAssumption
  <2>3. r[s] \in Nat /\ r[s] <= C[p.token[s]][i] /\ r[s] <= MaxUint128
    BY <1>1, <2>2
  <2>4. QED
    BY <2>3, WrapFits
<1>4. m \in Nat /\ m > 0 /\ (IsEmpty(p) => p.totalSupply = 0) /\ (~IsEmpty(p) => HasLiquidity(p))
  <2>1. CASE IsEmpty(p)
    <3>1. amount[0] * amount[1] \in Nat
      BY <1>2
    <3>2. init \in Nat
      BY <3>1, SqrtBounds DEF InitialLp
    <3>3. ~HasLiquidity(p)
      BY <2>1, <1>1 DEF IsEmpty, HasLiquidity, Side
    <3>4. init > MinimumLiquidity
      BY <3>3 DEF AcceptsDeposit
    <3>5. p.totalSupply = 0
      BY <1>1, <2>1 DEF Lives, IsEmpty, Side
    <3> HIDE DEF init
    <3>6. QED
      BY <1>2, <2>1, <3>2, <3>4, <3>5
  <2>2. CASE ~IsEmpty(p)
    <3>1. HasLiquidity(p) /\ Pool(p)!MintedFor(amount) > 0
      BY <2>2 DEF AcceptsDeposit
    <3>2. p.reserve[0] \in Nat \ {0} /\ p.reserve[1] \in Nat \ {0}
      BY <1>1, <3>1 DEF HasLiquidity, Side
    <3>3. /\ ProRata(amount[0], p.totalSupply, p.reserve[0]) \in Nat
          /\ ProRata(amount[1], p.totalSupply, p.reserve[1]) \in Nat
      BY <1>1, <1>2, <3>2, ProRataBounds
    <3>4. Pool(p)!MintedFor(amount) \in Nat
      BY <3>3, PoolOperators DEF Lesser
    <3>5. QED
      BY <2>2, <3>1, <3>4
  <2>3. QED
    BY <2>1, <2>2
<1>5. /\ L \in [LpHolder -> Nat]
      /\ SumFunctionOnSet(L, LpHolder) = p.totalSupply + locked
      /\ L[Dead] >= MinimumLiquidity
  <2>1. CASE IsEmpty(p)
    <3>1. /\ Credit(p.lp, Dead, MinimumLiquidity) \in [LpHolder -> Nat]
          /\ SumFunctionOnSet(Credit(p.lp, Dead, MinimumLiquidity), LpHolder)
               = SumFunctionOnSet(p.lp, LpHolder) + MinimumLiquidity
      <4>1. IsFiniteSet(LpHolder) /\ Dead \in LpHolder
        BY AccountsDiffer
      <4>2. p.lp \in [LpHolder -> Nat] /\ MinimumLiquidity \in Nat
        BY <1>1, <1>2
      <4>3. QED
        BY <4>1, <4>2, SumCredit
    <3>2. Credit(p.lp, Dead, MinimumLiquidity)[Dead] >= MinimumLiquidity
      BY <1>1, <1>2, AccountsDiffer DEF Credit
    <3>3. QED
      BY <1>1, <2>1, <3>1, <3>2
  <2>2. CASE ~IsEmpty(p)
    <3>1. HasLiquidity(p)
      BY <2>2, <1>4
    <3>2. p.lp[Dead] >= MinimumLiquidity
      BY <1>1, <3>1 DEF Lives, HasLiquidity, Side
    <3>3. QED
      BY <1>1, <2>2, <3>2
  <2>3. QED
    BY <2>1, <2>2
<1> HIDE DEF L, m
<1>6. /\ M \in [LpHolder -> Nat] /\ M[Dead] = L[Dead]
      /\ SumFunctionOnSet(M, LpHolder) = SumFunctionOnSet(L, LpHolder) + m
  BY <1>4, <1>5, MintedIsPassedOn
<1>7. /\ q = [p EXCEPT !.reserve = r, !.lp = M,
                       !.totalSupply = p.totalSupply + m + locked]
  <2>1. Pool(p)!ReservesAfterDeposit(amount) = r
    <3>1. Pool(p)!ReservesAfterDeposit(amount)
            = [s \in Side |-> Wrap128(p.reserve[s] + amount[s])]
      BY PoolOperators
    <3>2. QED
      BY <1>3, <3>1
  <2>2. (IF IsEmpty(p) THEN Pool(p)!MintInitial(Router, init) ELSE Credit(p.lp, Router, m))
          = Credit(L, Router, m)
    <3>1. Pool(p)!MintInitial(Router, init)
            = Credit(Credit(p.lp, Dead, MinimumLiquidity), Router, init - MinimumLiquidity)
      BY PoolOperators
    <3>2. QED
      BY <3>1 DEF L, m
  <2>3. q = [p EXCEPT !.reserve     = Pool(p)!ReservesAfterDeposit(amount),
                      !.lp          = Transfer(IF IsEmpty(p)
                                                 THEN Pool(p)!MintInitial(Router, init)
                                                 ELSE Credit(p.lp, Router, m),
                                               Router, to, m),
                      !.totalSupply = @ + m + locked]
    BY DEF Deposited, m
  <2> HIDE DEF q, init, r
  <2>4. QED
    BY <2>1, <2>2, <2>3
<1> HIDE DEF M
<1>8. /\ p \in PoolRecord /\ r \in [Side -> Nat] /\ locked \in Nat
      /\ p.address = i /\ p.token[0] < p.token[1]
  BY <1>2, <1>3 DEF PoolOk
<1> HIDE DEF q, r
<1>9. /\ q \in PoolRecord /\ q.address = p.address /\ q.token = p.token
      /\ q.reserve = r /\ q.lp = M /\ q.totalSupply = p.totalSupply + m + locked
  <2>1. p.totalSupply + m + locked \in Nat
    BY <1>1, <1>4, <1>8
  <2> HIDE DEF locked
  <2>2. QED
    BY <1>6, <1>7, <1>8, <2>1 DEF PoolRecord
<1>10. q.totalSupply = SumFunctionOnSet(q.lp, LpHolder)
  BY <1>1, <1>4, <1>5, <1>6, <1>8, <1>9
<1>11. Lives(q)
  <2>1. q.totalSupply >= MinimumLiquidity
    <3>1. CASE IsEmpty(p)
      BY <1>1, <1>2, <1>4, <1>9, <3>1
    <3>2. CASE ~IsEmpty(p)
      <4>1. p.totalSupply >= MinimumLiquidity
        BY <1>1, <1>4, <3>2 DEF Lives, HasLiquidity, Side
      <4>2. QED
        BY <1>1, <1>2, <1>4, <1>8, <1>9, <4>1
    <3>3. QED
      BY <3>1, <3>2
  <2>2. \A s \in Side : q.reserve[s] > 0
    <3>1. CASE IsEmpty(p)
      <4>1. \A s \in Side : amount[s] > 0
        BY <1>1, <3>1 DEF AcceptsDeposit, IsEmpty, HasLiquidity, Side
      <4>2. QED
        BY <1>1, <1>9, <4>1 DEF r
    <3>2. CASE ~IsEmpty(p)
      <4>1. \A s \in Side : p.reserve[s] > 0
        BY <1>4, <3>2 DEF HasLiquidity
      <4>2. QED
        BY <1>1, <1>9, <4>1 DEF r
    <3>3. QED
      BY <3>1, <3>2
  <2>3. QED
    BY <1>5, <1>6, <1>9, <2>1, <2>2 DEF Lives
<1>12. QED
  BY <1>3, <1>8, <1>9, <1>10, <1>11 DEF PoolOk, q

(* A withdrawal leaves the locked LP and something of both reserves.       *)
LEMMA RedeemedFits ==
  ASSUME NEW p, NEW i \in PoolIds, NEW B \in Balances, PoolOk(p, i, B),
         NEW a \in Holder, NEW n \in Nat \ {0}, Covers(p.lp, a, n)
  PROVE  /\ n < p.totalSupply /\ p.totalSupply - n >= MinimumLiquidity
         /\ \A s \in Side : /\ p.reserve[s] \in Nat
                            /\ Pool(p)!Redeemed(n)[s] \in Nat
                            /\ Pool(p)!Redeemed(n)[s] < p.reserve[s]
         /\ p.lp[Dead] >= MinimumLiquidity
<1>1. /\ p.reserve \in [Side -> Nat] /\ p.lp \in [LpHolder -> Nat] /\ p.totalSupply \in Nat
      /\ p.totalSupply = SumFunctionOnSet(p.lp, LpHolder) /\ Lives(p)
  BY PoolParts
<1>2. a \in LpHolder /\ Dead \in LpHolder /\ a # Dead /\ MinimumLiquidity \in Nat \ {0}
  BY AccountsDiffer, PoolMathAssumption
<1>3. p.lp[a] + p.lp[Dead] <= p.totalSupply /\ p.lp[a] \in Nat /\ p.lp[Dead] \in Nat
  <2> DEFINE f == p.lp
  <2>1. f \in [LpHolder -> Nat] /\ IsFiniteSet(LpHolder)
    BY <1>1, AccountsDiffer
  <2> HIDE DEF f
  <2>2. f[a] + f[Dead] <= SumFunctionOnSet(f, LpHolder) /\ f[a] \in Nat /\ f[Dead] \in Nat
    BY <1>2, <2>1, SumBounds
  <2>3. QED
    BY <1>1, <2>2 DEF f
<1>4. n <= p.lp[a]
  BY DEF Covers
<1>5. p.lp[Dead] >= MinimumLiquidity /\ \A s \in Side : p.reserve[s] > 0
  BY <1>1, <1>3, <1>4 DEF Lives
<1>6. n < p.totalSupply /\ p.totalSupply - n >= MinimumLiquidity
  BY <1>1, <1>2, <1>3, <1>4, <1>5
<1>7. ASSUME NEW s \in Side
      PROVE  /\ p.reserve[s] \in Nat
             /\ Pool(p)!Redeemed(n)[s] \in Nat /\ Pool(p)!Redeemed(n)[s] < p.reserve[s]
  <2>1. Pool(p)!Redeemed(n)[s] = ProRata(n, p.reserve[s], p.totalSupply)
    BY PoolOperators
  <2>2. p.reserve[s] \in Nat /\ p.reserve[s] > 0 /\ p.totalSupply \in Nat \ {0}
    BY <1>1, <1>5, <1>6
  <2>3. QED
    BY <1>6, <2>1, <2>2, ProRataBounds
<1>8. QED
  BY <1>5, <1>6, <1>7

LEMMA RemovedOk ==
  ASSUME NEW p, NEW i \in PoolIds, NEW B \in Balances, NEW C \in Balances, PoolOk(p, i, B),
         NEW a \in Holder, NEW n \in Nat \ {0}, Covers(p.lp, a, n),
         \A s \in Side : /\ C[p.token[s]][i] = B[p.token[s]][i] - Pool(p)!Redeemed(n)[s]
                         /\ B[p.token[s]][i] <= MaxUint128
  PROVE  PoolOk(Removed(p, a, n), i, C) /\ Removed(p, a, n).token = p.token
<1> DEFINE q == Removed(p, a, n)
           r == [s \in Side |-> p.reserve[s] - Pool(p)!Redeemed(n)[s]]
           M == Debit(p.lp, a, n)
<1>1. /\ p.reserve \in [Side -> Nat] /\ p.lp \in [LpHolder -> Nat] /\ p.totalSupply \in Nat
      /\ p.totalSupply = SumFunctionOnSet(p.lp, LpHolder)
      /\ \A s \in Side : B[p.token[s]][i] \in Nat /\ p.reserve[s] <= B[p.token[s]][i]
  BY PoolParts
<1>2. /\ n < p.totalSupply /\ p.totalSupply - n >= MinimumLiquidity
      /\ \A s \in Side : /\ p.reserve[s] \in Nat
                         /\ Pool(p)!Redeemed(n)[s] \in Nat
                         /\ Pool(p)!Redeemed(n)[s] < p.reserve[s]
      /\ p.lp[Dead] >= MinimumLiquidity
  BY RedeemedFits
<1>3. ASSUME NEW s \in Side
      PROVE  /\ r[s] \in Nat /\ r[s] > 0 /\ r[s] <= C[p.token[s]][i]
             /\ Wrap128(p.reserve[s] - Pool(p)!Redeemed(n)[s]) = r[s]
  <2> DEFINE d == Pool(p)!Redeemed(n)[s]
  <2>1. /\ d \in Nat /\ d < p.reserve[s] /\ p.reserve[s] \in Nat /\ r[s] = p.reserve[s] - d
        /\ B[p.token[s]][i] \in Nat /\ p.reserve[s] <= B[p.token[s]][i]
        /\ C[p.token[s]][i] = B[p.token[s]][i] - d
        /\ B[p.token[s]][i] <= MaxUint128 /\ MaxUint128 \in Nat
    BY <1>1, <1>2, PoolMathAssumption
  <2> HIDE DEF r, d
  <2>2. r[s] \in Nat /\ r[s] > 0 /\ r[s] <= C[p.token[s]][i] /\ r[s] <= MaxUint128
    BY <2>1
  <2>3. QED
    BY <2>1, <2>2, WrapFits DEF d
<1>4. /\ M \in [LpHolder -> Nat] /\ M[Dead] = p.lp[Dead]
      /\ SumFunctionOnSet(M, LpHolder) = p.totalSupply - n
  <2>1. IsFiniteSet(LpHolder) /\ a \in LpHolder /\ Dead \in LpHolder /\ a # Dead
    BY AccountsDiffer
  <2>2. M \in [LpHolder -> Nat]
        /\ SumFunctionOnSet(M, LpHolder) = SumFunctionOnSet(p.lp, LpHolder) - n
    BY <1>1, <2>1, SumDebit
  <2>3. M[Dead] = p.lp[Dead]
    BY <1>1, <2>1 DEF Debit
  <2>4. QED
    BY <1>1, <2>2, <2>3
<1>5. q = [p EXCEPT !.reserve = r, !.lp = M, !.totalSupply = p.totalSupply - n]
  <2>1. Pool(p)!ReservesAfterWithdrawal(Pool(p)!Redeemed(n)) = r
    <3>1. Pool(p)!ReservesAfterWithdrawal(Pool(p)!Redeemed(n))
            = [s \in Side |-> Wrap128(p.reserve[s] - Pool(p)!Redeemed(n)[s])]
      BY PoolOperators
    <3>2. QED
      BY <1>3, <3>1
  <2>2. QED
    BY <2>1 DEF Removed
<1>6. /\ p \in PoolRecord /\ r \in [Side -> Nat] /\ p.totalSupply - n \in Nat
      /\ p.address = i /\ p.token[0] < p.token[1]
  BY <1>1, <1>2, <1>3 DEF PoolOk
<1> HIDE DEF q, r, M
<1>7. /\ q \in PoolRecord /\ q.address = p.address /\ q.token = p.token
      /\ q.reserve = r /\ q.lp = M /\ q.totalSupply = p.totalSupply - n
  BY <1>4, <1>5, <1>6 DEF PoolRecord
<1>8. Lives(q)
  BY <1>2, <1>3, <1>4, <1>7 DEF Lives
<1>9. QED
  BY <1>3, <1>4, <1>6, <1>7, <1>8 DEF PoolOk, q

(* A swap of x on side s yields less than the other reserve.               *)
LEMMA SwappedOk ==
  ASSUME NEW p, NEW i \in PoolIds, NEW B \in Balances, NEW C \in Balances, PoolOk(p, i, B),
         HasLiquidity(p), NEW s \in Side, NEW x \in 1 .. MaxUint128, NEW out,
         out = AmountOut(p.reserve[s], p.reserve[1 - s], x),
         C[p.token[s]][i] = B[p.token[s]][i] + x, C[p.token[s]][i] <= MaxUint128,
         C[p.token[1 - s]][i] = B[p.token[1 - s]][i] - out, B[p.token[1 - s]][i] <= MaxUint128
  PROVE  PoolOk([p EXCEPT !.reserve = Pool(p)!ReservesAfterSwap(s, x, out)], i, C)
<1> DEFINE t == 1 - s
           r == [p.reserve EXCEPT ![s] = Wrap128(@ + x), ![t] = Wrap128(@ - out)]
           q == [p EXCEPT !.reserve = r]
<1>1. /\ p.reserve \in [Side -> Nat] /\ Lives(p)
      /\ \A c \in Side : B[p.token[c]][i] \in Nat /\ p.reserve[c] <= B[p.token[c]][i]
      /\ MaxUint128 \in Nat
  BY PoolParts, PoolMathAssumption
<1>2. t \in Side /\ t # s /\ \A c \in Side : c = s \/ c = t
  BY DEF Side
<1> DEFINE rs == p.reserve[s]
           rt == p.reserve[t]
           Bs == B[p.token[s]][i]
           Bt == B[p.token[t]][i]
<1>3. /\ rs \in Nat /\ rt \in Nat /\ rs > 0 /\ rt > 0 /\ Bs \in Nat /\ Bt \in Nat
      /\ rs <= Bs /\ rt <= Bt /\ C[p.token[s]][i] = Bs + x /\ C[p.token[t]][i] = Bt - out
      /\ Bs + x <= MaxUint128 /\ Bt <= MaxUint128 /\ out = AmountOut(rs, rt, x)
  BY <1>1, <1>2 DEF HasLiquidity
<1> HIDE DEF rs, rt, Bs, Bt
<1>4. rs \in 1 .. MaxUint128 /\ rt \in 1 .. MaxUint128
  BY <1>1, <1>3
<1>5. out \in Nat /\ out < rt
  BY <1>3, <1>4, AmountOutBounds
<1>6. /\ Wrap128(rs + x) = rs + x /\ Wrap128(rt - out) = rt - out
      /\ rs + x \in Nat /\ rt - out \in Nat /\ rs + x > 0 /\ rt - out > 0
      /\ rs + x <= C[p.token[s]][i] /\ rt - out <= C[p.token[t]][i]
  <2>1. /\ rs + x \in Nat /\ rs + x <= MaxUint128 /\ rs + x > 0
        /\ rt - out \in Nat /\ rt - out <= MaxUint128 /\ rt - out > 0
    BY <1>1, <1>3, <1>4, <1>5
  <2>2. Wrap128(rs + x) = rs + x /\ Wrap128(rt - out) = rt - out
    BY <2>1, WrapFits
  <2>3. QED
    BY <1>3, <1>5, <2>1, <2>2
<1>7. r[s] = rs + x /\ r[t] = rt - out /\ r \in [Side -> Nat]
  BY <1>1, <1>2, <1>6 DEF rs, rt
<1>8. \A c \in Side : r[c] > 0 /\ r[c] <= C[p.token[c]][i]
  BY <1>2, <1>6, <1>7
<1>9. Pool(p)!ReservesAfterSwap(s, x, out) = r
  BY PoolOperators
<1> HIDE DEF r, t
<1>10. /\ q \in PoolRecord /\ q.address = p.address /\ q.token = p.token
       /\ q.reserve = r /\ q.lp = p.lp /\ q.totalSupply = p.totalSupply
  BY <1>7 DEF PoolOk, PoolRecord
<1> HIDE DEF q
<1>11. Lives(q)
  <2>1. p.totalSupply >= MinimumLiquidity /\ p.lp[Dead] >= MinimumLiquidity
    BY <1>1 DEF Lives, HasLiquidity, Side
  <2>2. QED
    BY <1>8, <1>10, <2>1 DEF Lives
<1>12. PoolOk(q, i, C)
  BY <1>8, <1>10, <1>11 DEF PoolOk
<1>13. QED
  BY <1>9, <1>12 DEF q

-----------------------------------------------------------------------------
(* The factory: the pool found for a pair trades it.                       *)
PairsOf(p) == {<<p.token[s], p.token[1 - s]>> : s \in Side}

Paired(P, G) ==
  /\ G \in [Tokens \X Tokens -> {NoPool} \cup DOMAIN P]
  /\ \A i \in DOMAIN P : {pair \in Tokens \X Tokens : G[pair] = i} = PairsOf(P[i])

Trades(p, a, b) ==
  /\ SideOf(p, a) \in Side
  /\ p.token[SideOf(p, a)] = a /\ p.token[1 - SideOf(p, a)] = b
  /\ SideOf(p, b) = 1 - SideOf(p, a)

LEMMA PairLookup ==
  ASSUME NEW P, NEW G, NEW B \in Balances, Sound(P, B), Paired(P, G),
         NEW a \in Tokens, NEW b \in Tokens, G[<<a, b>>] # NoPool
  PROVE  /\ G[<<a, b>>] \in DOMAIN P /\ a # b /\ G[<<b, a>>] = G[<<a, b>>]
         /\ Trades(P[G[<<a, b>>]], a, b)
<1> DEFINE i == G[<<a, b>>]
<1>1. i \in DOMAIN P
  BY DEF Paired
<1>2. P[i].token[0] # P[i].token[1] /\ P[i].token[0] \in Tokens /\ P[i].token[1] \in Tokens
  BY <1>1, SoundPool
<1>3. <<a, b>> \in PairsOf(P[i])
  BY <1>1 DEF Paired
<1> HIDE DEF i
<1>4. \/ a = P[i].token[0] /\ b = P[i].token[1]
      \/ a = P[i].token[1] /\ b = P[i].token[0]
  BY <1>3 DEF PairsOf, Side
<1>5. <<b, a>> \in PairsOf(P[i])
  BY <1>4 DEF PairsOf, Side
<1>6. G[<<b, a>>] = i
  BY <1>1, <1>5 DEF Paired
<1>7. a # b /\ Trades(P[i], a, b)
  BY <1>2, <1>4 DEF SideOf, Side, Trades
<1>8. QED
  BY <1>1, <1>6, <1>7 DEF i

LEMMA PairedStays ==
  ASSUME NEW P, NEW G, Paired(P, G), NEW Q, DOMAIN Q = DOMAIN P,
         \A i \in DOMAIN P : Q[i].token = P[i].token
  PROVE  Paired(Q, G)
BY DEF Paired, PairsOf

LEMMA PairCreated ==
  ASSUME NEW B \in Balances, Sound(pools, B), Paired(pools, getPair),
         NEW a \in Tokens, NEW b \in Tokens, MayCreatePair(a, b)
  PROVE  LET Q == Append(pools, NewPool(a, b))
         IN  /\ Sound(Q, B) /\ Paired(Q, PairsWith(a, b))
             /\ Len(pools) + 1 \in DOMAIN Q
             /\ PairsWith(a, b)[<<a, b>>] = Len(pools) + 1
<1> DEFINE n == Len(pools) + 1
           q == NewPool(a, b)
           Q == Append(pools, q)
           G == PairsWith(a, b)
<1>1. /\ pools \in Seq(PoolRecord) /\ Len(pools) \in Nat /\ n \in PoolIds /\ a # b
      /\ DOMAIN pools = 1 .. Len(pools) /\ getPair[<<a, b>>] = NoPool
  BY RouterAssumption DEF Sound, MayCreatePair, PoolIds
<1>2. /\ PoolOk(q, n, B)
      /\ \/ q.token[0] = a /\ q.token[1] = b
         \/ q.token[0] = b /\ q.token[1] = a
  BY <1>1, NewPoolOk
<1> HIDE DEF q
<1>3. /\ q \in PoolRecord
      /\ Q \in Seq(PoolRecord) /\ Len(Q) = n /\ DOMAIN Q = 1 .. n
      /\ Q[n] = q /\ \A i \in 1 .. Len(pools) : Q[i] = pools[i]
  BY <1>1, <1>2 DEF PoolOk
<1> HIDE DEF Q
<1>4. Sound(Q, B)
  <2>1. n <= MaxPools
    BY <1>1 DEF PoolIds
  <2>2. \A i \in 1 .. n : i = n \/ i \in 1 .. Len(pools)
    BY <1>1
  <2>3. QED
    BY <1>1, <1>2, <1>3, <2>1, <2>2 DEF Sound
<1>5. getPair[<<b, a>>] = NoPool
  <2>1. SUFFICES ASSUME getPair[<<b, a>>] # NoPool PROVE FALSE
    OBVIOUS
  <2>2. getPair[<<a, b>>] = getPair[<<b, a>>]
    BY <2>1, PairLookup
  <2>3. QED
    BY <1>1, <2>1, <2>2
<1>6. /\ getPair \in [Tokens \X Tokens -> {NoPool} \cup 1 .. Len(pools)]
      /\ <<a, b>> \in Tokens \X Tokens /\ <<b, a>> \in Tokens \X Tokens
  BY <1>1 DEF Paired
<1>7. /\ G \in [Tokens \X Tokens -> {NoPool} \cup 1 .. n]
      /\ G[<<a, b>>] = n /\ G[<<b, a>>] = n
      /\ \A pair \in Tokens \X Tokens :
           pair # <<a, b>> /\ pair # <<b, a>> => G[pair] = getPair[pair]
  <2> DEFINE one == <<a, b>>
             two == <<b, a>>
  <2>1. G = [getPair EXCEPT ![one] = n, ![two] = n]
    BY DEF PairsWith
  <2>2. /\ getPair \in [Tokens \X Tokens -> {NoPool} \cup 1 .. Len(pools)]
        /\ one \in Tokens \X Tokens /\ two \in Tokens \X Tokens
    BY <1>6
  <2> HIDE DEF one, two, G
  <2>3. /\ G \in [Tokens \X Tokens -> {NoPool} \cup 1 .. n]
        /\ G[one] = n /\ G[two] = n
        /\ \A pair \in Tokens \X Tokens : pair # one /\ pair # two => G[pair] = getPair[pair]
    BY <1>1, <2>1, <2>2
  <2>4. QED
    BY <2>3 DEF one, two
<1> HIDE DEF G
<1>8. ASSUME NEW i \in 1 .. n
      PROVE  {pair \in Tokens \X Tokens : G[pair] = i} = PairsOf(Q[i])
  <2>1. CASE i = n
    <3>1. PairsOf(q) = {<<a, b>>, <<b, a>>}
      <4>1. PairsOf(q) = {<<q.token[0], q.token[1]>>, <<q.token[1], q.token[0]>>}
        BY DEF PairsOf, Side
      <4>2. QED
        BY <1>2, <4>1
    <3>2. \A pair \in Tokens \X Tokens : getPair[pair] # n
      BY <1>1, <1>6 DEF NoPool
    <3>3. \A pair \in Tokens \X Tokens :
             G[pair] = n <=> pair \in {<<a, b>>, <<b, a>>}
      BY <1>7, <3>2
    <3>4. QED
      BY <1>3, <1>6, <2>1, <3>1, <3>3
  <2>2. CASE i # n
    <3>1. i \in 1 .. Len(pools) /\ i # NoPool /\ Q[i] = pools[i]
      BY <1>1, <1>3, <2>2 DEF NoPool
    <3>2. \A pair \in Tokens \X Tokens : G[pair] = i <=> getPair[pair] = i
      BY <1>1, <1>5, <1>7, <2>2, <3>1
    <3>3. {pair \in Tokens \X Tokens : getPair[pair] = i} = PairsOf(pools[i])
      BY <1>1, <3>1 DEF Paired
    <3>4. QED
      BY <3>1, <3>2, <3>3
  <2>3. QED
    BY <2>1, <2>2
<1>9. Paired(Q, G)
  BY <1>3, <1>7, <1>8 DEF Paired
<1>10. n \in DOMAIN Q
  BY <1>1, <1>3
<1>11. QED
  BY <1>4, <1>7, <1>9, <1>10 DEF Q, G, q

(* The pool of a deposit, found or created.                                *)
PairsFor(a, b) == IF getPair[<<a, b>>] = NoPool THEN PairsWith(a, b) ELSE getPair

LEMMA PoolForPair ==
  ASSUME NEW B \in Balances, Sound(pools, B), Paired(pools, getPair),
         NEW a \in Tokens, NEW b \in Tokens, getPair[<<a, b>>] = NoPool => MayCreatePair(a, b)
  PROVE  /\ Sound(PoolsFor(a, b), B) /\ Paired(PoolsFor(a, b), PairsFor(a, b))
         /\ IndexFor(a, b) \in DOMAIN PoolsFor(a, b)
         /\ PairsFor(a, b)[<<a, b>>] = IndexFor(a, b) /\ IndexFor(a, b) # NoPool
<1>1. CASE getPair[<<a, b>>] = NoPool
  <2>1. Len(pools) \in Nat
    BY DEF Sound
  <2>2. QED
    BY <1>1, <2>1, PairCreated DEF PoolsFor, PairsFor, IndexFor, NoPool
<1>2. CASE getPair[<<a, b>>] # NoPool
  <2>1. getPair[<<a, b>>] \in DOMAIN pools
    BY <1>2 DEF Paired
  <2>2. QED
    BY <1>2, <2>1 DEF PoolsFor, PairsFor, IndexFor
<1>3. QED
  BY <1>1, <1>2

-----------------------------------------------------------------------------
(* The same movements entry by entry, which chains of them are read off.   *)
LEMMA MoveEntries ==
  ASSUME NEW B, Funded(B), NEW x \in Assets, NEW from \in Account, NEW to \in Account,
         from # to, x = Eth => from # Weth /\ to # Weth,
         NEW n \in Nat, n <= B[x][from]
  PROVE  LET C == Move(B, x, from, to, n)
         IN  /\ Funded(C)
             /\ \A y \in Assets, c \in Account :
                  /\ B[y][c] \in Nat /\ C[y][c] \in Nat
                  /\ C[y][c] = IF y # x THEN B[y][c]
                               ELSE IF c = from THEN B[y][c] - n
                               ELSE IF c = to THEN B[y][c] + n
                               ELSE B[y][c]
<1> DEFINE C == Move(B, x, from, to, n)
<1>1. B \in Balances /\ Has(B, x, from, n)
  BY DEF Funded, Has, Covers
<1>2. Funded(C)
  BY <1>1, MoveKeepsFunds
<1>3. /\ C \in Balances
      /\ \A y \in Assets \ {x} : C[y] = B[y]
      /\ \A a \in Account \ {from, to} : C[x][a] = B[x][a]
      /\ C[x][from] = B[x][from] - n /\ C[x][to] = B[x][to] + n
  BY <1>1, MoveIs
<1> HIDE DEF C
<1>4. ASSUME NEW y \in Assets, NEW c \in Account
      PROVE  /\ B[y][c] \in Nat /\ C[y][c] \in Nat
             /\ C[y][c] = IF y # x THEN B[y][c]
                          ELSE IF c = from THEN B[y][c] - n
                          ELSE IF c = to THEN B[y][c] + n
                          ELSE B[y][c]
  <2>1. B[y][c] \in Nat /\ C[y][c] \in Nat
    BY <1>1, <1>3 DEF Balances
  <2>2. QED
    BY <1>3, <2>1
<1>5. QED
  BY <1>2, <1>4 DEF C

LEMMA WrapEntries ==
  ASSUME NEW B, Funded(B), NEW a \in Account, a # Weth, NEW n \in Nat, n <= B[Eth][a]
  PROVE  LET C == Wrap(B, a, n)
         IN  /\ Funded(C)
             /\ \A y \in Assets, c \in Account \ {Weth} :
                  /\ B[y][c] \in Nat /\ C[y][c] \in Nat
                  /\ C[y][c] = IF c # a \/ y \notin {Eth, Weth} THEN B[y][c]
                               ELSE IF y = Eth THEN B[y][c] - n
                               ELSE B[y][c] + n
<1> DEFINE C == Wrap(B, a, n)
<1>1. Has(B, Eth, a, n)
  BY DEF Has, Covers
<1>2. /\ Funded(C)
      /\ \A y \in Assets \ {Eth, Weth} : C[y] = B[y]
      /\ \A c \in Account \ {a} : C[Weth][c] = B[Weth][c]
      /\ \A c \in Account \ {a, Weth} : C[Eth][c] = B[Eth][c]
      /\ C[Weth][a] = B[Weth][a] + n
      /\ C[Eth][a] = B[Eth][a] - n
  BY <1>1, WrapIs
<1> HIDE DEF C
<1>3. ASSUME NEW y \in Assets, NEW c \in Account \ {Weth}
      PROVE  /\ B[y][c] \in Nat /\ C[y][c] \in Nat
             /\ C[y][c] = IF c # a \/ y \notin {Eth, Weth} THEN B[y][c]
                          ELSE IF y = Eth THEN B[y][c] - n
                          ELSE B[y][c] + n
  <2>1. B[y][c] \in Nat /\ C[y][c] \in Nat
    BY <1>2 DEF Balances, Funded
  <2>2. QED
    BY <1>2, <2>1, AccountsDiffer
<1>4. QED
  BY <1>2, <1>3 DEF C

LEMMA UnwrapEntries ==
  ASSUME NEW B, Funded(B), NEW a \in Account, a # Weth, NEW n \in Nat, n <= B[Weth][a]
  PROVE  LET C == Unwrap(B, a, n)
         IN  /\ Funded(C)
             /\ \A y \in Assets, c \in Account \ {Weth} :
                  /\ B[y][c] \in Nat /\ C[y][c] \in Nat
                  /\ C[y][c] = IF c # a \/ y \notin {Eth, Weth} THEN B[y][c]
                               ELSE IF y = Weth THEN B[y][c] - n
                               ELSE B[y][c] + n
<1> DEFINE C == Unwrap(B, a, n)
<1>1. Has(B, Weth, a, n)
  BY DEF Has, Covers
<1>2. /\ Funded(C)
      /\ \A y \in Assets \ {Eth, Weth} : C[y] = B[y]
      /\ \A c \in Account \ {a} : C[Weth][c] = B[Weth][c]
      /\ \A c \in Account \ {a, Weth} : C[Eth][c] = B[Eth][c]
      /\ C[Weth][a] = B[Weth][a] - n
      /\ C[Eth][a] = B[Eth][a] + n
  BY <1>1, UnwrapIs
<1> HIDE DEF C
<1>3. ASSUME NEW y \in Assets, NEW c \in Account \ {Weth}
      PROVE  /\ B[y][c] \in Nat /\ C[y][c] \in Nat
             /\ C[y][c] = IF c # a \/ y \notin {Eth, Weth} THEN B[y][c]
                          ELSE IF y = Weth THEN B[y][c] - n
                          ELSE B[y][c] + n
  <2>1. B[y][c] \in Nat /\ C[y][c] \in Nat
    BY <1>2 DEF Balances, Funded
  <2>2. QED
    BY <1>2, <2>1, AccountsDiffer
<1>4. QED
  BY <1>2, <1>3 DEF C

-----------------------------------------------------------------------------
(* _calculateOptimalAmounts.                                               *)
KeepsRatio(p, desired, amount) ==
  /\ \A s \in Side : amount[s] <= desired[s]
  /\ \E s \in Side :
       /\ amount[s] = desired[s]
       /\ amount[1 - s] * p.reserve[s] <= amount[s] * p.reserve[1 - s]
       /\ amount[s] * p.reserve[1 - s] < (amount[1 - s] + 1) * p.reserve[s]

LEMMA OptimalKeepsRatio ==
  ASSUME NEW p, p.reserve[0] \in Nat \ {0}, p.reserve[1] \in Nat \ {0},
         NEW desired \in [Side -> Nat]
  PROVE  /\ OptimalAmounts(p, desired) \in [Side -> Nat]
         /\ KeepsRatio(p, desired, OptimalAmounts(p, desired))
<1> DEFINE r0 == p.reserve[0]
           r1 == p.reserve[1]
           d0 == desired[0]
           d1 == desired[1]
           o0 == Optimal(p, desired, 0)
           o1 == Optimal(p, desired, 1)
           amount == OptimalAmounts(p, desired)
<1>1. /\ d0 \in Nat /\ d1 \in Nat /\ r0 \in Nat \ {0} /\ r1 \in Nat \ {0}
      /\ ~IsEmpty(p)
      /\ o0 = (d1 * r0) \div r1 /\ o1 = (d0 * r1) \div r0
  BY DEF Side, IsEmpty, Optimal, ProRata
<1>2. amount = IF o1 <= d1 THEN [desired EXCEPT ![1] = o1] ELSE [desired EXCEPT ![0] = o0]
  BY <1>1 DEF OptimalAmounts, UsesAllOf0
<1> HIDE DEF r0, r1, d0, d1, o0, o1, amount
<1>3. /\ o0 \in Nat /\ o0 * r1 <= d1 * r0 /\ d1 * r0 < (o0 + 1) * r1
      /\ o1 \in Nat /\ o1 * r0 <= d0 * r1 /\ d0 * r1 < (o1 + 1) * r0
  <2>1. d1 * r0 \in Nat /\ d0 * r1 \in Nat
    BY <1>1
  <2> DEFINE n0 == d1 * r0
             n1 == d0 * r1
  <2> HIDE DEF n0, n1
  <2>2. n0 \div r1 \in Nat /\ (n0 \div r1) * r1 <= n0 /\ n0 < (n0 \div r1 + 1) * r1
    BY <1>1, <2>1, DivBounds DEF n0
  <2>3. n1 \div r0 \in Nat /\ (n1 \div r0) * r0 <= n1 /\ n1 < (n1 \div r0 + 1) * r0
    BY <1>1, <2>1, DivBounds DEF n1
  <2>4. QED
    BY <1>1, <2>2, <2>3 DEF n0, n1
<1>4. CASE o1 <= d1
  <2>1. amount = [desired EXCEPT ![1] = o1]
    BY <1>2, <1>4
  <2>2. amount \in [Side -> Nat] /\ amount[0] = d0 /\ amount[1] = o1
    BY <1>3, <2>1 DEF Side, d0
  <2>3. \A s \in Side : amount[s] <= desired[s]
    BY <1>1, <1>3, <1>4, <2>2 DEF Side, d0, d1
  <2>4. /\ amount[0] = desired[0]
        /\ amount[1 - 0] * p.reserve[0] <= amount[0] * p.reserve[1 - 0]
        /\ amount[0] * p.reserve[1 - 0] < (amount[1 - 0] + 1) * p.reserve[0]
    BY <1>3, <2>2 DEF d0, r0, r1
  <2>5. QED
    BY <2>2, <2>3, <2>4 DEF KeepsRatio, Side, amount
<1>5. CASE ~(o1 <= d1)
  <2>1. amount = [desired EXCEPT ![0] = o0]
    BY <1>2, <1>5
  <2>2. amount \in [Side -> Nat] /\ amount[0] = o0 /\ amount[1] = d1
    BY <1>3, <2>1 DEF Side, d1
  <2>3. o0 <= d0
    <3>1. SUFFICES ASSUME ~(o0 <= d0) PROVE FALSE
      OBVIOUS
    <3>2. d1 + 1 <= o1 /\ d0 + 1 <= o0
      BY <1>1, <1>3, <1>5, <3>1
    <3>3. (d1 + 1) * r0 <= o1 * r0 /\ (d0 + 1) * r1 <= o0 * r1
      BY <1>1, <1>3, <3>2, ProductMonotone
    <3>4. d1 * r0 < d0 * r1 /\ d0 * r1 < d1 * r0
      <4>1. d1 * r0 < (d1 + 1) * r0 /\ d0 * r1 < (d0 + 1) * r1
        BY <1>1
      <4>2. (d1 + 1) * r0 <= d0 * r1 /\ (d0 + 1) * r1 <= d1 * r0
        BY <1>1, <1>3, <3>3
      <4>3. QED
        BY <1>1, <4>1, <4>2
    <3>5. QED
      BY <1>1, <3>4
  <2>4. \A s \in Side : amount[s] <= desired[s]
    BY <1>1, <1>3, <2>2, <2>3 DEF Side, d0, d1
  <2>5. /\ amount[1] = desired[1]
        /\ amount[1 - 1] * p.reserve[1] <= amount[1] * p.reserve[1 - 1]
        /\ amount[1] * p.reserve[1 - 1] < (amount[1 - 1] + 1) * p.reserve[1]
    BY <1>3, <2>2 DEF d1, r0, r1
  <2>6. QED
    BY <2>2, <2>4, <2>5 DEF KeepsRatio, Side, amount
<1>6. QED
  BY <1>4, <1>5

-----------------------------------------------------------------------------
(* A deposit through the router, in the pool that is found or created.     *)
LEMMA DepositTarget ==
  ASSUME NEW B \in Balances, Sound(pools, B), Paired(pools, getPair),
         NEW a \in Tokens, NEW b \in Tokens, NEW desired, desired[a] \in Nat, desired[b] \in Nat,
         NEW min, NEW to, AddToPool(a, b, desired, min, to)
  PROVE  LET i      == IndexFor(a, b)
             p      == PoolsFor(a, b)[i]
             amount == OptimalAmounts(p, OnSides(p, desired))
         IN  /\ i \in PoolIds /\ i \in Account /\ i # Router /\ i # Weth
             /\ a # b /\ PoolOk(p, i, B)
             /\ amount \in [Side -> Nat]
             /\ \A s \in Side : /\ p.token[s] \in {a, b}
                                /\ amount[s] = Taken(a, b, desired, p.token[s])
             /\ \A x \in {a, b} : /\ Taken(a, b, desired, x) \in Nat
                                  /\ Taken(a, b, desired, x) <= desired[x]
<1> DEFINE P == PoolsFor(a, b)
           G == PairsFor(a, b)
           i == IndexFor(a, b)
           p == P[i]
           f == OnSides(p, desired)
           amount == OptimalAmounts(p, f)
           sa == SideOf(p, a)
<1>1. /\ getPair[<<a, b>>] = NoPool => MayCreatePair(a, b)
      /\ AcceptsRatio(p, f, OnSides(p, min))
  BY DEF AddToPool
<1>2. Sound(P, B) /\ Paired(P, G) /\ i \in DOMAIN P /\ G[<<a, b>>] = i /\ i # NoPool
  BY <1>1, PoolForPair
<1> HIDE DEF P, G, i
<1>3. /\ a # b /\ sa \in Side /\ p.token[sa] = a /\ p.token[1 - sa] = b
      /\ SideOf(p, b) = 1 - sa
  <2>1. a # b /\ Trades(P[i], a, b)
    BY <1>2, PairLookup
  <2>2. QED
    BY <2>1 DEF Trades
<1>4. /\ i \in PoolIds /\ i \in Account /\ i # Router /\ i # Weth /\ PoolOk(p, i, B)
  BY <1>2, SoundPool
<1>5. p.reserve[0] \in Nat /\ p.reserve[1] \in Nat
  BY <1>4, PoolParts
<1> HIDE DEF p, sa
<1>6. \A s \in Side : s = sa \/ s = 1 - sa
  BY <1>3 DEF Side
<1>7. f \in [Side -> Nat]
  BY <1>3, <1>6 DEF OnSides
<1>8. f[sa] = desired[a] /\ f[1 - sa] = desired[b] /\ 1 - sa \in Side
  BY <1>3 DEF OnSides, Side
<1>9. amount \in [Side -> Nat] /\ \A s \in Side : amount[s] <= f[s]
  <2>1. CASE IsEmpty(p)
    BY <1>7, <2>1 DEF OptimalAmounts
  <2>2. CASE ~IsEmpty(p)
    <3>1. HasLiquidity(p)
      BY <1>1, <2>2 DEF AcceptsRatio, p, f
    <3>2. p.reserve[0] \in Nat \ {0} /\ p.reserve[1] \in Nat \ {0}
      BY <1>5, <3>1 DEF HasLiquidity, Side
    <3>3. amount \in [Side -> Nat] /\ KeepsRatio(p, f, amount)
      BY <1>7, <3>2, OptimalKeepsRatio
    <3>4. QED
      BY <3>3 DEF KeepsRatio
  <2>3. QED
    BY <2>1, <2>2
<1>10. \A x : Taken(a, b, desired, x) = amount[SideOf(p, x)]
  BY DEF Taken, P, i, p
<1> HIDE DEF amount, f
<1>11. /\ Taken(a, b, desired, a) = amount[sa] /\ Taken(a, b, desired, b) = amount[1 - sa]
  BY <1>3, <1>10 DEF sa
<1>12. \A s \in Side : p.token[s] \in {a, b} /\ amount[s] = Taken(a, b, desired, p.token[s])
  BY <1>3, <1>6, <1>11
<1>13. \A x \in {a, b} : /\ Taken(a, b, desired, x) \in Nat
                         /\ Taken(a, b, desired, x) <= desired[x]
  BY <1>3, <1>8, <1>9, <1>11
<1>14. QED
  BY <1>3, <1>4, <1>9, <1>12, <1>13 DEF P, i, p, f, amount

LEMMA DepositKeepsPools ==
  ASSUME SupplyFits, NEW B \in Balances, Sound(pools, B), Paired(pools, getPair),
         NEW a \in Tokens, NEW b \in Tokens, NEW desired, desired[a] \in Nat, desired[b] \in Nat,
         NEW min, NEW to \in Users, AddToPool(a, b, desired, min, to),
         NEW C, Funded(C),
         \A x \in {a, b} :
           C[x][IndexFor(a, b)] = B[x][IndexFor(a, b)] + Taken(a, b, desired, x),
         \A x \in Tokens, j \in PoolIds \ {IndexFor(a, b)} : C[x][j] >= B[x][j]
  PROVE  Sound(pools', C) /\ Paired(pools', getPair')
<1> DEFINE P == PoolsFor(a, b)
           G == PairsFor(a, b)
           i == IndexFor(a, b)
           p == P[i]
           amount == OptimalAmounts(p, OnSides(p, desired))
           q == Deposited(p, to, amount)
<1>1. /\ getPair[<<a, b>>] = NoPool => MayCreatePair(a, b)
      /\ AcceptsDeposit(p, amount)
      /\ pools' = [P EXCEPT ![i] = q]
      /\ getPair' = G
  BY DEF AddToPool, PairsFor
<1>2. Sound(P, B) /\ Paired(P, G) /\ i \in DOMAIN P
  BY <1>1, PoolForPair
<1>3. /\ i \in PoolIds /\ i \in Account /\ PoolOk(p, i, B)
      /\ amount \in [Side -> Nat]
      /\ \A s \in Side : /\ p.token[s] \in {a, b}
                         /\ amount[s] = Taken(a, b, desired, p.token[s])
  BY DepositTarget
<1>4. C \in Balances
  BY DEF Funded
<1> HIDE DEF P, G, amount
<1>5. \A s \in Side : /\ C[p.token[s]][i] = B[p.token[s]][i] + amount[s]
                      /\ C[p.token[s]][i] <= MaxUint128
  BY <1>3, BalancesFit
<1> HIDE DEF p, i
<1>6. PoolOk(q, i, C) /\ q.token = p.token
  BY <1>1, <1>3, <1>4, <1>5, DepositedOk
<1> HIDE DEF q
<1>7. \A x \in Tokens, j \in PoolIds \ {i} : C[x][j] >= B[x][j]
  BY DEF i
<1>8. Sound([P EXCEPT ![i] = q], C)
  BY <1>2, <1>4, <1>6, <1>7, SoundWithOneChanged
<1>9. Paired([P EXCEPT ![i] = q], G)
  <2>1. P \in Seq(PoolRecord)
    BY <1>2 DEF Sound
  <2> DEFINE Q == [P EXCEPT ![i] = q]
  <2>2. DOMAIN Q = DOMAIN P /\ \A j \in DOMAIN P : Q[j].token = P[j].token
    BY <1>2, <1>6, <2>1 DEF p
  <2> HIDE DEF Q
  <2>3. Paired(Q, G)
    BY <1>2, <2>2, PairedStays
  <2>4. QED
    BY <2>3 DEF Q
<1>10. QED
  BY <1>1, <1>8, <1>9

-----------------------------------------------------------------------------
(* The inductive invariant.                                                *)
IInv ==
  /\ Sound(pools, balance) /\ Paired(pools, getPair) /\ Funded(balance)
  /\ strays \in [Assets -> Nat] /\ repeated \in BOOLEAN
  /\ RouterKeepsNothing

LEMMA InvariantAtFirst == Init => IInv
<1> SUFFICES ASSUME Init PROVE IInv
  OBVIOUS
<1>1. Funded(balance)
  BY FundedAtFirst
<1>2. pools = <<>> /\ DOMAIN pools = {} /\ Len(pools) = 0 /\ pools \in Seq(PoolRecord)
  BY DEF Init
<1>3. Sound(pools, balance)
  BY <1>2, RouterAssumption DEF Sound
<1>4. Paired(pools, getPair)
  BY <1>2 DEF Paired, Init
<1>5. strays \in [Assets -> Nat] /\ repeated \in BOOLEAN
  BY DEF Init
<1>6. RouterKeepsNothing
  BY AccountsDiffer DEF Init, RouterKeepsNothing
<1>7. QED
  BY <1>1, <1>3, <1>4, <1>5, <1>6 DEF IInv

LEMMA FundedIsTyped ==
  ASSUME NEW B, Funded(B)
  PROVE  B \in Balances /\ \A x \in Assets, a \in Account : B[x][a] \in Nat
BY DEF Funded, Balances

LEMMA CreatePairKeeps ==
  ASSUME IInv, NEW a \in Tokens, NEW b \in Tokens, CreatePair(a, b)
  PROVE  IInv'
<1>1. /\ MayCreatePair(a, b) /\ pools' = Append(pools, NewPool(a, b))
      /\ getPair' = PairsWith(a, b) /\ UNCHANGED <<balance, strays, repeated>>
  BY DEF CreatePair
<1>2. balance \in Balances
  BY FundedIsTyped DEF IInv
<1>3. Sound(pools', balance) /\ Paired(pools', getPair')
  BY <1>1, <1>2, PairCreated DEF IInv
<1>4. QED
  BY <1>1, <1>3 DEF IInv, RouterKeepsNothing

(* Assets come and go without touching a pool.                             *)
LEMMA PoolsUntouched ==
  ASSUME IInv, UNCHANGED <<pools, getPair>>, Funded(balance'),
         \A x \in Tokens, i \in PoolIds : balance'[x][i] = balance[x][i]
  PROVE  Sound(pools', balance') /\ Paired(pools', getPair')
<1>1. balance \in Balances /\ balance' \in Balances
  BY FundedIsTyped DEF IInv
<1>2. \A x \in Tokens, i \in PoolIds : balance'[x][i] >= balance[x][i]
  <2>1. \A x \in Tokens, i \in PoolIds : balance[x][i] \in Nat
    BY <1>1, AccountsDiffer DEF Balances
  <2>2. QED
    BY <2>1
<1>3. Sound(pools, balance') /\ Paired(pools, getPair)
  BY <1>1, <1>2, SoundWithMore DEF IInv
<1>4. QED
  BY <1>3

LEMMA SendToRouterKeeps ==
  ASSUME IInv, NEW u \in Users, NEW x \in Assets, NEW n \in Nat, SendToRouter(u, x, n)
  PROVE  IInv'
<1>1. /\ n <= balance[x][u] /\ balance' = Move(balance, x, u, Router, n)
      /\ strays' = Credit(strays, x, n) /\ UNCHANGED <<pools, getPair, repeated>>
  BY DEF SendToRouter, Has, Covers
<1>2. /\ u \in Account /\ Router \in Account /\ u # Router /\ u # Weth /\ Router # Weth
      /\ u \notin PoolIds
  BY AccountsDiffer
<1>3. /\ Funded(balance')
      /\ \A y \in Assets, c \in Account :
           /\ balance[y][c] \in Nat /\ balance'[y][c] \in Nat
           /\ balance'[y][c] = IF y # x THEN balance[y][c]
                               ELSE IF c = u THEN balance[y][c] - n
                               ELSE IF c = Router THEN balance[y][c] + n
                               ELSE balance[y][c]
  BY <1>1, <1>2, MoveEntries DEF IInv
<1>4. \A y \in Tokens, i \in PoolIds : balance'[y][i] = balance[y][i]
  BY <1>2, <1>3, AccountsDiffer
<1>5. Sound(pools', balance') /\ Paired(pools', getPair')
  BY <1>1, <1>3, <1>4, PoolsUntouched
<1>6. strays' \in [Assets -> Nat] /\ \A y \in Assets : strays'[y] = IF y = x THEN strays[y] + n ELSE strays[y]
  BY <1>1 DEF IInv, Credit
<1>7. RouterKeepsNothing'
  BY <1>1, <1>2, <1>3, <1>6 DEF IInv, RouterKeepsNothing
<1>8. repeated' \in BOOLEAN
  BY <1>1 DEF IInv
<1>9. QED
  BY <1>3, <1>5, <1>6, <1>7, <1>8 DEF IInv

LEMMA WethKeeps ==
  ASSUME IInv, NEW u \in Users, NEW n \in Nat, Deposit(u, n) \/ Withdraw(u, n)
  PROVE  IInv'
<1>1. UNCHANGED <<pools, getPair, strays, repeated>>
  BY DEF Deposit, Withdraw
<1>2. u \in Account /\ u # Router /\ u # Weth /\ u \notin PoolIds /\ Router \in Account /\ Router # Weth
  BY AccountsDiffer
<1>3. /\ Funded(balance')
      /\ \A y \in Assets, c \in Account \ {Weth, u} : balance'[y][c] = balance[y][c]
  <2>1. CASE Deposit(u, n)
    <3>1. n <= balance[Eth][u] /\ balance' = Wrap(balance, u, n)
      BY <2>1 DEF Deposit, Has, Covers
    <3>2. QED
      BY <1>2, <3>1, WrapEntries DEF IInv
  <2>2. CASE Withdraw(u, n)
    <3>1. n <= balance[Weth][u] /\ balance' = Unwrap(balance, u, n)
      BY <2>2 DEF Withdraw, Has, Covers
    <3>2. QED
      BY <1>2, <3>1, UnwrapEntries DEF IInv
  <2>3. QED
    BY <2>1, <2>2
<1>4. \A y \in Tokens, i \in PoolIds : balance'[y][i] = balance[y][i]
  BY <1>2, <1>3, AccountsDiffer
<1>5. Sound(pools', balance') /\ Paired(pools', getPair')
  BY <1>1, <1>3, <1>4, PoolsUntouched
<1>6. RouterKeepsNothing'
  BY <1>1, <1>2, <1>3 DEF IInv, RouterKeepsNothing
<1>7. strays' \in [Assets -> Nat] /\ repeated' \in BOOLEAN
  BY <1>1 DEF IInv
<1>8. QED
  BY <1>3, <1>5, <1>6, <1>7 DEF IInv

LEMMA SendLpKeeps ==
  ASSUME IInv, NEW u \in Users, NEW i \in PoolIds, NEW n \in Nat, SendLpToRouter(u, i, n)
  PROVE  IInv'
<1> DEFINE p == pools[i]
           M == Transfer(p.lp, u, Router, n)
           q == [p EXCEPT !.lp = M]
<1>1. /\ i \in DOMAIN pools /\ n > 0 /\ Covers(p.lp, u, n)
      /\ pools' = [pools EXCEPT ![i].lp = Transfer(@, u, Router, n)]
      /\ UNCHANGED <<getPair, balance, strays, repeated>>
  BY DEF SendLpToRouter
<1>2. balance \in Balances /\ Sound(pools, balance) /\ Paired(pools, getPair)
  BY FundedIsTyped DEF IInv
<1>3. PoolOk(p, i, balance)
  BY <1>1, <1>2, SoundPool
<1>4. /\ p.lp \in [LpHolder -> Nat] /\ p.totalSupply = SumFunctionOnSet(p.lp, LpHolder)
      /\ Lives(p)
  BY <1>2, <1>3, PoolParts
<1>5. pools' = [pools EXCEPT ![i] = q]
  BY <1>1
<1> HIDE DEF p
<1>6. /\ M \in [LpHolder -> Nat]
      /\ SumFunctionOnSet(M, LpHolder) = SumFunctionOnSet(p.lp, LpHolder)
  <2>1. IsFiniteSet(LpHolder) /\ u \in LpHolder /\ Router \in LpHolder
    BY AccountsDiffer
  <2>2. QED
    BY <1>1, <1>4, <2>1, SumTransfer
<1>7. M[Dead] = p.lp[Dead]
  BY <1>4, AccountsDiffer DEF Transfer, Credit, Debit
<1> HIDE DEF M
<1>8. /\ q \in PoolRecord /\ q.address = p.address /\ q.token = p.token /\ q.reserve = p.reserve
      /\ q.lp = M /\ q.totalSupply = p.totalSupply
  BY <1>3, <1>6 DEF PoolOk, PoolRecord
<1> HIDE DEF q
<1>9. Lives(q)
  BY <1>4, <1>7, <1>8 DEF Lives
<1>10. PoolOk(q, i, balance)
  BY <1>3, <1>4, <1>6, <1>8, <1>9 DEF PoolOk
<1>11. \A x \in Tokens, j \in PoolIds \ {i} : balance[x][j] >= balance[x][j]
  <2>1. \A x \in Tokens, j \in PoolIds : balance[x][j] \in Nat
    BY <1>2, AccountsDiffer DEF Balances
  <2>2. QED
    BY <2>1
<1>12. Sound(pools', balance)
  <2>1. Sound([pools EXCEPT ![i] = q], balance)
    BY <1>1, <1>2, <1>10, <1>11, SoundWithOneChanged
  <2>2. QED
    BY <1>5, <2>1
<1>13. Paired(pools', getPair)
  <2>1. DOMAIN pools' = DOMAIN pools /\ \A j \in DOMAIN pools : pools'[j].token = pools[j].token
    BY <1>1, <1>2, <1>5, <1>8 DEF Sound, p
  <2>2. QED
    BY <1>2, <2>1, PairedStays
<1>14. QED
  BY <1>1, <1>12, <1>13 DEF IInv, RouterKeepsNothing

LEMMA AddLiquidityKeeps ==
  ASSUME SupplyFits, IInv, NEW u \in Users, NEW a \in Tokens, NEW b \in Tokens,
         NEW desired, desired[a] \in Nat, desired[b] \in Nat, NEW min, NEW to \in Users,
         AddLiquidity(u, a, b, desired, min, to)
  PROVE  IInv'
<1> DEFINE i  == IndexFor(a, b)
           tA == Taken(a, b, desired, a)
           tB == Taken(a, b, desired, b)
           B1 == Move(balance, a, u, Router, tA)
           B2 == Move(B1, b, u, Router, tB)
           B3 == Move(B2, a, Router, i, tA)
           B4 == Move(B3, b, Router, i, tB)
<1>1. /\ AddToPool(a, b, desired, min, to)
      /\ tA <= balance[a][u] /\ tB <= balance[b][u]
      /\ balance' = B4
      /\ UNCHANGED <<strays, repeated>>
  BY DEF AddLiquidity, Has, Covers
<1>2. Funded(balance) /\ balance \in Balances /\ Sound(pools, balance) /\ Paired(pools, getPair)
  BY FundedIsTyped DEF IInv
<1>3. /\ i \in PoolIds /\ i \in Account /\ i # Router /\ i # Weth /\ a # b
      /\ tA \in Nat /\ tB \in Nat
  BY <1>1, <1>2, DepositTarget
<1>4. /\ u \in Account /\ Router \in Account /\ u # Router /\ u # i
      /\ a \in Assets /\ b \in Assets /\ a # Eth /\ b # Eth
      /\ Tokens \subseteq Assets /\ PoolIds \subseteq Account
      /\ \A j \in PoolIds : j # u /\ j # Router
  BY <1>3, AccountsDiffer
<1> HIDE DEF i, tA, tB, B1, B2, B3, B4
<1>5. /\ Funded(B1)
      /\ \A y \in Assets, c \in Account :
           /\ balance[y][c] \in Nat /\ B1[y][c] \in Nat
           /\ B1[y][c] = IF y # a THEN balance[y][c]
                         ELSE IF c = u THEN balance[y][c] - tA
                         ELSE IF c = Router THEN balance[y][c] + tA
                         ELSE balance[y][c]
  BY <1>1, <1>2, <1>3, <1>4, MoveEntries DEF B1
<1>6. tB <= B1[b][u]
  BY <1>1, <1>3, <1>4, <1>5
<1>7. /\ Funded(B2)
      /\ \A y \in Assets, c \in Account :
           /\ B1[y][c] \in Nat /\ B2[y][c] \in Nat
           /\ B2[y][c] = IF y # b THEN B1[y][c]
                         ELSE IF c = u THEN B1[y][c] - tB
                         ELSE IF c = Router THEN B1[y][c] + tB
                         ELSE B1[y][c]
  BY <1>3, <1>4, <1>5, <1>6, MoveEntries DEF B2
<1>8. tA <= B2[a][Router]
  BY <1>3, <1>4, <1>5, <1>7
<1>9. /\ Funded(B3)
      /\ \A y \in Assets, c \in Account :
           /\ B2[y][c] \in Nat /\ B3[y][c] \in Nat
           /\ B3[y][c] = IF y # a THEN B2[y][c]
                         ELSE IF c = Router THEN B2[y][c] - tA
                         ELSE IF c = i THEN B2[y][c] + tA
                         ELSE B2[y][c]
  BY <1>3, <1>4, <1>7, <1>8, MoveEntries DEF B3
<1>10. tB <= B3[b][Router]
  BY <1>3, <1>4, <1>5, <1>7, <1>9
<1>11. /\ Funded(B4)
       /\ \A y \in Assets, c \in Account :
            /\ B3[y][c] \in Nat /\ B4[y][c] \in Nat
            /\ B4[y][c] = IF y # b THEN B3[y][c]
                          ELSE IF c = Router THEN B3[y][c] - tB
                          ELSE IF c = i THEN B3[y][c] + tB
                          ELSE B3[y][c]
  BY <1>3, <1>4, <1>9, <1>10, MoveEntries DEF B4
<1>12. \A y \in Assets : B4[y][Router] = balance[y][Router]
  BY <1>3, <1>4, <1>5, <1>7, <1>9, <1>11
<1>13. B4[a][i] = balance[a][i] + tA /\ B4[b][i] = balance[b][i] + tB
  BY <1>3, <1>4, <1>5, <1>7, <1>9, <1>11
<1>14. \A x \in Tokens, j \in PoolIds \ {i} : B4[x][j] >= balance[x][j]
  BY <1>3, <1>4, <1>5, <1>7, <1>9, <1>11
<1>15. Sound(pools', B4) /\ Paired(pools', getPair')
  BY <1>1, <1>2, <1>11, <1>13, <1>14, DepositKeepsPools DEF i, tA, tB
<1>16. RouterKeepsNothing'
  BY <1>1, <1>12 DEF IInv, RouterKeepsNothing
<1>17. QED
  BY <1>1, <1>11, <1>15, <1>16 DEF IInv

LEMMA AddLiquidityETHKeeps ==
  ASSUME SupplyFits, IInv, NEW u \in Users, NEW token \in Tokens,
         NEW value \in Nat, NEW desired \in Nat, NEW min, NEW to \in Users,
         AddLiquidityETH(u, token, value, desired, min, to)
  PROVE  IInv'
<1> DEFINE both == [x \in {token, Weth} |-> IF x = Weth THEN value ELSE desired]
           i  == IndexFor(token, Weth)
           tT == Taken(token, Weth, both, token)
           tW == Taken(token, Weth, both, Weth)
           B1 == Move(balance, Eth, u, Router, value)
           B2 == Wrap(B1, Router, tW)
           B3 == Move(B2, token, u, Router, tT)
           B4 == Move(B3, token, Router, i, tT)
           B5 == Move(B4, Weth, Router, i, tW)
           B6 == Move(B5, Eth, Router, u, value - tW)
<1>1. /\ token # Weth /\ value > 0
      /\ value <= balance[Eth][u] /\ tT <= balance[token][u]
      /\ AddToPool(token, Weth, both, min, to)
      /\ balance' = B6
      /\ UNCHANGED <<strays, repeated>>
  BY DEF AddLiquidityETH, Has, Covers
<1>2. Funded(balance) /\ balance \in Balances /\ Sound(pools, balance) /\ Paired(pools, getPair)
  BY FundedIsTyped DEF IInv
<1>3. both[token] = desired /\ both[Weth] = value
  BY <1>1
<1> HIDE DEF both
<1>4. /\ i \in PoolIds /\ i \in Account /\ i # Router /\ i # Weth
      /\ tT \in Nat /\ tW \in Nat /\ tW <= value
  BY <1>1, <1>2, <1>3, AccountsDiffer, DepositTarget
<1>5. /\ u \in Account /\ Router \in Account /\ Weth \in Account
      /\ u # Router /\ u # i /\ u # Weth /\ Router # Weth
      /\ token \in Assets /\ Weth \in Assets /\ Eth \in Assets /\ token # Eth /\ Weth # Eth
      /\ Weth \in Tokens /\ Tokens \subseteq Assets /\ PoolIds \subseteq Account
      /\ \A j \in PoolIds : j # u /\ j # Router /\ j # Weth
      /\ \A x \in Tokens : x # Eth
  BY <1>4, AccountsDiffer
<1> HIDE DEF i, tT, tW, B1, B2, B3, B4, B5, B6
<1>6. /\ Funded(B1)
      /\ \A y \in Assets, c \in Account :
           /\ balance[y][c] \in Nat /\ B1[y][c] \in Nat
           /\ B1[y][c] = IF y # Eth THEN balance[y][c]
                         ELSE IF c = u THEN balance[y][c] - value
                         ELSE IF c = Router THEN balance[y][c] + value
                         ELSE balance[y][c]
  BY <1>1, <1>2, <1>5, MoveEntries DEF B1
<1>7. tW <= B1[Eth][Router]
  BY <1>4, <1>5, <1>6
<1>8. /\ Funded(B2)
      /\ \A y \in Assets, c \in Account \ {Weth} :
           /\ B1[y][c] \in Nat /\ B2[y][c] \in Nat
           /\ B2[y][c] = IF c # Router \/ y \notin {Eth, Weth} THEN B1[y][c]
                         ELSE IF y = Eth THEN B1[y][c] - tW
                         ELSE B1[y][c] + tW
  BY <1>4, <1>5, <1>6, <1>7, WrapEntries DEF B2
<1>9. tT <= B2[token][u]
  BY <1>1, <1>4, <1>5, <1>6, <1>8
<1>10. /\ Funded(B3)
       /\ \A y \in Assets, c \in Account :
            /\ B2[y][c] \in Nat /\ B3[y][c] \in Nat
            /\ B3[y][c] = IF y # token THEN B2[y][c]
                          ELSE IF c = u THEN B2[y][c] - tT
                          ELSE IF c = Router THEN B2[y][c] + tT
                          ELSE B2[y][c]
  BY <1>4, <1>5, <1>8, <1>9, MoveEntries DEF B3
<1>11. tT <= B3[token][Router]
  BY <1>4, <1>5, <1>8, <1>10
<1>12. /\ Funded(B4)
       /\ \A y \in Assets, c \in Account :
            /\ B3[y][c] \in Nat /\ B4[y][c] \in Nat
            /\ B4[y][c] = IF y # token THEN B3[y][c]
                          ELSE IF c = Router THEN B3[y][c] - tT
                          ELSE IF c = i THEN B3[y][c] + tT
                          ELSE B3[y][c]
  BY <1>4, <1>5, <1>10, <1>11, MoveEntries DEF B4
<1>13. tW <= B4[Weth][Router]
  BY <1>1, <1>4, <1>5, <1>6, <1>8, <1>10, <1>12
<1>14. /\ Funded(B5)
       /\ \A y \in Assets, c \in Account :
            /\ B4[y][c] \in Nat /\ B5[y][c] \in Nat
            /\ B5[y][c] = IF y # Weth THEN B4[y][c]
                          ELSE IF c = Router THEN B4[y][c] - tW
                          ELSE IF c = i THEN B4[y][c] + tW
                          ELSE B4[y][c]
  BY <1>4, <1>5, <1>12, <1>13, MoveEntries DEF B5
<1>15. value - tW \in Nat /\ value - tW <= B5[Eth][Router]
  BY <1>1, <1>4, <1>5, <1>6, <1>8, <1>10, <1>12, <1>14
<1>16. /\ Funded(B6)
       /\ \A y \in Assets, c \in Account :
            /\ B5[y][c] \in Nat /\ B6[y][c] \in Nat
            /\ B6[y][c] = IF y # Eth THEN B5[y][c]
                          ELSE IF c = Router THEN B5[y][c] - (value - tW)
                          ELSE IF c = u THEN B5[y][c] + (value - tW)
                          ELSE B5[y][c]
  BY <1>5, <1>14, <1>15, MoveEntries DEF B6
<1>17. \A y \in Assets : B6[y][Router] = balance[y][Router]
  <2>1. B6[Eth][Router] = balance[Eth][Router]
    BY <1>4, <1>5, <1>6, <1>8, <1>10, <1>12, <1>14, <1>16
  <2>2. B6[Weth][Router] = balance[Weth][Router]
    BY <1>1, <1>4, <1>5, <1>6, <1>8, <1>10, <1>12, <1>14, <1>16
  <2>3. B6[token][Router] = balance[token][Router]
    BY <1>1, <1>4, <1>5, <1>6, <1>8, <1>10, <1>12, <1>14, <1>16
  <2>4. \A y \in Assets \ {Eth, Weth, token} : B6[y][Router] = balance[y][Router]
    BY <1>5, <1>6, <1>8, <1>10, <1>12, <1>14, <1>16
  <2>5. QED
    BY <2>1, <2>2, <2>3, <2>4
<1>18. /\ B6[token][i] = balance[token][i] + tT
       /\ B6[Weth][i] = balance[Weth][i] + tW
  BY <1>1, <1>4, <1>5, <1>6, <1>8, <1>10, <1>12, <1>14, <1>16
<1>19. \A x \in Tokens, j \in PoolIds \ {i} : B6[x][j] >= balance[x][j]
  BY <1>4, <1>5, <1>6, <1>8, <1>10, <1>12, <1>14, <1>16
<1>20. Sound(pools', B6) /\ Paired(pools', getPair')
  BY <1>1, <1>2, <1>3, <1>5, <1>16, <1>18, <1>19, DepositKeepsPools DEF i, tT, tW
<1>21. RouterKeepsNothing'
  BY <1>1, <1>17 DEF IInv, RouterKeepsNothing
<1>22. QED
  BY <1>1, <1>16, <1>20, <1>21 DEF IInv

(* A withdrawal by a, a user or the router, from the pool at i.            *)
LEMMA WithdrawalIs ==
  ASSUME SupplyFits, IInv, NEW i \in DOMAIN pools, NEW a \in Holder, NEW n \in Nat,
         NEW min, AcceptsRemoval(i, a, n, min)
  PROVE  LET C == PaidOut(i, a, n)
             Q == [pools EXCEPT ![i] = Removed(pools[i], a, n)]
         IN  /\ Funded(C) /\ Sound(Q, C) /\ Paired(Q, getPair)
             /\ \A y \in Assets, c \in Account \ {i} :
                  c # a \/ y \notin {pools[i].token[0], pools[i].token[1]}
                    => C[y][c] = balance[y][c]
<1> DEFINE p  == pools[i]
           t0 == p.token[0]
           t1 == p.token[1]
           R0 == Pool(p)!Redeemed(n)[0]
           R1 == Pool(p)!Redeemed(n)[1]
           B1 == Move(balance, t0, i, a, R0)
           C  == Move(B1, t1, i, a, R1)
           q  == Removed(p, a, n)
           Q  == [pools EXCEPT ![i] = q]
<1>1. /\ n > 0 /\ Covers(p.lp, a, n)
      /\ PaidOut(i, a, n) = C
      /\ 0 \in Side /\ 1 \in Side
      /\ R0 <= balance[t0][i] /\ R1 <= balance[t1][i]
  BY DEF AcceptsRemoval, PaidOut, Has, Covers, Side
<1>2. Funded(balance) /\ balance \in Balances /\ Sound(pools, balance) /\ Paired(pools, getPair)
  BY FundedIsTyped DEF IInv
<1>3. /\ i \in PoolIds /\ i \in Account /\ PoolOk(p, i, balance)
      /\ t0 \in Tokens /\ t1 \in Tokens /\ t0 # t1
  BY <1>2, SoundPool
<1>4. n \in Nat \ {0}
  BY <1>1
<1> HIDE DEF p
<1>5. R0 \in Nat /\ R1 \in Nat
  BY <1>1, <1>2, <1>3, <1>4, RedeemedFits
<1>6. /\ a \in Account /\ a # i /\ t0 \in Assets /\ t1 \in Assets /\ t0 # Eth /\ t1 # Eth
      /\ Tokens \subseteq Assets /\ PoolIds \subseteq Account
      /\ \A j \in PoolIds : j # a
  BY <1>3, AccountsDiffer, RouterAssumption DEF Account
<1> HIDE DEF t0, t1, R0, R1, B1, C
<1>7. /\ Funded(B1)
      /\ \A y \in Assets, c \in Account :
           /\ balance[y][c] \in Nat /\ B1[y][c] \in Nat
           /\ B1[y][c] = IF y # t0 THEN balance[y][c]
                         ELSE IF c = i THEN balance[y][c] - R0
                         ELSE IF c = a THEN balance[y][c] + R0
                         ELSE balance[y][c]
  BY <1>1, <1>2, <1>3, <1>5, <1>6, MoveEntries DEF B1
<1>8. R1 <= B1[t1][i]
  BY <1>1, <1>3, <1>6, <1>7
<1>9. /\ Funded(C)
      /\ \A y \in Assets, c \in Account :
           /\ B1[y][c] \in Nat /\ C[y][c] \in Nat
           /\ C[y][c] = IF y # t1 THEN B1[y][c]
                        ELSE IF c = i THEN B1[y][c] - R1
                        ELSE IF c = a THEN B1[y][c] + R1
                        ELSE B1[y][c]
  BY <1>3, <1>5, <1>6, <1>7, <1>8, MoveEntries DEF C
<1>10. C[t0][i] = balance[t0][i] - R0 /\ C[t1][i] = balance[t1][i] - R1
  BY <1>3, <1>6, <1>7, <1>9
<1>11. balance[t0][i] <= MaxUint128 /\ balance[t1][i] <= MaxUint128
  BY <1>2, <1>3, BalancesFit
<1>12. PoolOk(q, i, C) /\ q.token = p.token
  <2>1. C \in Balances
    BY <1>9, FundedIsTyped
  <2>2. \A s \in Side : /\ C[p.token[s]][i] = balance[p.token[s]][i] - Pool(p)!Redeemed(n)[s]
                        /\ balance[p.token[s]][i] <= MaxUint128
    BY <1>10, <1>11 DEF Side, t0, t1, R0, R1
  <2>3. QED
    BY <1>1, <1>2, <1>3, <1>4, <2>1, <2>2, RemovedOk
<1> HIDE DEF q
<1>13. Sound(Q, C)
  <2>1. \A x \in Tokens, j \in PoolIds \ {i} : C[x][j] >= balance[x][j]
    BY <1>6, <1>7, <1>9
  <2>2. C \in Balances
    BY <1>9, FundedIsTyped
  <2>3. QED
    BY <1>2, <1>12, <2>1, <2>2, SoundWithOneChanged
<1>14. Paired(Q, getPair)
  <2>1. pools \in Seq(PoolRecord)
    BY <1>2 DEF Sound
  <2>2. DOMAIN Q = DOMAIN pools /\ \A j \in DOMAIN pools : Q[j].token = pools[j].token
    BY <1>12, <2>1 DEF p
  <2> HIDE DEF Q
  <2>3. QED
    BY <1>2, <2>2, PairedStays
<1>15. \A y \in Assets, c \in Account \ {i} :
         c # a \/ y \notin {t0, t1} => C[y][c] = balance[y][c]
  BY <1>7, <1>9
<1>16. QED
  BY <1>1, <1>9, <1>13, <1>14, <1>15 DEF p, t0, t1, q, Q

LEMMA RemoveLiquidityKeeps ==
  ASSUME SupplyFits, IInv, NEW u \in Users, NEW i \in PoolIds, NEW n \in Nat, NEW min,
         RemoveLiquidity(u, i, n, min)
  PROVE  IInv'
<1>1. /\ i \in DOMAIN pools /\ AcceptsRemoval(i, u, n, OnSides(pools[i], min))
      /\ pools' = [pools EXCEPT ![i] = Removed(pools[i], u, n)]
      /\ balance' = PaidOut(i, u, n)
      /\ UNCHANGED <<getPair, strays, repeated>>
  BY DEF RemoveLiquidity
<1>2. u \in Holder /\ Router \in Account /\ Router # u /\ i # Router
  BY AccountsDiffer
<1>3. /\ Funded(balance') /\ Sound(pools', balance') /\ Paired(pools', getPair')
      /\ \A y \in Assets : balance'[y][Router] = balance[y][Router]
  BY <1>1, <1>2, WithdrawalIs
<1>4. RouterKeepsNothing'
  BY <1>1, <1>3 DEF IInv, RouterKeepsNothing
<1>5. QED
  BY <1>1, <1>3, <1>4 DEF IInv

LEMMA RemoveLiquidityETHKeeps ==
  ASSUME SupplyFits, IInv, NEW token \in Tokens, NEW n \in Nat, NEW min, NEW to \in Users,
         RemoveLiquidityETH(token, n, min, to)
  PROVE  IInv'
<1> DEFINE i  == getPair[<<token, Weth>>]
           Q  == [pools EXCEPT ![i] = Removed(pools[i], Router, n)]
           B1 == PaidOut(i, Router, n)
           B2 == Move(B1, token, Router, to, B1[token][Router])
           w  == B1[Weth][Router]
           B3 == Unwrap(B2, Router, w)
           B4 == Move(B3, Eth, Router, to, w)
<1>1. /\ i # NoPool
      /\ AcceptsRemoval(i, Router, n, OnSides(pools[i], min))
      /\ pools' = Q
      /\ balance' = B4
      /\ strays' = [strays EXCEPT ![token] = 0, ![Weth] = 0]
      /\ UNCHANGED <<getPair, repeated>>
  BY DEF RemoveLiquidityETH
<1>2. Funded(balance) /\ balance \in Balances /\ Sound(pools, balance) /\ Paired(pools, getPair)
  BY FundedIsTyped DEF IInv
<1>3. i \in DOMAIN pools /\ token # Weth /\ Trades(pools[i], token, Weth)
  BY <1>1, <1>2, AccountsDiffer, PairLookup
<1>4. i \in PoolIds /\ i # Router /\ Router \in Holder
  BY <1>2, <1>3, SoundPool, AccountsDiffer
<1>5. pools[i].token[0] \in {token, Weth} /\ pools[i].token[1] \in {token, Weth}
  BY <1>3 DEF Trades, Side
<1>6. /\ Funded(B1) /\ Sound(Q, B1) /\ Paired(Q, getPair)
      /\ \A y \in Assets, c \in Account \ {i} :
           c # Router \/ y \notin {token, Weth} => B1[y][c] = balance[y][c]
  <2> HIDE DEF i
  <2>1. /\ Funded(B1) /\ Sound(Q, B1) /\ Paired(Q, getPair)
        /\ \A y \in Assets, c \in Account \ {i} :
             c # Router \/ y \notin {pools[i].token[0], pools[i].token[1]}
               => B1[y][c] = balance[y][c]
    BY <1>1, <1>3, <1>4, WithdrawalIs
  <2>2. QED
    BY <1>5, <2>1
<1>7. /\ to \in Account /\ Router \in Account /\ to # Router /\ to # Weth /\ Router # Weth
      /\ token \in Assets /\ Weth \in Assets /\ Eth \in Assets /\ token # Eth /\ Weth # Eth
      /\ Tokens \subseteq Assets /\ PoolIds \subseteq Account
      /\ \A j \in PoolIds : j # to /\ j # Router /\ j # Weth
      /\ \A x \in Tokens : x # Eth
  BY AccountsDiffer
<1> HIDE DEF i, Q, B1, B2, w, B3, B4
<1> DEFINE m == B1[token][Router]
<1>8. w \in Nat /\ m \in Nat
  BY <1>6, <1>7, FundedIsTyped DEF w
<1>9. /\ Funded(B2)
      /\ \A y \in Assets, c \in Account :
           /\ B1[y][c] \in Nat /\ B2[y][c] \in Nat
           /\ B2[y][c] = IF y # token THEN B1[y][c]
                         ELSE IF c = Router THEN B1[y][c] - m
                         ELSE IF c = to THEN B1[y][c] + m
                         ELSE B1[y][c]
  BY <1>6, <1>7, <1>8, MoveEntries DEF B2
<1>10. w <= B2[Weth][Router]
  BY <1>3, <1>7, <1>8, <1>9 DEF w
<1>11. /\ Funded(B3)
       /\ \A y \in Assets, c \in Account \ {Weth} :
            /\ B2[y][c] \in Nat /\ B3[y][c] \in Nat
            /\ B3[y][c] = IF c # Router \/ y \notin {Eth, Weth} THEN B2[y][c]
                          ELSE IF y = Weth THEN B2[y][c] - w
                          ELSE B2[y][c] + w
  BY <1>7, <1>8, <1>9, <1>10, UnwrapEntries DEF B3
<1>12. w <= B3[Eth][Router]
  BY <1>7, <1>8, <1>11
<1>13. /\ Funded(B4)
       /\ \A y \in Assets, c \in Account :
            /\ B3[y][c] \in Nat /\ B4[y][c] \in Nat
            /\ B4[y][c] = IF y # Eth THEN B3[y][c]
                          ELSE IF c = Router THEN B3[y][c] - w
                          ELSE IF c = to THEN B3[y][c] + w
                          ELSE B3[y][c]
  BY <1>7, <1>8, <1>11, <1>12, MoveEntries DEF B4
<1>14. Sound(Q, B4)
  <2>1. \A x \in Tokens, j \in PoolIds : B4[x][j] >= B1[x][j]
    BY <1>7, <1>9, <1>11, <1>13
  <2>2. B1 \in Balances /\ B4 \in Balances
    BY <1>6, <1>13, FundedIsTyped
  <2>3. QED
    BY <1>6, <2>1, <2>2, SoundWithMore
<1>15. /\ B4[token][Router] = 0 /\ B4[Weth][Router] = 0
       /\ B4[Eth][Router] = balance[Eth][Router]
       /\ \A y \in Assets \ {token, Weth, Eth} : B4[y][Router] = balance[y][Router]
  <2>1. B4[token][Router] = 0
    BY <1>3, <1>7, <1>8, <1>9, <1>11, <1>13
  <2>2. B4[Weth][Router] = 0
    BY <1>3, <1>7, <1>8, <1>9, <1>11, <1>13 DEF w
  <2>3. B1[Eth][Router] = balance[Eth][Router]
    BY <1>4, <1>6, <1>7
  <2>4. B4[Eth][Router] = B1[Eth][Router]
    BY <1>7, <1>8, <1>9, <1>11, <1>13
  <2>5. \A y \in Assets \ {token, Weth, Eth} : B4[y][Router] = balance[y][Router]
    BY <1>4, <1>6, <1>7, <1>9, <1>11, <1>13
  <2>6. QED
    BY <2>1, <2>2, <2>3, <2>4, <2>5
<1>16. /\ strays' \in [Assets -> Nat] /\ strays'[token] = 0 /\ strays'[Weth] = 0
       /\ \A y \in Assets \ {token, Weth} : strays'[y] = strays[y]
  BY <1>1, <1>3, <1>7 DEF IInv
<1>17. RouterKeepsNothing'
  BY <1>1, <1>7, <1>15, <1>16 DEF IInv, RouterKeepsNothing
<1>18. QED
  BY <1>1, <1>6, <1>13, <1>14, <1>16, <1>17 DEF IInv

-----------------------------------------------------------------------------
(* Induction along a path, with the set of the good positions given.       *)
LEMMA IntervalInduction ==
  ASSUME NEW n \in Nat, NEW Good, 0 \in Good,
         \A k \in 0 .. n - 1 : k \in Good => k + 1 \in Good
  PROVE  \A k \in 0 .. n : k \in Good
<1> DEFINE Bad == (0 .. n) \ Good
<1>1. SUFFICES ASSUME Bad # {} PROVE FALSE
  OBVIOUS
<1>2. PICK m \in Bad : \A k \in Bad : <<k, m>> \notin OpToRel(<, Nat)
  <2>1. Bad \subseteq Nat
    OBVIOUS
  <2> HIDE DEF Bad
  <2>2. QED
    BY <1>1, <2>1, NatLessThanWellFounded, WFMin
<1>3. m \in Nat /\ m <= n /\ m # 0 /\ m \notin Good
  OBVIOUS
<1>4. m - 1 \in 0 .. n - 1 /\ m - 1 \notin Bad
  <2>1. m - 1 \in Nat /\ m - 1 < m
    BY <1>3
  <2>2. <<m - 1, m>> \in OpToRel(<, Nat)
    BY <1>3, <2>1 DEF OpToRel
  <2>3. m - 1 \notin Bad
    <3> HIDE DEF Bad
    <3>1. QED
      BY <1>2, <2>2
  <2>4. QED
    BY <1>3, <2>1, <2>3
<1>5. m - 1 \in Good
  BY <1>3, <1>4
<1>6. (m - 1) + 1 \in Good
  BY <1>4, <1>5
<1>7. QED
  BY <1>3, <1>6

(* getAmountsOut computes the amounts one after the other.                 *)
QuoteOfHop(path, k, x) == Quote(pools[PoolOfHop(path, k)], path[k], x)

LEMMA AmountsRecursion ==
  ASSUME NEW path \in Seq(Tokens), Len(path) >= 1, NEW x
  PROVE  AmountsOut(x, path)
           = [k \in 1 .. Len(path) |->
                IF k = 1 THEN x ELSE QuoteOfHop(path, k - 1, AmountsOut(x, path)[k - 1])]
<1> DEFINE n == Len(path)
           Next1(g, k) == IF k = 1 THEN x ELSE QuoteOfHop(path, k - 1, g[k - 1])
           Solves(g, m) == g = [k \in 1 .. m + 1 |-> Next1(g, k)]
           Good == {m \in 0 .. n - 1 : \E g : Solves(g, m)}
<1>1. n \in Nat /\ n - 1 \in Nat /\ DOMAIN path = 1 .. n
  OBVIOUS
<1>2. 0 \in Good
  <2> DEFINE g == [k \in 1 .. 1 |-> x]
  <2>1. Solves(g, 0)
    OBVIOUS
  <2>2. 0 \in 0 .. n - 1
    BY <1>1
  <2> HIDE DEF g, Solves
  <2>3. QED
    BY <2>1, <2>2
<1>3. ASSUME NEW m \in 0 .. (n - 1) - 1, m \in Good PROVE m + 1 \in Good
  <2>1. PICK g : Solves(g, m)
    BY <1>3
  <2> DEFINE h == [k \in 1 .. (m + 1) + 1 |->
                     IF k = m + 2 THEN QuoteOfHop(path, m + 1, g[m + 1]) ELSE g[k]]
  <2>2. m \in Nat /\ m + 1 \in 0 .. n - 1
    BY <1>1
  <2>3. \A k \in 1 .. m + 1 : g[k] = Next1(g, k) /\ h[k] = g[k]
    BY <2>1, <2>2
  <2>4. ASSUME NEW k \in 1 .. (m + 1) + 1 PROVE h[k] = Next1(h, k)
    <3>1. CASE k = 1
      <4>1. 1 \in 1 .. m + 1 /\ 1 \in 1 .. (m + 1) + 1
        BY <2>2
      <4>2. h[1] = g[1] /\ g[1] = x
        BY <2>3, <4>1
      <4>3. QED
        BY <3>1, <4>2
    <3>2. CASE k # 1 /\ k # m + 2
      <4>1. k \in 1 .. m + 1 /\ k - 1 \in 1 .. m + 1
        BY <2>2, <3>2
      <4>2. QED
        BY <2>3, <3>2, <4>1
    <3>3. CASE k = m + 2
      <4>1. m + 1 \in 1 .. m + 1 /\ k - 1 = m + 1 /\ k # 1
        BY <2>2, <3>3
      <4>2. h[m + 1] = g[m + 1]
        BY <2>3, <4>1
      <4>3. QED
        BY <3>3, <4>1, <4>2
    <3>4. QED
      BY <3>1, <3>2, <3>3
  <2>5. Solves(h, m + 1)
    <3>1. h = [k \in 1 .. (m + 1) + 1 |-> h[k]]
      OBVIOUS
    <3> HIDE DEF h, Next1
    <3>2. QED
      BY <2>4, <3>1
  <2> HIDE DEF Solves, h
  <2>6. QED
    BY <2>2, <2>5
<1>4. \A m \in 0 .. n - 1 : m \in Good
  <2> HIDE DEF Good, n
  <2>1. QED
    BY <1>1, <1>2, <1>3, IntervalInduction
<1>5. \E g : g = [k \in DOMAIN path |-> Next1(g, k)]
  <2>1. n - 1 \in Good /\ (n - 1) + 1 = n
    BY <1>1, <1>4
  <2>2. QED
    BY <1>1, <2>1
<1>6. AmountsOut(x, path)
        = CHOOSE g : g = [k \in DOMAIN path |-> Next1(g, k)]
  BY DEF AmountsOut, QuoteOfHop
<1> HIDE DEF Next1
<1>7. AmountsOut(x, path) = [k \in DOMAIN path |-> Next1(AmountsOut(x, path), k)]
  BY <1>5, <1>6
<1>8. QED
  BY <1>1, <1>7 DEF Next1

(* What is quoted for a path: every amount is positive, fits a reserve and *)
(* is what its hop yields for the one before.                              *)
LEMMA HopPool ==
  ASSUME NEW B \in Balances, Sound(pools, B), Paired(pools, getPair),
         NEW path \in Seq(Tokens), NEW k \in Hops(path), PoolOfHop(path, k) # NoPool
  PROVE  /\ path[k] \in Tokens /\ path[k + 1] \in Tokens /\ path[k] # path[k + 1]
         /\ PoolOfHop(path, k) \in DOMAIN pools
         /\ Trades(pools[PoolOfHop(path, k)], path[k], path[k + 1])
<1>1. path[k] \in Tokens /\ path[k + 1] \in Tokens
  BY DEF Hops
<1> DEFINE a == path[k]
           b == path[k + 1]
<1>2. a \in Tokens /\ b \in Tokens /\ getPair[<<a, b>>] # NoPool
      /\ PoolOfHop(path, k) = getPair[<<a, b>>]
  BY <1>1 DEF PoolOfHop
<1> HIDE DEF a, b
<1>3. /\ getPair[<<a, b>>] \in DOMAIN pools /\ a # b
      /\ Trades(pools[getPair[<<a, b>>]], a, b)
  BY <1>2, PairLookup
<1>4. QED
  BY <1>2, <1>3 DEF a, b

LEMMA QuoteBounds ==
  ASSUME SupplyFits, NEW P, NEW B, Funded(B), Sound(P, B), NEW i \in DOMAIN P,
         HasLiquidity(P[i]), NEW a \in Tokens, NEW b \in Tokens, Trades(P[i], a, b),
         NEW x \in 1 .. MaxUint128
  PROVE  Quote(P[i], a, x) \in Nat /\ Quote(P[i], a, x) <= MaxUint128
<1> DEFINE p == P[i]
           s == SideOf(p, a)
<1>1. B \in Balances
  BY FundedIsTyped
<1>2. i \in PoolIds /\ i \in Account /\ PoolOk(p, i, B)
  BY <1>1, SoundPool
<1>3. s \in Side /\ 1 - s \in Side
  BY DEF Trades, Side
<1>4. /\ p.reserve \in [Side -> Nat]
      /\ p.token[0] \in Tokens /\ p.token[1] \in Tokens
      /\ \A c \in Side : p.reserve[c] <= B[p.token[c]][i] /\ B[p.token[c]][i] \in Nat
  BY <1>1, <1>2, PoolParts
<1>5. \A c \in Side : B[p.token[c]][i] <= MaxUint128
  BY <1>2, <1>4, BalancesFit DEF Side
<1>6. \A c \in Side : p.reserve[c] \in 1 .. MaxUint128
  BY <1>4, <1>5, PoolMathAssumption DEF HasLiquidity
<1> DEFINE r == p.reserve[s]
           t == p.reserve[1 - s]
<1>7. r \in 1 .. MaxUint128 /\ t \in 1 .. MaxUint128 /\ Quote(p, a, x) = AmountOut(r, t, x)
  BY <1>3, <1>6 DEF Quote
<1> HIDE DEF p, s, r, t
<1>8. Quote(p, a, x) \in Nat /\ Quote(p, a, x) < t
  BY <1>7, AmountOutBounds
<1>9. QED
  BY <1>7, <1>8, PoolMathAssumption DEF p

LEMMA AmountsAre ==
  ASSUME SupplyFits, IInv, NEW path \in Seq(Tokens), NEW x \in 1 .. MaxUint128,
         HasQuote(x, path)
  PROVE  LET A == AmountsOut(x, path)
             n == Len(path)
         IN  /\ n \in Nat /\ n >= 2 /\ DOMAIN A = 1 .. n /\ A[1] = x
             /\ Len(A) = n /\ Last(A) = A[n]
             /\ \A k \in 1 .. n : A[k] \in Nat /\ A[k] <= MaxUint128
             /\ \A k \in 1 .. n - 1 :
                  /\ A[k] > 0 /\ A[k + 1] = QuoteOfHop(path, k, A[k])
                  /\ PoolOfHop(path, k) \in DOMAIN pools
                  /\ Trades(pools[PoolOfHop(path, k)], path[k], path[k + 1])
                  /\ path[k] \in Tokens /\ path[k + 1] \in Tokens /\ path[k] # path[k + 1]
<1> DEFINE A == AmountsOut(x, path)
           n == Len(path)
<1>1. n \in Nat /\ n >= 2 /\ Hops(path) = 1 .. n - 1
  BY DEF HasQuote, Hops
<1>2. A = [k \in 1 .. n |-> IF k = 1 THEN x ELSE QuoteOfHop(path, k - 1, A[k - 1])]
  BY <1>1, AmountsRecursion
<1>3. \A k \in 1 .. n - 1 : /\ PoolOfHop(path, k) # NoPool
                            /\ HasLiquidity(pools[PoolOfHop(path, k)]) /\ A[k] > 0
  BY <1>1 DEF HasQuote
<1>4. Funded(balance) /\ balance \in Balances /\ Sound(pools, balance) /\ Paired(pools, getPair)
  BY FundedIsTyped DEF IInv
<1>5. \A k \in 1 .. n - 1 :
        /\ path[k] \in Tokens /\ path[k + 1] \in Tokens /\ path[k] # path[k + 1]
        /\ PoolOfHop(path, k) \in DOMAIN pools
        /\ Trades(pools[PoolOfHop(path, k)], path[k], path[k + 1])
  BY <1>1, <1>3, <1>4, HopPool
<1> HIDE DEF A, n
<1>6. DOMAIN A = 1 .. n /\ A[1] = x
  <2>1. 1 \in 1 .. n
    BY <1>1
  <2>2. QED
    BY <1>2, <2>1
<1>7. \A k \in 1 .. n - 1 : A[k + 1] = QuoteOfHop(path, k, A[k])
  <2>1. SUFFICES ASSUME NEW k \in 1 .. n - 1 PROVE A[k + 1] = QuoteOfHop(path, k, A[k])
    OBVIOUS
  <2>2. k + 1 \in 1 .. n /\ k + 1 # 1 /\ (k + 1) - 1 = k
    BY <1>1
  <2>3. QED
    BY <1>2, <2>2
<1> DEFINE Good == {k \in 0 .. n - 1 : A[k + 1] \in Nat /\ A[k + 1] <= MaxUint128}
<1>8. 0 \in Good
  BY <1>1, <1>6, PoolMathAssumption
<1>9. ASSUME NEW k \in 0 .. (n - 1) - 1, k \in Good PROVE k + 1 \in Good
  <2> DEFINE j == k + 1
             i == PoolOfHop(path, j)
  <2>1. j \in 1 .. n - 1 /\ j \in 0 .. n - 1
    BY <1>1
  <2>2. A[j] \in 1 .. MaxUint128
    BY <1>3, <1>9, <2>1, PoolMathAssumption
  <2>3. /\ i \in DOMAIN pools /\ HasLiquidity(pools[i])
        /\ path[j] \in Tokens /\ path[j + 1] \in Tokens
        /\ Trades(pools[i], path[j], path[j + 1])
    BY <1>3, <1>5, <2>1
  <2> HIDE DEF j, i
  <2> DEFINE v == A[j]
             a == path[j]
             b == path[j + 1]
  <2>4. A[j + 1] = Quote(pools[i], a, v)
    BY <1>7, <2>1 DEF QuoteOfHop, i
  <2>5. /\ v \in 1 .. MaxUint128 /\ a \in Tokens /\ b \in Tokens /\ Trades(pools[i], a, b)
        /\ i \in DOMAIN pools /\ HasLiquidity(pools[i])
    BY <2>2, <2>3
  <2> HIDE DEF v, a, b
  <2>6. Quote(pools[i], a, v) \in Nat /\ Quote(pools[i], a, v) <= MaxUint128
    BY <1>4, <2>5, QuoteBounds
  <2>7. QED
    BY <2>1, <2>4, <2>6 DEF j
<1>10. \A k \in 0 .. n - 1 : k \in Good
  <2>1. n - 1 \in Nat
    BY <1>1
  <2> HIDE DEF Good
  <2>2. QED
    BY <1>8, <1>9, <2>1, IntervalInduction
<1>11. \A k \in 1 .. n : A[k] \in Nat /\ A[k] <= MaxUint128
  <2>1. SUFFICES ASSUME NEW k \in 1 .. n PROVE A[k] \in Nat /\ A[k] <= MaxUint128
    OBVIOUS
  <2>2. k - 1 \in 0 .. n - 1 /\ (k - 1) + 1 = k
    BY <1>1
  <2>3. QED
    BY <1>10, <2>2
<1>12. Len(A) = n /\ Last(A) = A[n]
  <2>1. A \in Seq(Nat) /\ Len(A) = n
    <3>1. A \in [1 .. n -> Nat]
      BY <1>2, <1>11
    <3>2. QED
      BY <1>1, <3>1
  <2>2. QED
    BY <2>1 DEF Last
<1>13. QED
  BY <1>1, <1>3, <1>5, <1>6, <1>7, <1>11, <1>12 DEF A, n

(* One hop: the router pays its pool and is paid what the pool yields.     *)
LEMMA HopIs ==
  ASSUME SupplyFits, NEW w, Funded(w.balance), Sound(w.pools, w.balance),
         NEW i \in DOMAIN w.pools, NEW a \in Tokens, NEW b \in Tokens, a # b,
         Trades(w.pools[i], a, b), NEW x \in 1 .. MaxUint128, SwapIn(w, i, a, x).done
  PROVE  LET v   == SwapIn(w, i, a, x)
             out == Quote(w.pools[i], a, x)
         IN  /\ Funded(v.balance) /\ Sound(v.pools, v.balance)
             /\ DOMAIN v.pools = DOMAIN w.pools
             /\ \A j \in DOMAIN w.pools : v.pools[j].token = w.pools[j].token
             /\ \A j \in DOMAIN w.pools : j # i => v.pools[j] = w.pools[j]
             /\ out \in Nat
             /\ \A y \in Assets :
                  v.balance[y][Router] = IF y = a THEN w.balance[y][Router] - x
                                         ELSE IF y = b THEN w.balance[y][Router] + out
                                         ELSE w.balance[y][Router]
<1> DEFINE P   == w.pools
           B   == w.balance
           p   == P[i]
           s   == SideOf(p, a)
           out == AmountOut(p.reserve[s], p.reserve[1 - s], x)
           q   == [p EXCEPT !.reserve = Pool(p)!ReservesAfterSwap(s, x, out)]
           B1  == Move(B, a, Router, i, x)
           B2  == Move(B1, b, i, Router, out)
           Q   == [P EXCEPT ![i] = q]
           v   == SwapIn(w, i, a, x)
<1>1. s \in Side /\ p.token[s] = a /\ p.token[1 - s] = b
  BY DEF Trades
<1>2. /\ x <= MaxUint128 /\ HasLiquidity(p)
      /\ x <= B[a][Router] /\ out <= B[b][i]
  BY <1>1 DEF SwapIn, Has, Covers
<1>3. v.pools = Q /\ v.balance = B2
  BY <1>1 DEF SwapIn
<1>4. Quote(p, a, x) = out
  BY DEF Quote
<1>5. B \in Balances /\ Funded(B) /\ Sound(P, B) /\ i \in DOMAIN P
  BY FundedIsTyped
<1> HIDE DEF P, B
<1>6. i \in PoolIds /\ i \in Account /\ i # Router /\ PoolOk(p, i, B)
  BY <1>5, SoundPool
<1>7. out \in Nat
  <2>1. Trades(P[i], a, b) /\ HasLiquidity(P[i])
    BY <1>2 DEF P
  <2>2. Quote(P[i], a, x) \in Nat
    BY <1>5, <2>1, QuoteBounds
  <2>3. QED
    BY <1>4, <2>2
<1>8. /\ Router \in Account /\ a \in Assets /\ b \in Assets /\ a # Eth /\ b # Eth
      /\ x \in Nat /\ Tokens \subseteq Assets /\ PoolIds \subseteq Account
      /\ \A j \in PoolIds : j # Router
  BY AccountsDiffer
<1> HIDE DEF p, s, out, q, B1, B2, Q, v
<1>9. /\ Funded(B1)
      /\ \A y \in Assets, c \in Account :
           /\ B[y][c] \in Nat /\ B1[y][c] \in Nat
           /\ B1[y][c] = IF y # a THEN B[y][c]
                         ELSE IF c = Router THEN B[y][c] - x
                         ELSE IF c = i THEN B[y][c] + x
                         ELSE B[y][c]
  BY <1>2, <1>5, <1>6, <1>8, MoveEntries DEF B1
<1>10. out <= B1[b][i]
  BY <1>2, <1>6, <1>8, <1>9
<1>11. /\ Funded(B2)
       /\ \A y \in Assets, c \in Account :
            /\ B1[y][c] \in Nat /\ B2[y][c] \in Nat
            /\ B2[y][c] = IF y # b THEN B1[y][c]
                          ELSE IF c = i THEN B1[y][c] - out
                          ELSE IF c = Router THEN B1[y][c] + out
                          ELSE B1[y][c]
  BY <1>6, <1>7, <1>8, <1>9, <1>10, MoveEntries DEF B2
<1>12. B2[a][i] = B[a][i] + x /\ B2[b][i] = B[b][i] - out
  BY <1>6, <1>8, <1>9, <1>11
<1>13. PoolOk(q, i, B2) /\ q.token = p.token
  <2>1. B2[a][i] <= MaxUint128 /\ B[b][i] <= MaxUint128
    BY <1>5, <1>6, <1>11, BalancesFit
  <2>2. B2 \in Balances
    BY <1>11, FundedIsTyped
  <2>3. out = AmountOut(p.reserve[s], p.reserve[1 - s], x)
    BY DEF out
  <2>4. B2[p.token[s]][i] = B[p.token[s]][i] + x /\ B2[p.token[s]][i] <= MaxUint128
    BY <1>1, <1>12, <2>1
  <2>5. B2[p.token[1 - s]][i] = B[p.token[1 - s]][i] - out /\ B[p.token[1 - s]][i] <= MaxUint128
    BY <1>1, <1>12, <2>1
  <2>6. PoolOk([p EXCEPT !.reserve = Pool(p)!ReservesAfterSwap(s, x, out)], i, B2)
    BY <1>1, <1>2, <1>5, <1>6, <2>2, <2>3, <2>4, <2>5, SwappedOk
  <2>7. q.token = p.token
    BY <1>6 DEF q, PoolOk, PoolRecord
  <2>8. QED
    BY <2>6, <2>7 DEF q
<1>14. Sound(Q, B2)
  <2>1. \A y \in Tokens, j \in PoolIds \ {i} : B2[y][j] >= B[y][j]
    BY <1>8, <1>9, <1>11
  <2>2. B2 \in Balances
    BY <1>11, FundedIsTyped
  <2>3. QED
    BY <1>5, <1>13, <2>1, <2>2, SoundWithOneChanged DEF Q
<1>15. /\ DOMAIN Q = DOMAIN P
       /\ \A j \in DOMAIN P : Q[j].token = P[j].token
       /\ \A j \in DOMAIN P : j # i => Q[j] = P[j]
  <2>1. P \in Seq(PoolRecord)
    BY <1>5 DEF Sound
  <2>2. QED
    BY <1>5, <1>13, <2>1 DEF p, Q
<1>16. \A y \in Assets : B2[y][Router] = IF y = a THEN B[y][Router] - x
                                         ELSE IF y = b THEN B[y][Router] + out
                                         ELSE B[y][Router]
  BY <1>6, <1>8, <1>9, <1>11
<1>17. QED
  BY <1>3, <1>4, <1>7, <1>11, <1>14, <1>15, <1>16 DEF P, B, p, v

(* The states between the hops of a path, one after the other.             *)
HopAlong(amounts, path, k, w) == SwapIn(w, PoolOfHop(path, k), path[k], amounts[k])

AfterHops(held, amounts, path) ==
  CHOOSE g : g = [k \in 0 .. Len(path) - 1 |->
                    IF k = 0 THEN [pools |-> pools, balance |-> held, done |-> TRUE]
                    ELSE HopAlong(amounts, path, k, g[k - 1])]

LEMMA SwapRecursion ==
  ASSUME NEW path \in Seq(Tokens), Len(path) >= 1, NEW held, NEW amounts
  PROVE  LET W == AfterHops(held, amounts, path)
         IN  /\ W[0] = [pools |-> pools, balance |-> held, done |-> TRUE]
             /\ \A k \in 1 .. Len(path) - 1 : W[k] = HopAlong(amounts, path, k, W[k - 1])
<1> DEFINE n == Len(path)
           first == [pools |-> pools, balance |-> held, done |-> TRUE]
           Next1(g, k) == IF k = 0 THEN first ELSE HopAlong(amounts, path, k, g[k - 1])
           Solves(g, m) == g = [k \in 0 .. m |-> Next1(g, k)]
           Good == {m \in 0 .. n - 1 : \E g : Solves(g, m)}
           W == AfterHops(held, amounts, path)
<1> HIDE DEF first
<1>1. n \in Nat /\ n - 1 \in Nat
  OBVIOUS
<1>2. 0 \in Good
  <2> DEFINE g == [k \in 0 .. 0 |-> first]
  <2>1. Solves(g, 0)
    OBVIOUS
  <2>2. 0 \in 0 .. n - 1
    BY <1>1
  <2> HIDE DEF g, Solves
  <2>3. QED
    BY <2>1, <2>2
<1>3. ASSUME NEW m \in 0 .. (n - 1) - 1, m \in Good PROVE m + 1 \in Good
  <2>1. PICK g : Solves(g, m)
    BY <1>3
  <2> DEFINE h == [k \in 0 .. m + 1 |->
                     IF k = m + 1 THEN HopAlong(amounts, path, m + 1, g[m]) ELSE g[k]]
  <2>2. m \in Nat /\ m + 1 \in 0 .. n - 1
    BY <1>1
  <2>3. \A k \in 0 .. m : g[k] = Next1(g, k) /\ h[k] = g[k]
    BY <2>1, <2>2
  <2>4. ASSUME NEW k \in 0 .. m + 1 PROVE h[k] = Next1(h, k)
    <3>1. CASE k = 0
      <4>1. 0 \in 0 .. m
        BY <2>2
      <4>2. h[0] = g[0] /\ g[0] = first
        BY <2>3, <4>1
      <4>3. QED
        BY <3>1, <4>2
    <3>2. CASE k # 0 /\ k # m + 1
      <4>1. k \in 0 .. m /\ k - 1 \in 0 .. m
        BY <2>2, <3>2
      <4>2. QED
        BY <2>3, <3>2, <4>1
    <3>3. CASE k = m + 1
      <4>1. m \in 0 .. m /\ k - 1 = m /\ k # 0
        BY <2>2, <3>3
      <4>2. h[m] = g[m]
        BY <2>3, <4>1
      <4>3. QED
        BY <3>3, <4>1, <4>2
    <3>4. QED
      BY <3>1, <3>2, <3>3
  <2>5. Solves(h, m + 1)
    <3>1. h = [k \in 0 .. m + 1 |-> h[k]]
      OBVIOUS
    <3> HIDE DEF h, Next1
    <3>2. QED
      BY <2>4, <3>1
  <2> HIDE DEF Solves, h
  <2>6. QED
    BY <2>2, <2>5
<1>4. \A m \in 0 .. n - 1 : m \in Good
  <2> HIDE DEF Good, n
  <2>1. QED
    BY <1>1, <1>2, <1>3, IntervalInduction
<1>5. \E g : g = [k \in 0 .. n - 1 |-> Next1(g, k)]
  <2>1. n - 1 \in Good
    <3> HIDE DEF Good
    <3>1. n - 1 \in 0 .. n - 1
      BY <1>1
    <3>2. QED
      BY <1>4, <3>1
  <2>2. QED
    BY <2>1
<1>6. W = CHOOSE g : g = [k \in 0 .. n - 1 |-> Next1(g, k)]
  BY DEF AfterHops, first
<1> HIDE DEF Next1, W
<1>7. W = [k \in 0 .. n - 1 |-> Next1(W, k)]
  BY <1>5, <1>6
<1>8. W[0] = first
  <2>1. 0 \in 0 .. n - 1
    BY <1>1
  <2>2. QED
    BY <1>7, <2>1 DEF Next1
<1>9. \A k \in 1 .. n - 1 : W[k] = HopAlong(amounts, path, k, W[k - 1])
  <2>1. SUFFICES ASSUME NEW k \in 1 .. n - 1
                 PROVE  W[k] = HopAlong(amounts, path, k, W[k - 1])
    OBVIOUS
  <2>2. k \in 0 .. n - 1 /\ k # 0
    BY <1>1
  <2>3. QED
    BY <1>7, <2>2 DEF Next1
<1>10. QED
  BY <1>8, <1>9 DEF W, first, n

LEMMA SwapAlongIs ==
  ASSUME NEW held, NEW amounts, NEW path, NEW to
  PROVE  LET w   == AfterHops(held, amounts, path)[Len(path) - 1]
             out == amounts[Len(path)]
         IN  SwapAlong(held, amounts, path, to)
               = [w EXCEPT !.balance = Move(@, Last(path), Router, to, out),
                           !.done    = @ /\ Has(w.balance, Last(path), Router, out)]
BY DEF SwapAlong, AfterHops, HopAlong

LEMMA DoneBefore ==
  ASSUME NEW w, NEW i, NEW a, NEW x
  PROVE  SwapIn(w, i, a, x).done => w.done
BY DEF SwapIn

(* After k hops the router holds, besides what it held before, the amount  *)
(* quoted for the next hop; the pools of later hops are as they were       *)
(* quoted, unless the path comes back to one of them.                      *)
Underway(w, path, amounts, base, k) ==
  /\ Funded(w.balance) /\ Sound(w.pools, w.balance)
  /\ DOMAIN w.pools = DOMAIN pools
  /\ \A j \in DOMAIN pools : w.pools[j].token = pools[j].token
  /\ ~UsesPoolTwice(path) =>
       /\ \A y \in Assets : w.balance[y][Router]
                              = IF y = path[k + 1] THEN base[y] + amounts[k + 1] ELSE base[y]
       /\ \A j \in k + 1 .. Len(path) - 1 :
            w.pools[PoolOfHop(path, j)] = pools[PoolOfHop(path, j)]

LEMMA TradesByToken ==
  ASSUME NEW p, NEW q, q.token = p.token, NEW a, NEW b, Trades(p, a, b)
  PROVE  Trades(q, a, b)
BY DEF Trades, SideOf

LEMMA HopKeeps ==
  ASSUME SupplyFits, IInv, NEW path \in Seq(Tokens), NEW x \in 1 .. MaxUint128,
         HasQuote(x, path), NEW base \in [Assets -> Nat],
         NEW k \in 0 .. Len(path) - 2, NEW w,
         Underway(w, path, AmountsOut(x, path), base, k),
         HopAlong(AmountsOut(x, path), path, k + 1, w).done
  PROVE  Underway(HopAlong(AmountsOut(x, path), path, k + 1, w),
                  path, AmountsOut(x, path), base, k + 1)
<1> DEFINE A == AmountsOut(x, path)
           n == Len(path)
           j == k + 1
           i == PoolOfHop(path, j)
           a == path[j]
           b == path[j + 1]
           m == A[j]
           v == HopAlong(A, path, j, w)
           out == Quote(w.pools[i], a, m)
<1>1. /\ n \in Nat /\ n >= 2
      /\ \A h \in 1 .. n : A[h] \in Nat /\ A[h] <= MaxUint128
      /\ \A h \in 1 .. n - 1 :
           /\ A[h] > 0 /\ A[h + 1] = QuoteOfHop(path, h, A[h])
           /\ PoolOfHop(path, h) \in DOMAIN pools
           /\ Trades(pools[PoolOfHop(path, h)], path[h], path[h + 1])
           /\ path[h] \in Tokens /\ path[h + 1] \in Tokens /\ path[h] # path[h + 1]
  BY AmountsAre
<1> HIDE DEF A, n
<1>2. j \in 1 .. n - 1 /\ j \in 1 .. n /\ k \in Nat
  BY <1>1 DEF n
<1>3. /\ m \in 1 .. MaxUint128
      /\ i \in DOMAIN pools /\ Trades(pools[i], a, b)
      /\ a \in Tokens /\ b \in Tokens /\ a # b
      /\ A[j + 1] = Quote(pools[i], a, m)
  BY <1>1, <1>2, PoolMathAssumption DEF QuoteOfHop
<1>4. v = SwapIn(w, i, a, m) /\ v.done
  BY DEF HopAlong, A
<1>5. /\ Funded(w.balance) /\ Sound(w.pools, w.balance)
      /\ DOMAIN w.pools = DOMAIN pools
      /\ \A h \in DOMAIN pools : w.pools[h].token = pools[h].token
      /\ ~UsesPoolTwice(path) =>
           /\ \A y \in Assets : w.balance[y][Router]
                                  = IF y = a THEN base[y] + m ELSE base[y]
           /\ \A h \in j .. n - 1 : w.pools[PoolOfHop(path, h)] = pools[PoolOfHop(path, h)]
  BY DEF Underway, A, n
<1> HIDE DEF j, i, a, b, m, v, out
<1>6. Trades(w.pools[i], a, b)
  BY <1>3, <1>5, TradesByToken
<1>7. /\ Funded(v.balance) /\ Sound(v.pools, v.balance)
      /\ DOMAIN v.pools = DOMAIN w.pools
      /\ \A h \in DOMAIN w.pools : v.pools[h].token = w.pools[h].token
      /\ \A h \in DOMAIN w.pools : h # i => v.pools[h] = w.pools[h]
      /\ out \in Nat
      /\ \A y \in Assets :
           v.balance[y][Router] = IF y = a THEN w.balance[y][Router] - m
                                  ELSE IF y = b THEN w.balance[y][Router] + out
                                  ELSE w.balance[y][Router]
  <2>1. i \in DOMAIN w.pools
    BY <1>3, <1>5
  <2>2. SwapIn(w, i, a, m).done
    BY <1>4
  <2> DEFINE u == SwapIn(w, i, a, m)
             o == Quote(w.pools[i], a, m)
  <2>3. /\ Funded(u.balance) /\ Sound(u.pools, u.balance)
        /\ DOMAIN u.pools = DOMAIN w.pools
        /\ \A h \in DOMAIN w.pools : u.pools[h].token = w.pools[h].token
        /\ \A h \in DOMAIN w.pools : h # i => u.pools[h] = w.pools[h]
        /\ o \in Nat
        /\ \A y \in Assets :
             u.balance[y][Router] = IF y = a THEN w.balance[y][Router] - m
                                    ELSE IF y = b THEN w.balance[y][Router] + o
                                    ELSE w.balance[y][Router]
    BY <1>3, <1>5, <1>6, <2>1, <2>2, HopIs
  <2>4. u = v /\ o = out
    BY <1>4 DEF out
  <2> HIDE DEF u, o
  <2>5. QED
    BY <2>3, <2>4
<1>8. ASSUME ~UsesPoolTwice(path)
      PROVE  /\ \A y \in Assets : v.balance[y][Router]
                                    = IF y = b THEN base[y] + A[j + 1] ELSE base[y]
             /\ \A h \in j + 1 .. n - 1 :
                  v.pools[PoolOfHop(path, h)] = pools[PoolOfHop(path, h)]
  <2>1. w.pools[i] = pools[i]
    BY <1>1, <1>2, <1>5, <1>8 DEF i
  <2>2. out = A[j + 1]
    BY <1>3, <2>1 DEF out
  <2>3. \A y \in Assets : base[y] \in Nat /\ m \in Nat
    BY <1>3
  <2>4. \A y \in Assets : v.balance[y][Router]
                            = IF y = b THEN base[y] + A[j + 1] ELSE base[y]
    BY <1>3, <1>5, <1>7, <1>8, <2>2, <2>3
  <2>5. ASSUME NEW h \in j + 1 .. n - 1
        PROVE  v.pools[PoolOfHop(path, h)] = pools[PoolOfHop(path, h)]
    <3>1. h \in j .. n - 1 /\ h \in 1 .. n - 1 /\ h # j
      BY <1>1, <1>2
    <3>2. PoolOfHop(path, h) # i
      BY <1>2, <1>8, <3>1 DEF UsesPoolTwice, Hops, i, n
    <3>3. PoolOfHop(path, h) \in DOMAIN w.pools
      BY <1>1, <1>5, <3>1
    <3>4. QED
      BY <1>5, <1>7, <1>8, <3>1, <3>2, <3>3
  <2>6. QED
    BY <2>4, <2>5
<1>9. Underway(v, path, A, base, j)
  BY <1>5, <1>7, <1>8 DEF Underway, b, n
<1>10. QED
  BY <1>9 DEF v, j, A

LEMMA PathKeeps ==
  ASSUME SupplyFits, IInv, NEW path \in Seq(Tokens), NEW x \in 1 .. MaxUint128,
         HasQuote(x, path), NEW base \in [Assets -> Nat],
         NEW held, Funded(held), Sound(pools, held),
         \A y \in Assets : held[y][Router] = IF y = path[1] THEN base[y] + x ELSE base[y],
         NEW to \in Users \cup {Router},
         SwapAlong(held, AmountsOut(x, path), path, to).done
  PROVE  LET w   == SwapAlong(held, AmountsOut(x, path), path, to)
             z   == path[Len(path)]
             out == AmountsOut(x, path)[Len(path)]
         IN  /\ z \in Tokens /\ z = Last(path) /\ out \in Nat
             /\ Funded(w.balance) /\ Sound(w.pools, w.balance) /\ Paired(w.pools, getPair)
             /\ to = Router => out <= w.balance[z][Router]
             /\ ~UsesPoolTwice(path) =>
                  \A y \in Assets : w.balance[y][Router]
                    = IF to = Router /\ y = z THEN base[y] + out ELSE base[y]
<1> DEFINE A == AmountsOut(x, path)
           n == Len(path)
           z == path[n]
           out == A[n]
           W == AfterHops(held, A, path)
           v == W[n - 1]
           w == SwapAlong(held, A, path, to)
           B == v.balance
           C == Move(B, z, Router, to, out)
<1>1. /\ n \in Nat /\ n >= 2 /\ A[1] = x
      /\ \A h \in 1 .. n : A[h] \in Nat /\ A[h] <= MaxUint128
      /\ \A h \in 1 .. n - 1 : path[h + 1] \in Tokens
  BY AmountsAre
<1>2. /\ W[0] = [pools |-> pools, balance |-> held, done |-> TRUE]
      /\ \A k \in 1 .. n - 1 : W[k] = HopAlong(A, path, k, W[k - 1])
  BY <1>1, SwapRecursion
<1>3. z = Last(path) /\ z \in Tokens /\ out \in Nat /\ (n - 1) + 1 = n
  BY <1>1 DEF Last
<1>4. w = [v EXCEPT !.balance = Move(@, z, Router, to, out),
                    !.done    = @ /\ Has(B, z, Router, out)]
  BY <1>3, SwapAlongIs
<1> HIDE DEF W
<1> DEFINE Good == {k \in 0 .. n - 1 : W[k].done => Underway(W[k], path, A, base, k)}
<1>5. 0 \in Good
  <2>1. Underway(W[0], path, A, base, 0)
    BY <1>1, <1>2 DEF Underway
  <2>2. 0 \in 0 .. n - 1
    BY <1>1
  <2>3. QED
    BY <2>1, <2>2
<1>6. ASSUME NEW k \in 0 .. (n - 1) - 1, k \in Good PROVE k + 1 \in Good
  <2>1. k + 1 \in 1 .. n - 1 /\ k + 1 \in 0 .. n - 1 /\ (k + 1) - 1 = k /\ k \in 0 .. n - 2
    BY <1>1
  <2>2. W[k + 1] = HopAlong(A, path, k + 1, W[k])
    BY <1>2, <2>1
  <2>3. SUFFICES ASSUME W[k + 1].done PROVE Underway(W[k + 1], path, A, base, k + 1)
    BY <2>1
  <2>4. W[k].done
    BY <2>2, <2>3, DoneBefore DEF HopAlong
  <2>5. Underway(W[k], path, A, base, k)
    BY <1>6, <2>4
  <2>6. HopAlong(A, path, k + 1, W[k]).done
    BY <2>2, <2>3
  <2>7. Underway(HopAlong(A, path, k + 1, W[k]), path, A, base, k + 1)
    BY <2>1, <2>5, <2>6, HopKeeps
  <2>8. QED
    BY <2>2, <2>7
<1>7. \A k \in 0 .. n - 1 : k \in Good
  <2>1. n - 1 \in Nat
    BY <1>1
  <2> HIDE DEF Good, n
  <2>2. QED
    BY <1>5, <1>6, <2>1, IntervalInduction
<1>8. n - 1 \in Good
  <2> HIDE DEF Good
  <2>1. n - 1 \in 0 .. n - 1
    BY <1>1
  <2>2. QED
    BY <1>7, <2>1
<1>9. v.done /\ out <= B[z][Router]
  <2>1. w.done
    OBVIOUS
  <2>2. n - 1 \in 1 .. n - 1
    BY <1>1
  <2>3. v = HopAlong(A, path, n - 1, W[(n - 1) - 1])
    BY <1>2, <2>2
  <2> HIDE DEF w, v, B, out, z
  <2>4. DOMAIN v = {"pools", "balance", "done"}
    BY <2>3 DEF HopAlong, SwapIn
  <2>5. w.done = (v.done /\ Has(B, z, Router, out))
    BY <1>4, <2>4
  <2>6. v.done /\ Has(B, z, Router, out)
    BY <2>1, <2>5
  <2>7. QED
    BY <2>6 DEF Has, Covers
<1>10. w.pools = v.pools /\ w.balance = C
  <2>1. n - 1 \in 1 .. n - 1
    BY <1>1
  <2>2. v = HopAlong(A, path, n - 1, W[(n - 1) - 1])
    BY <1>2, <2>1
  <2> HIDE DEF w, v, out, z
  <2>3. DOMAIN v = {"pools", "balance", "done"}
    BY <2>2 DEF HopAlong, SwapIn
  <2>4. QED
    BY <1>4, <2>3
<1>11. Underway(v, path, A, base, n - 1)
  BY <1>8, <1>9
<1> HIDE DEF A, n, v, w, Good
<1>12. /\ Funded(B) /\ Sound(v.pools, B) /\ DOMAIN v.pools = DOMAIN pools
       /\ \A j \in DOMAIN pools : v.pools[j].token = pools[j].token
       /\ ~UsesPoolTwice(path) =>
            \A y \in Assets : B[y][Router] = IF y = z THEN base[y] + out ELSE base[y]
  BY <1>3, <1>11 DEF Underway
<1> HIDE DEF z, out, B, C
<1>13. Paired(v.pools, getPair)
  BY <1>12, PairedStays DEF IInv
<1>14. Router \in Account /\ z \in Assets /\ z # Eth /\ Tokens \subseteq Assets /\ PoolIds \subseteq Account
  BY <1>3, AccountsDiffer
<1>15. CASE to = Router
  <2>1. B \in Balances
    BY <1>12, FundedIsTyped
  <2>2. C = B
    BY <1>3, <1>14, <1>15, <2>1, MoveToSelf DEF C
  <2>3. QED
    BY <1>3, <1>9, <1>10, <1>12, <1>13, <1>15, <2>2 DEF A, n, w, z, out
<1>16. CASE to # Router
  <2>1. to \in Account /\ \A j \in PoolIds : j # to /\ j # Router
    BY <1>16, AccountsDiffer
  <2>2. /\ Funded(C)
        /\ \A y \in Assets, c \in Account :
             /\ B[y][c] \in Nat /\ C[y][c] \in Nat
             /\ C[y][c] = IF y # z THEN B[y][c]
                          ELSE IF c = Router THEN B[y][c] - out
                          ELSE IF c = to THEN B[y][c] + out
                          ELSE B[y][c]
    BY <1>3, <1>9, <1>12, <1>14, <1>16, <2>1, MoveEntries DEF C
  <2>3. Sound(v.pools, C)
    <3>1. ASSUME NEW y \in Tokens, NEW j \in PoolIds PROVE C[y][j] >= B[y][j]
      <4>1. y \in Assets /\ j \in Account /\ j # Router /\ j # to
        BY <1>14, <2>1
      <4>2. C[y][j] = B[y][j] /\ B[y][j] \in Nat
        BY <2>2, <4>1
      <4>3. QED
        BY <4>2
    <3>2. B \in Balances /\ C \in Balances
      BY <1>12, <2>2, FundedIsTyped
    <3>3. QED
      BY <1>12, <3>1, <3>2, SoundWithMore
  <2>4. ~UsesPoolTwice(path) => \A y \in Assets : C[y][Router] = base[y]
    BY <1>3, <1>12, <1>14, <2>2
  <2>5. QED
    BY <1>3, <1>10, <1>13, <1>16, <2>2, <2>3, <2>4 DEF A, n, w, z, out
<1>17. QED
  BY <1>15, <1>16

-----------------------------------------------------------------------------
(* The three swaps.                                                        *)
LEMMA EthFits ==
  ASSUME SupplyFits, NEW B, Funded(B), NEW a \in Account
  PROVE  B[Eth][a] \in Nat /\ B[Eth][a] <= MaxUint128
<1>1. B[Eth] \in [Account -> Nat] /\ Eth \in Assets \ {Weth} /\ MaxUint128 \in Nat
  BY AccountsDiffer, PoolMathAssumption DEF Funded, Balances
<1>2. B[Eth][a] \in Nat /\ B[Eth][a] <= Total(B, Eth) /\ Total(B, Eth) \in Nat
  BY <1>1, AccountsDiffer, SumBounds DEF Total
<1>3. QED
  BY <1>1, <1>2 DEF Funded, SupplyFits

RouterBase == [y \in Assets |-> balance[y][Router]]

LEMMA KeepsUnlessTwice ==
  ASSUME IInv, NEW path, repeated' = (repeated \/ UsesPoolTwice(path)), UNCHANGED strays,
         ~UsesPoolTwice(path) => \A y \in Assets : balance'[y][Router] = RouterBase[y]
  PROVE  RouterKeepsNothing' /\ repeated' \in BOOLEAN
<1>1. ASSUME ~repeated' PROVE \A y \in Assets : balance'[y][Router] = strays'[y]
  <2>1. ~repeated /\ ~UsesPoolTwice(path)
    BY <1>1, Zenon
  <2>2. \A y \in Assets : balance[y][Router] = strays[y]
    BY <2>1, Zenon DEF IInv, RouterKeepsNothing
  <2>3. QED
    BY <2>1, <2>2 DEF RouterBase
<1>2. repeated' \in BOOLEAN
  BY Zenon DEF UsesPoolTwice
<1>3. QED
  BY <1>1, <1>2, Zenon DEF RouterKeepsNothing

LEMMA SwapTokensKeeps ==
  ASSUME SupplyFits, IInv, NEW u \in Users, NEW x \in Nat, NEW min,
         NEW path \in Seq(Tokens), NEW to \in Users,
         SwapExactTokensForTokens(u, x, min, path, to)
  PROVE  IInv'
<1> DEFINE A == AmountsOut(x, path)
           a == path[1]
           held == Move(balance, a, u, Router, x)
           w == SwapAlong(held, A, path, to)
<1>1. /\ x > 0 /\ HasQuote(x, path) /\ x <= balance[a][u] /\ w.done
      /\ pools' = w.pools /\ balance' = w.balance
      /\ repeated' = (repeated \/ UsesPoolTwice(path))
      /\ UNCHANGED <<getPair, strays>>
  BY DEF SwapExactTokensForTokens, Has, Covers
<1>2. Funded(balance) /\ balance \in Balances /\ Sound(pools, balance)
  BY FundedIsTyped DEF IInv
<1>3. a \in Tokens
  BY <1>1 DEF HasQuote
<1>4. /\ u \in Account /\ Router \in Account /\ u # Router /\ a \in Assets /\ a # Eth
      /\ Tokens \subseteq Assets /\ PoolIds \subseteq Account
      /\ \A j \in PoolIds : j # u /\ j # Router
  BY <1>3, AccountsDiffer
<1> HIDE DEF a, held, w
<1>5. x \in 1 .. MaxUint128
  <2>1. balance[a][u] \in Nat /\ balance[a][u] <= MaxUint128
    BY <1>2, <1>3, <1>4, BalancesFit
  <2>2. QED
    BY <1>1, <2>1, PoolMathAssumption
<1>6. /\ Funded(held)
      /\ \A y \in Assets, c \in Account :
           /\ balance[y][c] \in Nat /\ held[y][c] \in Nat
           /\ held[y][c] = IF y # a THEN balance[y][c]
                           ELSE IF c = u THEN balance[y][c] - x
                           ELSE IF c = Router THEN balance[y][c] + x
                           ELSE balance[y][c]
  BY <1>1, <1>2, <1>4, MoveEntries DEF held
<1>7. Sound(pools, held)
  <2>1. \A y \in Tokens, j \in PoolIds : held[y][j] >= balance[y][j]
    BY <1>4, <1>6
  <2>2. held \in Balances
    BY <1>6, FundedIsTyped
  <2>3. QED
    BY <1>2, <2>1, <2>2, SoundWithMore
<1>8. /\ RouterBase \in [Assets -> Nat]
      /\ \A y \in Assets : held[y][Router] = IF y = a THEN RouterBase[y] + x ELSE RouterBase[y]
  BY <1>4, <1>6 DEF RouterBase
<1>9. /\ Funded(w.balance) /\ Sound(w.pools, w.balance) /\ Paired(w.pools, getPair)
      /\ ~UsesPoolTwice(path) => \A y \in Assets : w.balance[y][Router] = RouterBase[y]
  <2>1. to \in Users \cup {Router} /\ to # Router
    BY AccountsDiffer
  <2>2. SwapAlong(held, A, path, to).done
    BY <1>1 DEF w
  <2>3. \A y \in Assets : held[y][Router]
                            = IF y = path[1] THEN RouterBase[y] + x ELSE RouterBase[y]
    BY <1>8 DEF a
  <2> HIDE DEF A
  <2>4. QED
    BY <1>1, <1>5, <1>6, <1>7, <1>8, <2>1, <2>2, <2>3, PathKeeps DEF w, A
<1>10. RouterKeepsNothing' /\ repeated' \in BOOLEAN
  BY <1>1, <1>9, KeepsUnlessTwice
<1>11. QED
  BY <1>1, <1>9, <1>10 DEF IInv

LEMMA SwapFromETHKeeps ==
  ASSUME SupplyFits, IInv, NEW u \in Users, NEW x \in Nat, NEW min,
         NEW path \in Seq(Tokens), NEW to \in Users,
         SwapExactETHForTokens(u, x, min, path, to)
  PROVE  IInv'
<1> DEFINE A == AmountsOut(x, path)
           sent == Move(balance, Eth, u, Router, x)
           held == Wrap(sent, Router, x)
           w == SwapAlong(held, A, path, to)
<1>1. /\ x > 0 /\ HasQuote(x, path) /\ x <= balance[Eth][u] /\ w.done /\ path[1] = Weth
      /\ pools' = w.pools /\ balance' = w.balance
      /\ repeated' = (repeated \/ UsesPoolTwice(path))
      /\ UNCHANGED <<getPair, strays>>
  BY DEF SwapExactETHForTokens, Has, Covers
<1>2. Funded(balance) /\ balance \in Balances /\ Sound(pools, balance)
  BY FundedIsTyped DEF IInv
<1>4. /\ u \in Account /\ Router \in Account /\ u # Router /\ u # Weth /\ Router # Weth
      /\ Eth \in Assets /\ Weth \in Assets /\ Eth # Weth
      /\ Tokens \subseteq Assets /\ PoolIds \subseteq Account
      /\ \A y \in Tokens : y # Eth
      /\ \A j \in PoolIds : j # u /\ j # Router /\ j # Weth
  BY AccountsDiffer
<1> HIDE DEF sent, held, w
<1>5. x \in 1 .. MaxUint128
  <2>1. balance[Eth][u] \in Nat /\ balance[Eth][u] <= MaxUint128
    BY <1>2, <1>4, EthFits
  <2>2. QED
    BY <1>1, <2>1, PoolMathAssumption
<1>6. /\ Funded(sent)
      /\ \A y \in Assets, c \in Account :
           /\ balance[y][c] \in Nat /\ sent[y][c] \in Nat
           /\ sent[y][c] = IF y # Eth THEN balance[y][c]
                           ELSE IF c = u THEN balance[y][c] - x
                           ELSE IF c = Router THEN balance[y][c] + x
                           ELSE balance[y][c]
  BY <1>1, <1>2, <1>4, MoveEntries DEF sent
<1>7. x <= sent[Eth][Router]
  BY <1>4, <1>6
<1>8. /\ Funded(held)
      /\ \A y \in Assets, c \in Account \ {Weth} :
           /\ sent[y][c] \in Nat /\ held[y][c] \in Nat
           /\ held[y][c] = IF c # Router \/ y \notin {Eth, Weth} THEN sent[y][c]
                           ELSE IF y = Eth THEN sent[y][c] - x
                           ELSE sent[y][c] + x
  BY <1>4, <1>6, <1>7, WrapEntries DEF held
<1>9. Sound(pools, held)
  <2>1. \A y \in Tokens, j \in PoolIds : held[y][j] >= balance[y][j]
    BY <1>4, <1>6, <1>8
  <2>2. held \in Balances
    BY <1>8, FundedIsTyped
  <2>3. QED
    BY <1>2, <2>1, <2>2, SoundWithMore
<1>10. /\ RouterBase \in [Assets -> Nat]
       /\ \A y \in Assets :
            held[y][Router] = IF y = path[1] THEN RouterBase[y] + x ELSE RouterBase[y]
  BY <1>1, <1>4, <1>6, <1>8 DEF RouterBase
<1>11. /\ Funded(w.balance) /\ Sound(w.pools, w.balance) /\ Paired(w.pools, getPair)
       /\ ~UsesPoolTwice(path) => \A y \in Assets : w.balance[y][Router] = RouterBase[y]
  <2>1. to \in Users \cup {Router} /\ to # Router
    BY AccountsDiffer
  <2>2. SwapAlong(held, A, path, to).done
    BY <1>1 DEF w
  <2> HIDE DEF A
  <2>3. QED
    BY <1>1, <1>5, <1>8, <1>9, <1>10, <2>1, <2>2, PathKeeps DEF w, A
<1>12. RouterKeepsNothing' /\ repeated' \in BOOLEAN
  BY <1>1, <1>11, KeepsUnlessTwice
<1>13. QED
  BY <1>1, <1>11, <1>12 DEF IInv

LEMMA SwapToETHKeeps ==
  ASSUME SupplyFits, IInv, NEW u \in Users, NEW x \in Nat, NEW min,
         NEW path \in Seq(Tokens), NEW to \in Users,
         SwapExactTokensForETH(u, x, min, path, to)
  PROVE  IInv'
<1> DEFINE A == AmountsOut(x, path)
           a == path[1]
           z == path[Len(path)]
           out == A[Len(path)]
           held == Move(balance, a, u, Router, x)
           w == SwapAlong(held, A, path, Router)
           B == w.balance
           B1 == Unwrap(B, Router, out)
           B2 == Move(B1, Eth, Router, to, out)
<1>1. /\ x > 0 /\ HasQuote(x, path) /\ x <= balance[a][u] /\ w.done /\ Last(path) = Weth
      /\ pools' = w.pools
      /\ balance' = Move(Unwrap(B, Router, Last(A)), Eth, Router, to, Last(A))
      /\ repeated' = (repeated \/ UsesPoolTwice(path))
      /\ UNCHANGED <<getPair, strays>>
  BY DEF SwapExactTokensForETH, Has, Covers
<1>2. Funded(balance) /\ balance \in Balances /\ Sound(pools, balance)
  BY FundedIsTyped DEF IInv
<1>3. a \in Tokens
  BY <1>1 DEF HasQuote
<1>4. /\ u \in Account /\ Router \in Account /\ to \in Account
      /\ u # Router /\ to # Router /\ to # Weth /\ Router # Weth
      /\ a \in Assets /\ a # Eth /\ Eth \in Assets /\ Weth \in Assets /\ Eth # Weth
      /\ Tokens \subseteq Assets /\ PoolIds \subseteq Account
      /\ \A y \in Tokens : y # Eth
      /\ \A j \in PoolIds : j # u /\ j # Router /\ j # to /\ j # Weth
  BY <1>3, AccountsDiffer
<1> HIDE DEF a, z, out, held, w, B, B1, B2
<1>5. x \in 1 .. MaxUint128
  <2>1. balance[a][u] \in Nat /\ balance[a][u] <= MaxUint128
    BY <1>2, <1>3, <1>4, BalancesFit
  <2>2. QED
    BY <1>1, <2>1, PoolMathAssumption
<1>6. /\ Funded(held)
      /\ \A y \in Assets, c \in Account :
           /\ balance[y][c] \in Nat /\ held[y][c] \in Nat
           /\ held[y][c] = IF y # a THEN balance[y][c]
                           ELSE IF c = u THEN balance[y][c] - x
                           ELSE IF c = Router THEN balance[y][c] + x
                           ELSE balance[y][c]
  BY <1>1, <1>2, <1>4, MoveEntries DEF held
<1>7. Sound(pools, held)
  <2>1. \A y \in Tokens, j \in PoolIds : held[y][j] >= balance[y][j]
    BY <1>4, <1>6
  <2>2. held \in Balances
    BY <1>6, FundedIsTyped
  <2>3. QED
    BY <1>2, <2>1, <2>2, SoundWithMore
<1>8. /\ RouterBase \in [Assets -> Nat]
      /\ \A y \in Assets : held[y][Router] = IF y = a THEN RouterBase[y] + x ELSE RouterBase[y]
  BY <1>4, <1>6 DEF RouterBase
<1>9. /\ z = Last(path) /\ out \in Nat /\ out <= B[z][Router]
      /\ Funded(B) /\ Sound(w.pools, B) /\ Paired(w.pools, getPair)
      /\ ~UsesPoolTwice(path) =>
           \A y \in Assets : B[y][Router] = IF y = z THEN RouterBase[y] + out ELSE RouterBase[y]
  <2>1. Router \in Users \cup {Router}
    OBVIOUS
  <2>2. SwapAlong(held, A, path, Router).done
    BY <1>1 DEF w
  <2>3. \A y \in Assets : held[y][Router]
                            = IF y = path[1] THEN RouterBase[y] + x ELSE RouterBase[y]
    BY <1>8 DEF a
  <2> HIDE DEF A
  <2>4. QED
    BY <1>1, <1>5, <1>6, <1>7, <1>8, <2>1, <2>2, <2>3, PathKeeps DEF w, A, B, z, out
<1>10. z = Weth /\ Last(A) = out
  <2>1. Last(A) = A[Len(path)]
    BY <1>1, <1>5, AmountsAre
  <2>2. QED
    BY <1>1, <1>9, <2>1 DEF out
<1>11. balance' = B2
  BY <1>1, <1>10 DEF B1, B2
<1>12. /\ Funded(B1)
       /\ \A y \in Assets, c \in Account \ {Weth} :
            /\ B[y][c] \in Nat /\ B1[y][c] \in Nat
            /\ B1[y][c] = IF c # Router \/ y \notin {Eth, Weth} THEN B[y][c]
                          ELSE IF y = Weth THEN B[y][c] - out
                          ELSE B[y][c] + out
  BY <1>4, <1>9, <1>10, UnwrapEntries DEF B1
<1>13. out <= B1[Eth][Router]
  BY <1>4, <1>9, <1>12
<1>14. /\ Funded(B2)
       /\ \A y \in Assets, c \in Account :
            /\ B1[y][c] \in Nat /\ B2[y][c] \in Nat
            /\ B2[y][c] = IF y # Eth THEN B1[y][c]
                          ELSE IF c = Router THEN B1[y][c] - out
                          ELSE IF c = to THEN B1[y][c] + out
                          ELSE B1[y][c]
  BY <1>4, <1>9, <1>12, <1>13, MoveEntries DEF B2
<1>15. Sound(w.pools, B2)
  <2>1. \A y \in Tokens, j \in PoolIds : B2[y][j] >= B[y][j]
    BY <1>4, <1>12, <1>14
  <2>2. B \in Balances /\ B2 \in Balances
    BY <1>9, <1>14, FundedIsTyped
  <2>3. QED
    BY <1>9, <2>1, <2>2, SoundWithMore
<1>16. ~UsesPoolTwice(path) => \A y \in Assets : B2[y][Router] = RouterBase[y]
  <2>1. SUFFICES ASSUME ~UsesPoolTwice(path), NEW y \in Assets
                 PROVE  B2[y][Router] = RouterBase[y]
    OBVIOUS
  <2>2. B[y][Router] = IF y = Weth THEN RouterBase[y] + out ELSE RouterBase[y]
    BY <1>9, <1>10, <2>1
  <2>3. RouterBase[y] \in Nat
    BY <1>8
  <2>4. QED
    BY <1>4, <1>9, <1>12, <1>14, <2>2, <2>3
<1>17. RouterKeepsNothing' /\ repeated' \in BOOLEAN
  BY <1>1, <1>11, <1>16, KeepsUnlessTwice
<1>18. QED
  BY <1>1, <1>9, <1>11, <1>14, <1>15, <1>17 DEF IInv

-----------------------------------------------------------------------------
(* Every call keeps the invariant.                                         *)
LEMMA InvariantKept == ASSUME SupplyFits PROVE IInv /\ [Next]_vars => IInv'
<1> SUFFICES ASSUME IInv, [Next]_vars PROVE IInv'
  OBVIOUS
<1>1. /\ Deposits \subseteq Nat /\ Inputs \subseteq Nat /\ Gifts \subseteq Nat
      /\ Paths \subseteq Seq(Tokens) /\ Weth \in Tokens
  BY RouterAssumption
<1>2. CASE UNCHANGED vars
  BY <1>2 DEF vars, IInv, RouterKeepsNothing
<1>3. ASSUME NEW a \in Tokens, NEW b \in Tokens, CreatePair(a, b) PROVE IInv'
  BY <1>3, CreatePairKeeps
<1>4. ASSUME NEW u \in Users, AddLiquidityNext(u) PROVE IInv'
  <2>1. PICK a \in Tokens, to \in Users :
          \/ \E b \in {x \in Tokens : a < x} :
               \E desired \in [{a, b} -> Deposits], min \in [{a, b} -> Minimums] :
                 AddLiquidity(u, a, b, desired, min, to)
          \/ \E value, desired \in Deposits, min \in [{a, Weth} -> Minimums] :
               AddLiquidityETH(u, a, value, desired, min, to)
    BY <1>4 DEF AddLiquidityNext
  <2>2. ASSUME NEW b \in {x \in Tokens : a < x}, NEW desired \in [{a, b} -> Deposits],
               NEW min \in [{a, b} -> Minimums], AddLiquidity(u, a, b, desired, min, to)
        PROVE  IInv'
    <3>1. b \in Tokens /\ desired[a] \in Nat /\ desired[b] \in Nat
      BY <1>1
    <3>2. QED
      BY <2>2, <3>1, AddLiquidityKeeps
  <2>3. ASSUME NEW value \in Deposits, NEW desired \in Deposits,
               NEW min \in [{a, Weth} -> Minimums],
               AddLiquidityETH(u, a, value, desired, min, to)
        PROVE  IInv'
    <3>1. value \in Nat /\ desired \in Nat
      BY <1>1
    <3>2. QED
      BY <2>3, <3>1, AddLiquidityETHKeeps
  <2>4. QED
    BY <2>1, <2>2, <2>3
<1>5. ASSUME NEW u \in Users, SwapNext(u) PROVE IInv'
  <2>1. PICK x \in Inputs, min \in Minimums, path \in Paths, to \in Users :
          \/ SwapExactTokensForTokens(u, x, min, path, to)
          \/ SwapExactETHForTokens(u, x, min, path, to)
          \/ SwapExactTokensForETH(u, x, min, path, to)
    BY <1>5 DEF SwapNext
  <2>2. x \in Nat /\ path \in Seq(Tokens)
    BY <1>1
  <2>3. QED
    BY <2>1, <2>2, SwapTokensKeeps, SwapFromETHKeeps, SwapToETHKeeps
<1>6. ASSUME NEW u \in Users, NEW i \in PoolIds, NEW n \in Inputs, NEW min,
             RemoveLiquidity(u, i, n, min) \/ SendLpToRouter(u, i, n)
      PROVE  IInv'
  <2>1. n \in Nat
    BY <1>1
  <2>2. QED
    BY <1>6, <2>1, RemoveLiquidityKeeps, SendLpKeeps
<1>7. ASSUME NEW u \in Users, NEW x \in Assets, NEW n \in Gifts, SendToRouter(u, x, n)
      PROVE  IInv'
  <2>1. n \in Nat
    BY <1>1
  <2>2. QED
    BY <1>7, <2>1, SendToRouterKeeps
<1>8. ASSUME NEW u \in Users, NEW n \in Inputs, Deposit(u, n) \/ Withdraw(u, n)
      PROVE  IInv'
  <2>1. n \in Nat
    BY <1>1
  <2>2. QED
    BY <1>8, <2>1, WethKeeps
<1>9. ASSUME NEW token \in Tokens, NEW n \in Inputs, NEW to \in Users, NEW min,
             RemoveLiquidityETH(token, n, min, to)
      PROVE  IInv'
  <2>1. n \in Nat
    BY <1>1
  <2>2. QED
    BY <1>9, <2>1, RemoveLiquidityETHKeeps
<1>10. CASE Next
  BY <1>3, <1>4, <1>5, <1>6, <1>7, <1>8, <1>9, <1>10 DEF Next
<1>11. QED
  BY <1>2, <1>10

LEMMA InvariantHolds == ASSUME SupplyFits PROVE Spec => []IInv
<1>1. Init => IInv
  BY InvariantAtFirst
<1>2. IInv /\ [Next]_vars => IInv'
  BY InvariantKept
<1>3. QED
  BY <1>1, <1>2, PTL DEF Spec

-----------------------------------------------------------------------------
(* createPair and every deposit that creates its pool leave getPair and    *)
(* allPairs in agreement, whichever way round the two tokens are named.    *)
THEOREM TypeCorrect == ASSUME SupplyFits PROVE Spec => []TypeOK
<1>1. ASSUME IInv PROVE TypeOK
  <2>1. /\ Paired(pools, getPair) /\ balance \in [Assets -> [Account -> Nat]]
        /\ strays \in [Assets -> Nat] /\ repeated \in BOOLEAN
    BY <1>1 DEF IInv, Funded, Balances
  <2>2. ASSUME NEW i \in DOMAIN pools
        PROVE  /\ pools[i].address = i
               /\ pools[i].token \in [Side -> Tokens] /\ pools[i].token[0] < pools[i].token[1]
    BY <1>1 DEF IInv, Sound, PoolOk, PoolRecord
  <2>3. /\ getPair \in [Tokens \X Tokens -> {NoPool} \cup DOMAIN pools]
        /\ \A i \in DOMAIN pools :
             {pair \in Tokens \X Tokens : getPair[pair] = i}
               = {<<pools[i].token[s], pools[i].token[1 - s]>> : s \in Side}
    BY <2>1 DEF Paired, PairsOf
  <2>4. QED
    BY <2>1, <2>2, <2>3, Zenon DEF TypeOK
<1>2. QED
  BY <1>1, InvariantHolds, PTL

(* Behind the router every pool owns its reserves, counts its LP and never *)
(* drains, through swaps of any number of hops.                            *)
THEOREM PoolsSound == ASSUME SupplyFits PROVE Spec => []PoolsAreSound
<1>1. ASSUME IInv, NEW i \in DOMAIN pools
      PROVE  /\ Pool(pools[i])!PoolIsSolvent
             /\ Pool(pools[i])!LpSupplyIsSumOfBalances
             /\ Pool(pools[i])!PoolNeverDrains
  <2> DEFINE p == pools[i]
  <2>1. balance \in Balances /\ Sound(pools, balance)
    BY <1>1, FundedIsTyped DEF IInv
  <2>2. PoolOk(p, i, balance)
    BY <2>1, SoundPool
  <2> HIDE DEF p
  <2>3. Pool(p)!PoolIsSolvent
    <3>1. \A s \in Side : p.reserve[s] <= balance[p.token[s]][p.address]
      BY <2>2 DEF PoolOk
    <3>2. QED
      BY <3>1 DEF Pool!PoolIsSolvent, Pool!Token, Side
  <2>4. Pool(p)!LpSupplyIsSumOfBalances
    <3>1. Pool(p)!Account = LpHolder
      BY DEF Pool!Account, LpHolder
    <3>2. \A f, S : Pool(p)!SumFunctionOnSet(f, S) = SumFunctionOnSet(f, S)
      BY DEF Pool!SumFunctionOnSet, SumFunctionOnSet, FoldFunctionOnSet, MapThenFoldSet,
             Pool!FoldFunctionOnSet, Pool!MapThenFoldSet
    <3>3. p.totalSupply = SumFunctionOnSet(p.lp, LpHolder)
      BY <2>2 DEF PoolOk
    <3>4. QED
      BY <3>1, <3>2, <3>3 DEF Pool!LpSupplyIsSumOfBalances
  <2>5. Pool(p)!PoolNeverDrains
    BY <2>2 DEF PoolOk, Lives, Pool!PoolNeverDrains, Pool!Token, Side
  <2>6. QED
    BY <2>3, <2>4, <2>5 DEF p
<1>2. IInv => PoolsAreSound
  BY <1>1 DEF PoolsAreSound
<1>3. QED
  BY <1>2, InvariantHolds, PTL

(* Between calls the router holds exactly what was sent to it past its     *)
(* calls: _swap spends what getAmountsOut quoted to the last unit, and the *)
(* refund of addLiquidityETH is exact.                                     *)
THEOREM RouterHoldsNothing == ASSUME SupplyFits PROVE Spec => []RouterKeepsNothing
<1>1. IInv => RouterKeepsNothing
  BY DEF IInv
<1>2. QED
  BY <1>1, InvariantHolds, PTL

(* WETH's withdraw never fails for want of ETH.                            *)
THEOREM WethBacked == ASSUME SupplyFits PROVE Spec => []WethIsBacked
<1>1. IInv => WethIsBacked
  BY DEF IInv, Funded, Total, WethIsBacked
<1>2. QED
  BY <1>1, InvariantHolds, PTL

(* _calculateOptimalAmounts never asks for more than is desired and keeps  *)
(* the reserves' ratio to the unit; its own check for excess cannot fail.  *)
THEOREM DepositsInRatio == ASSUME SupplyFits PROVE Spec => []DepositsKeepRatio
<1>1. ASSUME IInv, NEW i \in DOMAIN pools, HasLiquidity(pools[i]),
             NEW desired \in [Side -> Deposits]
      PROVE  KeepsRatio(pools[i], desired, OptimalAmounts(pools[i], desired))
  <2>1. balance \in Balances /\ Sound(pools, balance)
    BY <1>1, FundedIsTyped DEF IInv
  <2>2. i \in PoolIds /\ PoolOk(pools[i], i, balance)
    BY <2>1, SoundPool
  <2>3. pools[i].reserve[0] \in Nat \ {0} /\ pools[i].reserve[1] \in Nat \ {0}
    <3>1. pools[i].reserve[0] \in Nat /\ pools[i].reserve[1] \in Nat
      BY <2>1, <2>2, PoolParts
    <3>2. QED
      BY <1>1, <3>1 DEF HasLiquidity, Side
  <2>4. desired \in [Side -> Nat]
    BY RouterAssumption
  <2>5. QED
    BY <2>3, <2>4, OptimalKeepsRatio
<1>2. IInv => DepositsKeepRatio
  BY <1>1 DEF DepositsKeepRatio, KeepsRatio
<1>3. QED
  BY <1>2, InvariantHolds, PTL
=============================================================================
