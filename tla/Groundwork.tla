----------------------------- MODULE Groundwork -----------------------------
(***************************************************************************)
(* Lemmas about numbers and lists that several proofs need.                *)
(*   - SumFunctionOnSet of the community module Functions: the sum of the  *)
(*     entries of a ledger (LP and token balances, stakes, votes) over a   *)
(*     finite set of accounts, or of changes over a set of events.  The    *)
(*     library's induction theorems take an operator as a parameter; the   *)
(*     inductions here are over a SET of good subsets instead, from the    *)
(*     well-foundedness of strict inclusion.                               *)
(*   - Division, wrapping, square root, pro-rata shares and quotes, for    *)
(*     every width and fee: what the invariants of the pools rest on.      *)
(*   - Lists: slice, filter and flattening, by an induction over a set of  *)
(*     good lengths.                                                       *)
(***************************************************************************)
EXTENDS Ledger, Rounding, Lists, SequencesExt, FiniteSets, FiniteSetTheorems, TLAPS

(***************************************************************************)
(* Strong induction over the subsets of a finite set: if every subset is   *)
(* good as soon as all its strict subsets are, then every subset is good.  *)
(***************************************************************************)
LEMMA SubsetInduction ==
  ASSUME NEW S, IsFiniteSet(S), NEW Good,
         ASSUME NEW U \in SUBSET S,
                \A V \in SUBSET U : V # U => V \in Good
         PROVE  U \in Good
  PROVE  \A U \in SUBSET S : U \in Good
<1> DEFINE Bad == (SUBSET S) \ Good
<1>1. SUFFICES ASSUME Bad # {} PROVE FALSE
  OBVIOUS
<1>2. PICK U \in Bad : \A V \in Bad : <<V, U>> \notin StrictSubsetOrdering(S)
  <2>1. IsWellFoundedOn(StrictSubsetOrdering(S), SUBSET S)
    BY FS_StrictSubsetOrderingWellFounded, FS_FiniteSubsetsOfFinite
  <2>2. Bad \subseteq SUBSET S
    OBVIOUS
  <2> HIDE DEF Bad
  <2>3. QED
    BY <1>1, <2>1, <2>2, WFMin
<1>3. \A V \in SUBSET U : V # U => V \in Good
  <2>1. SUFFICES ASSUME NEW V \in SUBSET U, V # U, V \notin Good PROVE FALSE
    OBVIOUS
  <2>2. <<V, U>> \in StrictSubsetOrdering(S)
    BY <2>1 DEF StrictSubsetOrdering
  <2>3. QED
    BY <1>2, <2>1, <2>2
<1>4. QED
  BY <1>3

-----------------------------------------------------------------------------
(***************************************************************************)
(* The fold behind SumFunctionOnSet removes one chosen element at a time.  *)
(* Removes(g, f, U) says that g is the function on the subsets of U that   *)
(* the fold computes with; Solution(f, U) is the fold's own choice of it.  *)
(***************************************************************************)
Pick(s) == CHOOSE x \in s : TRUE

Removes(g, f, U) ==
  g = [s \in SUBSET U |-> IF s = {} THEN 0 ELSE f[Pick(s)] + g[s \ {Pick(s)}]]

Solution(f, U) == CHOOSE g : Removes(g, f, U)

LEMMA SumIsSolution ==
  ASSUME NEW f, NEW U
  PROVE  SumFunctionOnSet(f, U) = Solution(f, U)[U]
BY DEF SumFunctionOnSet, FoldFunctionOnSet, MapThenFoldSet,
       Solution, Removes, Pick

LEMMA PickIn == ASSUME NEW s, s # {} PROVE Pick(s) \in s
BY DEF Pick

(* Two functions computed by the fold agree wherever both are defined. *)
LEMMA SolutionsAgree ==
  ASSUME NEW U, NEW V \in SUBSET U, IsFiniteSet(V), NEW f, NEW g, NEW h,
         Removes(g, f, U), Removes(h, f, V)
  PROVE  \A s \in SUBSET V : g[s] = h[s]
<1> DEFINE Same == {s \in SUBSET V : g[s] = h[s]}
<1>1. ASSUME NEW s \in SUBSET V, \A r \in SUBSET s : r # s => r \in Same
      PROVE  s \in Same
  <2>1. CASE s = {}
    BY <2>1 DEF Removes
  <2>2. CASE s # {}
    <3>1. Pick(s) \in s
      BY <2>2, PickIn
    <3>2. s \ {Pick(s)} \in Same
      BY <1>1, <3>1
    <3>3. g[s] = f[Pick(s)] + g[s \ {Pick(s)}]
      BY <2>2 DEF Removes
    <3>4. h[s] = f[Pick(s)] + h[s \ {Pick(s)}]
      BY <2>2 DEF Removes
    <3>5. QED
      BY <3>2, <3>3, <3>4
  <2>3. QED
    BY <2>1, <2>2
<1>2. \A s \in SUBSET V : s \in Same
  <2> HIDE DEF Same
  <2> QED BY <1>1, SubsetInduction
<1>3. QED
  BY <1>2

(* The recursion of the fold has a solution on every finite set. *)
LEMMA SolutionExists ==
  ASSUME NEW S, IsFiniteSet(S), NEW f
  PROVE  \A U \in SUBSET S : Removes(Solution(f, U), f, U)
<1> DEFINE Solved == {U \in SUBSET S : Removes(Solution(f, U), f, U)}
<1>1. ASSUME NEW U \in SUBSET S, \A V \in SUBSET U : V # U => V \in Solved
      PROVE  U \in Solved
  <2> DEFINE Rest(s) == s \ {Pick(s)}
             Value(V) == Solution(f, V)[V]
             g == [s \in SUBSET U |->
                     IF s = {} THEN 0 ELSE f[Pick(s)] + Value(Rest(s))]
  <2>1. \A s \in SUBSET U : s # {} => g[Rest(s)] = Value(Rest(s))
    <3>1. SUFFICES ASSUME NEW s \in SUBSET U, s # {}
                   PROVE  g[Rest(s)] = Value(Rest(s))
      OBVIOUS
    <3> DEFINE V == Rest(s)
    <3>2. V \in SUBSET U /\ V # U
      BY <3>1, PickIn
    <3>3. Removes(Solution(f, V), f, V)
      BY <1>1, <3>2
    <3>4. CASE V = {}
      <4>1. Solution(f, V)[{}] = 0
        BY <3>3, <3>4 DEF Removes
      <4>2. QED
        BY <3>4, <4>1
    <3>5. CASE V # {}
      <4>1. Rest(V) \in SUBSET V /\ Rest(V) # U /\ Rest(V) \in SUBSET U
        BY <3>2, <3>5, PickIn
      <4>2. Removes(Solution(f, Rest(V)), f, Rest(V))
        BY <1>1, <4>1
      <4>3. IsFiniteSet(Rest(V))
        BY <4>1, FS_Subset
      <4>4. Solution(f, V)[Rest(V)] = Value(Rest(V))
        BY <3>3, <4>1, <4>2, <4>3, SolutionsAgree
      <4>5. Value(V) = f[Pick(V)] + Solution(f, V)[Rest(V)]
        BY <3>3, <3>5 DEF Removes
      <4>6. QED
        BY <3>2, <3>5, <4>4, <4>5
    <3>6. QED
      BY <3>4, <3>5
  <2>2. Removes(g, f, U)
    BY <2>1 DEF Removes
  <2>3. QED
    BY <2>2 DEF Solution
<1>2. \A U \in SUBSET S : U \in Solved
  <2> HIDE DEF Solved
  <2> QED BY <1>1, SubsetInduction
<1>3. QED
  BY <1>2

-----------------------------------------------------------------------------
(* The sum over no account is 0. *)
THEOREM SumEmpty == ASSUME NEW f PROVE SumFunctionOnSet(f, {}) = 0
BY DEF SumFunctionOnSet, FoldFunctionOnSet, MapThenFoldSet

(* The fold's own recursion, for the element it picks. *)
LEMMA SumRemovesPick ==
  ASSUME NEW S, IsFiniteSet(S), NEW f, S # {}
  PROVE  SumFunctionOnSet(f, S)
           = f[Pick(S)] + SumFunctionOnSet(f, S \ {Pick(S)})
<1> DEFINE R == S \ {Pick(S)}
<1>1. R \in SUBSET S /\ IsFiniteSet(R)
  BY FS_Subset
<1>2. Removes(Solution(f, S), f, S) /\ Removes(Solution(f, R), f, R)
  BY <1>1, SolutionExists
<1>3. \A s \in SUBSET R : Solution(f, S)[s] = Solution(f, R)[s]
  <2> HIDE DEF R
  <2> QED BY <1>1, <1>2, SolutionsAgree
<1>4. Solution(f, S)[S] = f[Pick(S)] + Solution(f, S)[R]
  BY <1>2 DEF Removes
<1>5. QED
  BY <1>3, <1>4, SumIsSolution

(* A sum of integers is an integer, a sum of naturals is a natural. *)
LEMMA SumType ==
  ASSUME NEW S, IsFiniteSet(S), NEW f, NEW T, T \in {Nat, Int},
         \A x \in S : f[x] \in T
  PROVE  SumFunctionOnSet(f, S) \in T
<1> DEFINE Typed == {U \in SUBSET S : SumFunctionOnSet(f, U) \in T}
<1>1. ASSUME NEW U \in SUBSET S, \A V \in SUBSET U : V # U => V \in Typed
      PROVE  U \in Typed
  <2>1. CASE U = {}
    BY <2>1, SumEmpty
  <2>2. CASE U # {}
    <3>1. Pick(U) \in U /\ IsFiniteSet(U)
      BY <2>2, PickIn, FS_Subset
    <3>2. SumFunctionOnSet(f, U)
            = f[Pick(U)] + SumFunctionOnSet(f, U \ {Pick(U)})
      BY <2>2, <3>1, SumRemovesPick
    <3>3. SumFunctionOnSet(f, U \ {Pick(U)}) \in T
      BY <1>1, <3>1
    <3>4. f[Pick(U)] \in T
      BY <3>1
    <3>5. QED
      BY <3>2, <3>3, <3>4
  <2>3. QED
    BY <2>1, <2>2
<1>2. \A U \in SUBSET S : U \in Typed
  <2> HIDE DEF Typed
  <2> QED BY <1>1, SubsetInduction
<1>3. QED
  BY <1>2

(* A ledger with nothing in it has the sum 0. *)
THEOREM SumZero ==
  ASSUME NEW S, IsFiniteSet(S), NEW f, \A x \in S : f[x] = 0
  PROVE  SumFunctionOnSet(f, S) = 0
<1> DEFINE Null == {U \in SUBSET S : SumFunctionOnSet(f, U) = 0}
<1>1. ASSUME NEW U \in SUBSET S, \A V \in SUBSET U : V # U => V \in Null
      PROVE  U \in Null
  <2>1. CASE U = {}
    BY <2>1, SumEmpty
  <2>2. CASE U # {}
    <3>1. Pick(U) \in U /\ IsFiniteSet(U)
      BY <2>2, PickIn, FS_Subset
    <3>2. SumFunctionOnSet(f, U)
            = f[Pick(U)] + SumFunctionOnSet(f, U \ {Pick(U)})
      BY <2>2, <3>1, SumRemovesPick
    <3>3. SumFunctionOnSet(f, U \ {Pick(U)}) = 0
      BY <1>1, <3>1
    <3>4. QED
      BY <3>1, <3>2, <3>3
  <2>3. QED
    BY <2>1, <2>2
<1> HIDE DEF Null
<1>2. \A U \in SUBSET S : U \in Null
  BY <1>1, SubsetInduction
<1>3. QED
  BY <1>2 DEF Null

(* Any one entry can be taken out of a sum. *)
THEOREM SumRemove ==
  ASSUME NEW S, IsFiniteSet(S), NEW f, \A y \in S : f[y] \in Int
  PROVE  \A x \in S :
           SumFunctionOnSet(f, S) = f[x] + SumFunctionOnSet(f, S \ {x})
<1> DEFINE Sum(U) == SumFunctionOnSet(f, U)
           Good == {U \in SUBSET S : \A x \in U : Sum(U) = f[x] + Sum(U \ {x})}
<1> HIDE DEF Sum
<1>0. \A U \in SUBSET S : IsFiniteSet(U) /\ Sum(U) \in Int
  BY FS_Subset, SumType DEF Sum
<1>1. ASSUME NEW U \in SUBSET S, \A V \in SUBSET U : V # U => V \in Good
      PROVE  U \in Good
  <2>1. SUFFICES ASSUME NEW x \in U PROVE Sum(U) = f[x] + Sum(U \ {x})
    OBVIOUS
  <2> DEFINE p == Pick(U)
  <2>2. p \in U
    BY PickIn
  <2>3. Sum(U) = f[p] + Sum(U \ {p})
    BY <1>0, SumRemovesPick DEF Sum
  <2> HIDE DEF p
  <2>4. CASE x = p
    BY <2>3, <2>4
  <2>5. CASE x # p
    <3>1. Sum(U \ {p}) = f[x] + Sum((U \ {p}) \ {x})
      <4>1. U \ {p} \in Good /\ x \in U \ {p}
        BY <1>1, <2>2, <2>5
      <4>2. QED
        BY <4>1
    <3>2. Sum(U \ {x}) = f[p] + Sum((U \ {x}) \ {p})
      <4>1. U \ {x} \in Good /\ p \in U \ {x}
        BY <1>1, <2>2, <2>5
      <4>2. QED
        BY <4>1
    <3>3. Sum((U \ {p}) \ {x}) = Sum((U \ {x}) \ {p})
      <4>1. (U \ {p}) \ {x} = (U \ {x}) \ {p}
        OBVIOUS
      <4>2. QED
        BY <4>1
    <3>4. f[x] \in Int /\ f[p] \in Int
      BY <2>2
    <3>5. Sum((U \ {x}) \ {p}) \in Int
      BY <1>0
    <3> HIDE DEF Good
    <3>6. QED
      BY <2>3, <3>1, <3>2, <3>3, <3>4, <3>5
  <2>6. QED
    BY <2>4, <2>5
<1>2. \A U \in SUBSET S : U \in Good
  <2> HIDE DEF Good
  <2> QED BY <1>1, SubsetInduction
<1>3. QED
  BY <1>2 DEF Sum

(* Two ledgers that agree on the accounts of S have the same sum over S. *)
THEOREM SumCongruence ==
  ASSUME NEW S, IsFiniteSet(S), NEW f, NEW g,
         \A x \in S : f[x] = g[x]
  PROVE  SumFunctionOnSet(f, S) = SumFunctionOnSet(g, S)
<1> DEFINE Same == {U \in SUBSET S :
                      SumFunctionOnSet(f, U) = SumFunctionOnSet(g, U)}
<1>1. ASSUME NEW U \in SUBSET S, \A V \in SUBSET U : V # U => V \in Same
      PROVE  U \in Same
  <2>1. CASE U = {}
    BY <2>1, SumEmpty
  <2>2. CASE U # {}
    <3>1. Pick(U) \in U /\ IsFiniteSet(U)
      BY <2>2, PickIn, FS_Subset
    <3>2. SumFunctionOnSet(f, U)
            = f[Pick(U)] + SumFunctionOnSet(f, U \ {Pick(U)})
      BY <2>2, <3>1, SumRemovesPick
    <3>3. SumFunctionOnSet(g, U)
            = g[Pick(U)] + SumFunctionOnSet(g, U \ {Pick(U)})
      BY <2>2, <3>1, SumRemovesPick
    <3>4. U \ {Pick(U)} \in Same
      BY <1>1, <3>1
    <3>5. QED
      BY <3>1, <3>2, <3>3, <3>4
  <2>3. QED
    BY <2>1, <2>2
<1>2. \A U \in SUBSET S : U \in Same
  <2> HIDE DEF Same
  <2> QED BY <1>1, SubsetInduction
<1>3. QED
  BY <1>2

(* The ledger with one entry replaced, kept folded where sums are compared. *)
Put(f, x, v) == [f EXCEPT ![x] = v]

(* Changing one entry changes the sum by as much. *)
THEOREM SumUpdate ==
  ASSUME NEW S, IsFiniteSet(S), NEW f \in [S -> Int], NEW x \in S, NEW v \in Int
  PROVE  SumFunctionOnSet(Put(f, x, v), S)
           = SumFunctionOnSet(f, S) - f[x] + v
<1> DEFINE g == Put(f, x, v)
           R == S \ {x}
<1>0. g[x] = v /\ g \in [S -> Int] /\ (\A y \in R : g[y] = f[y])
  BY DEF Put
<1> HIDE DEF g
<1>1. IsFiniteSet(R)
  BY FS_Subset
<1>2. SumFunctionOnSet(g, S) = g[x] + SumFunctionOnSet(g, R)
  BY <1>0, SumRemove
<1>3. SumFunctionOnSet(f, S) = f[x] + SumFunctionOnSet(f, R)
  BY SumRemove
<1>4. SumFunctionOnSet(g, R) = SumFunctionOnSet(f, R)
  BY <1>0, <1>1, SumCongruence
<1>5. SumFunctionOnSet(f, R) \in Int
  BY <1>1, SumType
<1>6. QED
  BY <1>0, <1>2, <1>3, <1>4, <1>5 DEF g

(* No entry, and no two different entries together, exceed the sum. *)
THEOREM SumBounds ==
  ASSUME NEW S, IsFiniteSet(S), NEW f \in [S -> Nat]
  PROVE  /\ SumFunctionOnSet(f, S) \in Nat
         /\ \A x \in S : f[x] <= SumFunctionOnSet(f, S)
         /\ \A x, y \in S : x # y => f[x] + f[y] <= SumFunctionOnSet(f, S)
<1>1. SumFunctionOnSet(f, S) \in Nat
  BY SumType
<1>2. ASSUME NEW x \in S
      PROVE  /\ SumFunctionOnSet(f, S \ {x}) \in Nat
             /\ SumFunctionOnSet(f, S) = f[x] + SumFunctionOnSet(f, S \ {x})
             /\ f[x] \in Nat
  <2>1. IsFiniteSet(S \ {x})
    BY FS_Subset
  <2>2. SumFunctionOnSet(f, S \ {x}) \in Nat
    BY <2>1, SumType
  <2>3. \A y \in S : f[y] \in Int
    OBVIOUS
  <2>4. QED
    BY <2>2, <2>3, SumRemove
<1>3. ASSUME NEW x \in S, NEW y \in S, x # y
      PROVE  f[x] + f[y] <= SumFunctionOnSet(f, S)
  <2>1. IsFiniteSet(S \ {x}) /\ IsFiniteSet((S \ {x}) \ {y})
    BY FS_Subset
  <2>2. SumFunctionOnSet(f, S \ {x})
          = f[y] + SumFunctionOnSet(f, (S \ {x}) \ {y})
    BY <1>3, <2>1, SumRemove
  <2>3. SumFunctionOnSet(f, (S \ {x}) \ {y}) \in Nat
    BY <2>1, SumType
  <2>4. QED
    BY <1>2, <2>2, <2>3
<1>4. ASSUME NEW x \in S PROVE f[x] <= SumFunctionOnSet(f, S)
  <2>1. PICK rest \in Nat : SumFunctionOnSet(f, S) = f[x] + rest
    BY <1>2, <1>4
  <2>2. f[x] \in Nat
    BY <1>2, <1>4
  <2>3. QED
    BY <2>1, <2>2
<1>5. QED
  BY <1>1, <1>3, <1>4

-----------------------------------------------------------------------------
(* A credit adds to the total, a debit takes from it, and a transfer the   *)
(* sender can cover leaves it and stays within the naturals.               *)
THEOREM SumCredit ==
  ASSUME NEW S, IsFiniteSet(S), NEW f \in [S -> Nat], NEW a \in S, NEW x \in Nat
  PROVE  /\ Credit(f, a, x) \in [S -> Nat]
         /\ SumFunctionOnSet(Credit(f, a, x), S) = SumFunctionOnSet(f, S) + x
<1>1. f \in [S -> Int] /\ f[a] + x \in Int /\ f[a] \in Nat
  OBVIOUS
<1>2. Credit(f, a, x) = Put(f, a, f[a] + x)
  BY DEF Credit, Put
<1>3. SumFunctionOnSet(Put(f, a, f[a] + x), S)
        = SumFunctionOnSet(f, S) - f[a] + (f[a] + x)
  BY <1>1, SumUpdate
<1>4. SumFunctionOnSet(f, S) \in Nat
  BY SumBounds
<1>5. Credit(f, a, x) \in [S -> Nat]
  BY <1>1 DEF Credit
<1>6. QED
  BY <1>1, <1>2, <1>3, <1>4, <1>5

THEOREM SumDebit ==
  ASSUME NEW S, IsFiniteSet(S), NEW f \in [S -> Nat], NEW a \in S, NEW x \in Nat,
         Covers(f, a, x)
  PROVE  /\ Debit(f, a, x) \in [S -> Nat]
         /\ SumFunctionOnSet(Debit(f, a, x), S) = SumFunctionOnSet(f, S) - x
<1>1. f \in [S -> Int] /\ f[a] - x \in Int /\ f[a] \in Nat /\ f[a] - x \in Nat
  BY DEF Covers
<1>2. Debit(f, a, x) = Put(f, a, f[a] - x)
  BY DEF Debit, Put
<1>3. SumFunctionOnSet(Put(f, a, f[a] - x), S)
        = SumFunctionOnSet(f, S) - f[a] + (f[a] - x)
  BY <1>1, SumUpdate
<1>4. SumFunctionOnSet(f, S) \in Nat
  BY SumBounds
<1>5. Debit(f, a, x) \in [S -> Nat]
  BY <1>1 DEF Debit
<1>6. QED
  BY <1>1, <1>2, <1>3, <1>4, <1>5

THEOREM SumTransfer ==
  ASSUME NEW S, IsFiniteSet(S), NEW f \in [S -> Nat],
         NEW a \in S, NEW b \in S, NEW x \in Nat, Covers(f, a, x)
  PROVE  /\ Transfer(f, a, b, x) \in [S -> Nat]
         /\ SumFunctionOnSet(Transfer(f, a, b, x), S) = SumFunctionOnSet(f, S)
<1> DEFINE g == Debit(f, a, x)
<1>1. g \in [S -> Nat] /\ SumFunctionOnSet(g, S) = SumFunctionOnSet(f, S) - x
  BY SumDebit
<1> HIDE DEF g
<1>2. /\ Credit(g, b, x) \in [S -> Nat]
      /\ SumFunctionOnSet(Credit(g, b, x), S) = SumFunctionOnSet(g, S) + x
  BY <1>1, SumCredit
<1>3. SumFunctionOnSet(f, S) \in Nat
  BY SumBounds
<1>4. QED
  BY <1>1, <1>2, <1>3 DEF Transfer, g

(* What lies outside the support of a function does not count.             *)
THEOREM SumOnSupport ==
  ASSUME NEW S, IsFiniteSet(S), NEW T \in SUBSET S, NEW f, \A x \in S : f[x] \in Int,
         \A x \in S \ T : f[x] = 0
  PROVE  SumFunctionOnSet(f, S) = SumFunctionOnSet(f, T)
<1> DEFINE Good == {U \in SUBSET S : SumFunctionOnSet(f, U) = SumFunctionOnSet(f, U \cap T)}
<1>1. ASSUME NEW U \in SUBSET S, \A V \in SUBSET U : V # U => V \in Good
      PROVE  U \in Good
  <2>1. CASE U \subseteq T
    <3>1. U \cap T = U
      BY <2>1
    <3>2. QED
      BY <3>1
  <2>2. CASE \E x \in U : x \notin T
    <3>1. PICK x \in U : x \notin T
      BY <2>2
    <3>2. IsFiniteSet(U) /\ \A y \in U : f[y] \in Int
      BY FS_Subset
    <3>3. SumFunctionOnSet(f, U) = f[x] + SumFunctionOnSet(f, U \ {x})
      BY <3>2, SumRemove
    <3>4. SumFunctionOnSet(f, U \ {x}) = SumFunctionOnSet(f, (U \ {x}) \cap T)
      BY <1>1
    <3>5. (U \ {x}) \cap T = U \cap T
      BY <3>1
    <3>6. f[x] = 0 /\ IsFiniteSet(U \cap T)
      BY <3>1, <3>2, FS_Subset
    <3>7. SumFunctionOnSet(f, U \cap T) \in Int
      BY <3>6, SumType
    <3>8. SumFunctionOnSet(f, U \ {x}) = SumFunctionOnSet(f, U \cap T)
      BY <3>4, <3>5, Zenon
    <3>9. SumFunctionOnSet(f, U) = SumFunctionOnSet(f, U \cap T)
      BY <3>3, <3>6, <3>7, <3>8
    <3>10. QED
      BY <3>9
  <2>3. QED
    BY <2>1, <2>2
<1>2. \A U \in SUBSET S : U \in Good
  <2> HIDE DEF Good
  <2> QED BY <1>1, SubsetInduction
<1>3. S \cap T = T
  OBVIOUS
<1>4. QED
  BY <1>2, <1>3

-----------------------------------------------------------------------------
(* Euclid's division: what \div returns and bounds. *)
LEMMA DivBounds ==
  ASSUME NEW a \in Nat, NEW b \in Nat \ {0}
  PROVE  /\ a \div b \in Nat
         /\ (a \div b) * b <= a
         /\ a < (a \div b + 1) * b
OBVIOUS

LEMMA WrapBelow ==
  ASSUME NEW x \in Nat, NEW m \in Nat
  PROVE  /\ x % (m + 1) \in 0 .. m
         /\ x % (m + 1) <= x
         /\ x <= m => x % (m + 1) = x
OBVIOUS

LEMMA ProductMonotone ==
  ASSUME NEW a \in Nat, NEW b \in Nat, NEW c \in Nat, NEW d \in Nat,
         a <= c, b <= d
  PROVE  a * b <= c * d
OBVIOUS

(* A pro-rata part, as the two facts every argument about it uses.         *)
LEMMA ProRataBounds ==
  ASSUME NEW x \in Nat, NEW whole \in Nat, NEW total \in Nat \ {0}
  PROVE  /\ ProRata(x, whole, total) \in Nat
         /\ ProRata(x, whole, total) * total <= x * whole
         /\ x <= total => ProRata(x, whole, total) <= whole
         /\ x < total /\ whole > 0 => ProRata(x, whole, total) < whole
<1> DEFINE q == ProRata(x, whole, total)
<1>1. x * whole \in Nat
  OBVIOUS
<1>2. q \in Nat /\ q * total <= x * whole
  BY <1>1, DivBounds DEF ProRata
<1> HIDE DEF q
<1>3. ASSUME x <= total, q > whole PROVE FALSE
  <2>1. (whole + 1) * total <= q * total
    BY <1>2, <1>3, ProductMonotone
  <2>2. x * whole <= total * whole
    BY <1>3, ProductMonotone
  <2>3. (whole + 1) * total = total * whole + total
    OBVIOUS
  <2>4. QED
    BY <1>1, <1>2, <2>1, <2>2, <2>3
<1>4. ASSUME x < total, whole > 0, q >= whole PROVE FALSE
  <2>1. whole * total <= q * total
    BY <1>2, <1>4, ProductMonotone
  <2>2. (x + 1) * whole <= total * whole
    BY <1>4, ProductMonotone
  <2>3. (x + 1) * whole = x * whole + whole
    OBVIOUS
  <2>4. QED
    BY <1>1, <1>2, <1>4, <2>1, <2>2, <2>3
<1>5. QED
  BY <1>2, <1>3, <1>4 DEF q

(* What a swap pays: less than the whole output reserve, and so little     *)
(* that the product of the reserves does not fall.                         *)
LEMMA FeeFits ==
  ASSUME NEW FeeNum \in Nat \ {0}, NEW FeeDenom \in Nat, FeeNum <= FeeDenom,
         NEW MaxUint128 \in Nat, NEW MaxUint256 \in Nat,
         2 * FeeDenom * MaxUint128 <= MaxUint256,
         NEW r \in 1 .. MaxUint128, NEW x \in 1 .. MaxUint128
  PROVE  /\ r * FeeDenom + x * FeeNum <= MaxUint256
         /\ x * FeeNum <= MaxUint256 /\ r * FeeDenom <= MaxUint256
<1> DEFINE fee == x * FeeNum
<1>1. fee \in Nat \ {0} /\ r * FeeDenom \in Nat \ {0}
  OBVIOUS
<1>2. fee <= x * FeeDenom /\ x * FeeDenom <= MaxUint128 * FeeDenom
  BY ProductMonotone
<1>3. r * FeeDenom <= MaxUint128 * FeeDenom
  BY ProductMonotone
<1>4. 2 * FeeDenom * MaxUint128 = MaxUint128 * FeeDenom + MaxUint128 * FeeDenom
  OBVIOUS
<1>5. MaxUint128 * FeeDenom \in Nat /\ x * FeeDenom \in Nat
  OBVIOUS
<1>6. QED
  BY <1>1, <1>2, <1>3, <1>4, <1>5

LEMMA PaidBounds ==
  ASSUME NEW FeeNum \in Nat \ {0}, NEW FeeDenom \in Nat, FeeNum <= FeeDenom,
         NEW r \in Nat \ {0}, NEW s \in Nat \ {0}, NEW x \in Nat \ {0},
         NEW num \in Nat, num <= (x * FeeNum) * s,
         NEW out, out = num \div (r * FeeDenom + x * FeeNum)
  PROVE  /\ out \in Nat
         /\ out < s
         /\ (r + x) * (s - out) >= r * s
<1> DEFINE fee == x * FeeNum
           den == r * FeeDenom + fee
<1>1. fee \in Nat \ {0} /\ r * FeeDenom \in Nat \ {0} /\ fee * s \in Nat
  OBVIOUS
<1>2. fee <= x * FeeDenom
  BY ProductMonotone
<1>3. den \in Nat \ {0} /\ fee < den
  BY <1>1
<1>4. out \in Nat /\ out * den <= fee * s
  <2> HIDE DEF den
  <2>1. out = num \div den
    BY DEF den
  <2>2. out \in Nat /\ out * den <= num
    BY <1>3, <2>1, DivBounds
  <2>3. out * den \in Nat
    BY <1>3, <2>2
  <2>4. QED
    BY <1>1, <2>2, <2>3
<1>5. out < s
  <2>1. SUFFICES ASSUME out >= s PROVE FALSE
    BY <1>4
  <2>2. s * (fee + 1) <= out * den
    BY <1>1, <1>3, <1>4, <2>1, ProductMonotone
  <2>3. s * (fee + 1) = fee * s + s
    BY <1>1
  <2>4. out * den \in Nat
    BY <1>3, <1>4
  <2>5. QED
    BY <1>1, <1>4, <2>2, <2>3, <2>4
<1>6. out * r <= x * (s - out)
  <2>1. out * den = (out * r) * FeeDenom + out * fee
    BY <1>4
  <2>2. fee * s - out * fee = fee * (s - out)
    BY <1>1, <1>4
  <2>3. (out * r) * FeeDenom <= fee * (s - out)
    <3>1. out * fee \in Nat /\ (out * r) * FeeDenom \in Nat /\ fee * (s - out) \in Int
      BY <1>1, <1>4
    <3>2. QED
      BY <1>1, <1>4, <2>1, <2>2, <3>1
  <2>4. fee * (s - out) <= (x * FeeDenom) * (s - out)
    BY <1>1, <1>2, <1>4, <1>5, ProductMonotone
  <2>5. (x * FeeDenom) * (s - out) = (x * (s - out)) * FeeDenom
    BY <1>4
  <2> DEFINE lhs == out * r
             rhs == x * (s - out)
  <2>6. lhs \in Nat /\ rhs \in Nat
    BY <1>4, <1>5
  <2>7. lhs * FeeDenom <= rhs * FeeDenom
    <3>1. fee * (s - out) \in Int /\ lhs * FeeDenom \in Int /\ rhs * FeeDenom \in Int
      BY <1>1, <1>4, <2>6
    <3>2. QED
      BY <2>3, <2>4, <2>5, <3>1
  <2> HIDE DEF lhs, rhs
  <2>8. lhs <= rhs
    <3>1. SUFFICES ASSUME rhs + 1 <= lhs PROVE FALSE
      BY <2>6
    <3>2. (rhs + 1) * FeeDenom <= lhs * FeeDenom
      BY <2>6, <3>1, ProductMonotone
    <3>3. (rhs + 1) * FeeDenom = rhs * FeeDenom + FeeDenom
      BY <2>6
    <3>4. rhs * FeeDenom \in Nat /\ lhs * FeeDenom \in Nat /\ FeeDenom > 0
      BY <2>6
    <3>5. QED
      BY <2>7, <3>2, <3>3, <3>4
  <2>9. QED
    BY <2>8 DEF lhs, rhs
<1>7. (r + x) * (s - out) >= r * s
  <2>1. (r + x) * (s - out) = r * s - out * r + x * (s - out)
    BY <1>4
  <2>2. r * s \in Nat /\ out * r \in Nat /\ x * (s - out) \in Int
    BY <1>4
  <2>3. QED
    BY <1>6, <2>1, <2>2
<1>8. QED
  BY <1>4, <1>5, <1>7

(* Sqrt is the rounded-down square root: the least y whose successor's     *)
(* square exceeds x exists, by the well-foundedness of strict inclusion on *)
(* the intervals 0 .. y.                                                   *)
LEMMA SqrtBounds ==
  ASSUME NEW x \in Nat
  PROVE  /\ Sqrt(x) \in 0 .. x
         /\ Sqrt(x) * Sqrt(x) <= x
         /\ x < (Sqrt(x) + 1) * (Sqrt(x) + 1)
<1> DEFINE Above(y) == x < (y + 1) * (y + 1)
           Intervals == {I \in SUBSET (0 .. x) :
                           \E y \in 0 .. x : I = 0 .. y /\ Above(y)}
<1>1. 0 .. x \in Intervals
  <2>1. (x + 1) * (x + 1) = x * x + 2 * x + 1 /\ x * x >= 0
    OBVIOUS
  <2>2. QED
    BY <2>1
<1>2. PICK I \in Intervals :
             \A J \in Intervals : <<J, I>> \notin StrictSubsetOrdering(0 .. x)
  <2>1. IsFiniteSet(0 .. x)
    BY FS_Interval
  <2>2. IsWellFoundedOn(StrictSubsetOrdering(0 .. x), SUBSET (0 .. x))
    BY <2>1, FS_StrictSubsetOrderingWellFounded, FS_FiniteSubsetsOfFinite
  <2>3. Intervals \subseteq SUBSET (0 .. x)
    OBVIOUS
  <2> HIDE DEF Intervals
  <2>4. QED
    BY <1>1, <2>2, <2>3, WFMin
<1>3. PICK y \in 0 .. x : I = 0 .. y /\ Above(y)
  BY <1>2
<1>4. y * y <= x
  <2>1. CASE y = 0
    BY <2>1
  <2>2. CASE y > 0
    <3>1. SUFFICES ASSUME y * y > x PROVE FALSE
      OBVIOUS
    <3>2. y - 1 \in 0 .. x /\ Above(y - 1)
      <4>1. (y - 1) + 1 = y
        OBVIOUS
      <4>2. QED
        BY <2>2, <3>1, <4>1
    <3>3. 0 .. (y - 1) \in SUBSET (0 .. x) /\ 0 .. (y - 1) \subseteq I /\ y \in I /\ y \notin 0 .. (y - 1)
      BY <1>3, <2>2
    <3> HIDE DEF Above
    <3>4. 0 .. (y - 1) \in Intervals
      BY <3>2, <3>3
    <3>5. <<0 .. (y - 1), I>> \in StrictSubsetOrdering(0 .. x)
      BY <1>2, <3>3 DEF StrictSubsetOrdering
    <3>6. QED
      BY <1>2, <3>4, <3>5
  <2>3. QED
    BY <2>1, <2>2
<1>5. QED
  BY <1>3, <1>4 DEF Sqrt

-----------------------------------------------------------------------------
(* Sequences: the first n, what is left without some, and both's order.    *)
Distinct(seq) == \A i, j \in 1..Len(seq) : seq[i] = seq[j] => i = j

(* Induction on natural numbers, for a set of them. *)
LEMMA NatUp ==
  ASSUME NEW G, 0 \in G, \A n \in Nat : n \in G => n + 1 \in G
  PROVE  \A n \in Nat : n \in G
<1> DEFINE Bad == Nat \ G
<1>1. SUFFICES ASSUME Bad # {} PROVE FALSE
  OBVIOUS
<1>2. PICK m \in Bad : \A n \in Bad : <<n, m>> \notin OpToRel(<, Nat)
  <2>1. Bad \subseteq Nat
    OBVIOUS
  <2> HIDE DEF Bad
  <2>2. QED
    BY <1>1, <2>1, NatLessThanWellFounded, WFMin
<1>3. m \in Nat /\ m # 0 /\ m - 1 \in Nat /\ m - 1 < m /\ (m - 1) + 1 = m
  OBVIOUS
<1>4. m - 1 \in G
  BY <1>2, <1>3 DEF OpToRel
<1>5. QED
  BY <1>3, <1>4

(* A set of natural numbers that is not empty has a least one. *)
LEMMA LeastExists ==
  ASSUME NEW S \in SUBSET Nat, S # {}
  PROVE  \E m \in S : \A n \in S : m <= n
<1>1. PICK m \in S : \A n \in S : <<n, m>> \notin OpToRel(<, Nat)
  BY NatLessThanWellFounded, WFMin
<1>2. ASSUME NEW n \in S PROVE m <= n
  <2>1. m \in Nat /\ n \in Nat /\ ~(n < m)
    BY <1>1 DEF OpToRel
  <2>2. QED
    BY <2>1
<1>3. QED
  BY <1>2

(* slice(0, n): the first n in their order, none twice if none was. *)
LEMMA FirstOfIs ==
  ASSUME NEW T, NEW seq \in Seq(T), NEW n \in Nat
  PROVE  /\ FirstOf(seq, n) \in Seq(T)
         /\ Len(FirstOf(seq, n)) = IF Len(seq) < n THEN Len(seq) ELSE n
         /\ \A i \in 1..Len(FirstOf(seq, n)) : FirstOf(seq, n)[i] = seq[i]
         /\ Distinct(seq) => Distinct(FirstOf(seq, n))
<1> DEFINE k == IF Len(seq) < n THEN Len(seq) ELSE n
<1>1. k \in Nat /\ k <= Len(seq) /\ k <= n /\ Len(seq) \in Nat
  OBVIOUS
<1> HIDE DEF k
<1>2. /\ SubSeq(seq, 1, k) \in Seq(T) /\ Len(SubSeq(seq, 1, k)) = k
      /\ \A i \in 1..k : SubSeq(seq, 1, k)[i] = seq[i]
  BY <1>1
<1>3. FirstOf(seq, n) = SubSeq(seq, 1, k)
  BY DEF FirstOf, k
<1>4. Distinct(seq) => Distinct(SubSeq(seq, 1, k))
  BY <1>1, <1>2 DEF Distinct
<1>5. QED
  BY <1>2, <1>3, <1>4 DEF k

(* The function behind Without, up to n. *)
KeptUpTo(g, n, seq, S) ==
  g = [i \in 0..n |-> IF i = 0 THEN <<>>
                      ELSE IF seq[i] \in S THEN g[i - 1] ELSE Append(g[i - 1], seq[i])]

(* What the filter returns is the last value of its function. *)
LEMMA WithoutIsKept ==
  ASSUME NEW seq, NEW S
  PROVE  Without(seq, S) = (CHOOSE g : KeptUpTo(g, Len(seq), seq, S))[Len(seq)]
BY DEF Without, KeptUpTo

(* The function exists for every length, by induction on it. *)
LEMMA KeptExists ==
  ASSUME NEW seq, NEW S
  PROVE  \A n \in Nat : \E g : KeptUpTo(g, n, seq, S)
<1> DEFINE G == {n \in Nat : \E g : KeptUpTo(g, n, seq, S)}
<1>1. 0 \in G
  <2>1. KeptUpTo([i \in 0..0 |-> <<>>], 0, seq, S)
    BY DEF KeptUpTo
  <2>2. QED
    BY <2>1
<1>2. ASSUME NEW n \in Nat, n \in G PROVE n + 1 \in G
  <2>1. PICK g : KeptUpTo(g, n, seq, S)
    BY <1>2
  <2> DEFINE last == IF seq[n + 1] \in S THEN g[n] ELSE Append(g[n], seq[n + 1])
             h == [i \in 0..(n + 1) |-> IF i = n + 1 THEN last ELSE g[i]]
  <2>2. \A i \in 0..n : g[i] = IF i = 0 THEN <<>>
                               ELSE IF seq[i] \in S THEN g[i - 1] ELSE Append(g[i - 1], seq[i])
    BY <2>1 DEF KeptUpTo
  <2>3. h[n + 1] = last /\ \A i \in 0..n : h[i] = g[i]
    OBVIOUS
  <2>4. ASSUME NEW i \in 0..(n + 1)
        PROVE  h[i] = IF i = 0 THEN <<>>
                      ELSE IF seq[i] \in S THEN h[i - 1] ELSE Append(h[i - 1], seq[i])
    <3> HIDE DEF h
    <3>1. CASE i = n + 1
      <4>1. i # 0 /\ i - 1 = n /\ n \in 0..n
        BY <3>1
      <4>2. h[i - 1] = g[n]
        BY <2>3, <4>1
      <4>3. QED
        BY <2>3, <3>1, <4>1, <4>2
    <3>2. CASE i \in 0..n
      <4>1. i # 0 => i - 1 \in 0..n
        BY <3>2
      <4>2. i # 0 => h[i - 1] = g[i - 1]
        BY <2>3, <4>1
      <4>3. QED
        BY <2>2, <2>3, <3>2, <4>2
    <3>3. QED
      BY <3>1, <3>2
  <2>5. h = [i \in 0..(n + 1) |-> h[i]]
    OBVIOUS
  <2> HIDE DEF h
  <2>6. KeptUpTo(h, n + 1, seq, S)
    BY <2>4, <2>5 DEF KeptUpTo
  <2>7. QED
    BY <2>6
<1>3. \A n \in Nat : n \in G
  <2> HIDE DEF G
  <2>1. QED
    BY <1>1, <1>2, NatUp
<1>4. QED
  BY <1>3

Once(seq, S) == \A i, j \in 1..Len(seq) : seq[i] = seq[j] /\ seq[i] \notin S => i = j

(* Of the first n, w keeps those that are not in S, in their order. *)
KeepsOf(w, n, seq, S, T) ==
  /\ w \in Seq(T) /\ Len(w) <= n
  /\ \A x : Contains(w, x) <=> x \notin S /\ \E i \in 1..n : seq[i] = x
  /\ Once(seq, S) => Distinct(w)
  /\ n > 0 /\ seq[1] \notin S => Len(w) > 0 /\ w[1] = seq[1]

(* One that is not in S is kept behind the others. *)
LEMMA KeepOne ==
  ASSUME NEW T, NEW seq \in Seq(T), NEW S, NEW n \in Nat, n + 1 <= Len(seq),
         NEW w, KeepsOf(w, n, seq, S, T), seq[n + 1] \notin S
  PROVE  KeepsOf(Append(w, seq[n + 1]), n + 1, seq, S, T)
<1> DEFINE x == seq[n + 1]
           v == Append(w, x)
<1>1. w \in Seq(T) /\ Len(w) \in Nat /\ Len(w) <= n /\ x \in T /\ Len(seq) \in Nat
  BY DEF KeepsOf
<1> HIDE DEF x
<1>2. /\ v \in Seq(T) /\ Len(v) = Len(w) + 1 /\ v[Len(w) + 1] = x
      /\ \A i \in 1..Len(w) : v[i] = w[i]
  BY <1>1
<1> HIDE DEF v
<1>3. \A y : Contains(v, y) <=> Contains(w, y) \/ y = x
  <2>1. ASSUME NEW y, Contains(v, y) PROVE Contains(w, y) \/ y = x
    BY <1>1, <1>2, <2>1 DEF Contains
  <2>2. ASSUME NEW y, Contains(w, y) \/ y = x PROVE Contains(v, y)
    BY <1>1, <1>2, <2>2 DEF Contains
  <2>3. QED
    BY <2>1, <2>2
<1>4. \A y : (\E i \in 1..(n + 1) : seq[i] = y) <=> (\E i \in 1..n : seq[i] = y) \/ y = x
  <2>1. 1..(n + 1) = 1..n \cup {n + 1}
    OBVIOUS
  <2>2. QED
    BY <2>1 DEF x
<1>5. \A y : Contains(v, y) <=> y \notin S /\ \E i \in 1..(n + 1) : seq[i] = y
  BY <1>3, <1>4 DEF KeepsOf, x
<1>6. ASSUME Once(seq, S) PROVE Distinct(v)
  <2>1. ~Contains(w, x)
    <3>1. SUFFICES ASSUME Contains(w, x) PROVE FALSE
      OBVIOUS
    <3>2. PICK i \in 1..n : seq[i] = x
      BY <3>1 DEF KeepsOf
    <3>3. i \in 1..Len(seq) /\ n + 1 \in 1..Len(seq)
      BY <1>1
    <3>4. i = n + 1
      BY <1>6, <3>2, <3>3 DEF Once, x
    <3>5. QED
      BY <3>4
  <2>2. Distinct(w)
    BY <1>6 DEF KeepsOf
  <2>3. ASSUME NEW i \in 1..Len(v), NEW j \in 1..Len(v), v[i] = v[j] PROVE i = j
    <3>1. \A k \in 1..Len(w) : v[k] # x
      BY <1>2, <2>1 DEF Contains
    <3>2. CASE i \in 1..Len(w) /\ j \in 1..Len(w)
      BY <1>2, <2>2, <2>3, <3>2 DEF Distinct
    <3>3. CASE ~(i \in 1..Len(w) /\ j \in 1..Len(w))
      BY <1>1, <1>2, <2>3, <3>1, <3>3
    <3>4. QED
      BY <3>2, <3>3
  <2>4. QED
    BY <2>3 DEF Distinct
<1>7. seq[1] \notin S => Len(v) > 0 /\ v[1] = seq[1]
  <2>1. CASE n > 0
    BY <1>1, <1>2, <2>1 DEF KeepsOf
  <2>2. CASE n = 0
    BY <1>1, <1>2, <2>2 DEF x
  <2>3. QED
    BY <2>1, <2>2
<1>8. QED
  BY <1>1, <1>2, <1>5, <1>6, <1>7 DEF KeepsOf, v, x

(* One that is in S is passed over. *)
LEMMA KeepNone ==
  ASSUME NEW T, NEW seq \in Seq(T), NEW S, NEW n \in Nat, n + 1 <= Len(seq),
         NEW w, KeepsOf(w, n, seq, S, T), seq[n + 1] \in S
  PROVE  KeepsOf(w, n + 1, seq, S, T)
<1>1. 1..(n + 1) = 1..n \cup {n + 1}
  OBVIOUS
<1>2. \A x : x \notin S => ((\E i \in 1..(n + 1) : seq[i] = x) <=> (\E i \in 1..n : seq[i] = x))
  BY <1>1
<1>3. w \in Seq(T) /\ Len(w) \in Nat /\ Len(w) <= n + 1
  BY DEF KeepsOf
<1>4. seq[1] \notin S => n > 0
  OBVIOUS
<1>5. QED
  BY <1>2, <1>3, <1>4 DEF KeepsOf

(* The filter keeps all that is not in S, in order, by induction on n. *)
LEMMA WithoutKeeps ==
  ASSUME NEW T, NEW seq \in Seq(T), NEW S
  PROVE  KeepsOf(Without(seq, S), Len(seq), seq, S, T)
<1> DEFINE g == CHOOSE f : KeptUpTo(f, Len(seq), seq, S)
           G == {n \in Nat : n <= Len(seq) => KeepsOf(g[n], n, seq, S, T)}
<1>1. Len(seq) \in Nat
  OBVIOUS
<1>2. KeptUpTo(g, Len(seq), seq, S)
  BY <1>1, KeptExists
<1> HIDE DEF g
<1>3. \A i \in 0..Len(seq) :
        g[i] = IF i = 0 THEN <<>>
               ELSE IF seq[i] \in S THEN g[i - 1] ELSE Append(g[i - 1], seq[i])
  BY <1>2 DEF KeptUpTo
<1>4. 0 \in G
  <2>1. g[0] = <<>>
    BY <1>1, <1>3
  <2>2. KeepsOf(<<>>, 0, seq, S, T)
    BY DEF KeepsOf, Contains, Distinct
  <2>3. QED
    BY <2>1, <2>2
<1>5. ASSUME NEW n \in Nat, n \in G PROVE n + 1 \in G
  <2>1. SUFFICES ASSUME n + 1 <= Len(seq) PROVE KeepsOf(g[n + 1], n + 1, seq, S, T)
    OBVIOUS
  <2>2. KeepsOf(g[n], n, seq, S, T)
    BY <1>1, <1>5, <2>1
  <2>3. n + 1 \in 0..Len(seq) /\ n + 1 # 0 /\ (n + 1) - 1 = n
    BY <1>1, <2>1
  <2>4. g[n + 1] = IF seq[n + 1] \in S THEN g[n] ELSE Append(g[n], seq[n + 1])
    BY <1>3, <2>3
  <2>5. CASE seq[n + 1] \in S
    BY <2>1, <2>2, <2>4, <2>5, KeepNone
  <2>6. CASE seq[n + 1] \notin S
    BY <2>1, <2>2, <2>4, <2>6, KeepOne
  <2>7. QED
    BY <2>5, <2>6
<1>6. \A n \in Nat : n \in G
  <2> HIDE DEF G
  <2>1. QED
    BY <1>4, <1>5, NatUp
<1>7. KeepsOf(g[Len(seq)], Len(seq), seq, S, T)
  BY <1>1, <1>6
<1>8. QED
  BY <1>7, WithoutIsKept DEF g

(* A function defined by recursion from k on exists, for every length. *)
Recursion(g, k, n, a, H, V) ==
  /\ g \in [k..n -> V]
  /\ \A i \in k..n : g[i] = IF i = k THEN a ELSE H[i][g[i - 1]]

LEMMA RecursionExists ==
  ASSUME NEW V, NEW k \in Nat, NEW a \in V, NEW H \in [Nat -> [V -> V]]
  PROVE  \A n \in Nat : \E g : Recursion(g, k, n, a, H, V)
<1> DEFINE G == {n \in Nat : \E g : Recursion(g, k, n, a, H, V)}
<1>1. 0 \in G
  <2> DEFINE g == [i \in k..0 |-> a]
  <2>1. \A i \in k..0 : i = k
    OBVIOUS
  <2>2. Recursion(g, k, 0, a, H, V)
    BY <2>1 DEF Recursion
  <2>3. QED
    BY <2>2
<1>2. ASSUME NEW n \in Nat, n \in G PROVE n + 1 \in G
  <2>1. PICK g : Recursion(g, k, n, a, H, V)
    BY <1>2
  <2>2. /\ g \in [k..n -> V]
        /\ \A i \in k..n : g[i] = IF i = k THEN a ELSE H[i][g[i - 1]]
    BY <2>1 DEF Recursion
  <2> DEFINE last == IF n + 1 = k THEN a ELSE H[n + 1][g[n]]
             h == [i \in k..(n + 1) |-> IF i = n + 1 THEN last ELSE g[i]]
  <2>3. ASSUME n + 1 \in k..(n + 1) PROVE last \in V
    <3>1. n + 1 # k => n \in k..n
      BY <2>3
    <3>2. n + 1 # k => g[n] \in V
      BY <2>2, <3>1
    <3>3. \A v \in V : H[n + 1][v] \in V
      OBVIOUS
    <3>4. QED
      BY <3>2, <3>3
  <2>4. \A i \in k..(n + 1) : i # n + 1 => i \in k..n
    OBVIOUS
  <2>5. h[n + 1] = last \/ n + 1 \notin k..(n + 1)
    OBVIOUS
  <2>6. \A i \in k..n : h[i] = g[i] /\ i # n + 1 /\ i \in k..(n + 1)
    OBVIOUS
  <2>7. h \in [k..(n + 1) -> V]
    <3> HIDE DEF last
    <3>1. \A i \in k..(n + 1) : (IF i = n + 1 THEN last ELSE g[i]) \in V
      BY <2>2, <2>3, <2>4
    <3>2. QED
      BY <3>1
  <2> HIDE DEF h
  <2>8. ASSUME NEW i \in k..(n + 1) PROVE h[i] = IF i = k THEN a ELSE H[i][h[i - 1]]
    <3>1. CASE i = n + 1
      <4>1. i # k => n \in k..n /\ i - 1 = n
        BY <3>1
      <4>2. i # k => h[i - 1] = g[n]
        BY <2>6, <4>1
      <4>3. h[i] = last
        BY <2>5, <3>1
      <4>4. QED
        BY <3>1, <4>2, <4>3
    <3>2. CASE i # n + 1
      <4>1. i \in k..n
        BY <2>4, <3>2
      <4>2. i # k => i - 1 \in k..n
        BY <4>1
      <4>3. i # k => h[i - 1] = g[i - 1]
        BY <2>6, <4>2
      <4>4. QED
        BY <2>2, <2>6, <4>1, <4>3
    <3>3. QED
      BY <3>1, <3>2
  <2>9. Recursion(h, k, n + 1, a, H, V)
    BY <2>7, <2>8 DEF Recursion
  <2>10. QED
    BY <2>9
<1>3. \A n \in Nat : n \in G
  <2> HIDE DEF G
  <2>1. QED
    BY <1>1, <1>2, NatUp
<1>4. QED
  BY <1>3

(* The function behind FlattenSeq. *)
JoinedUpTo(g, n, seqs) ==
  g = [i \in 1..n |-> IF i = 1 THEN seqs[i] ELSE g[i - 1] \o seqs[i]]

LEMMA FlattenIsJoined ==
  ASSUME NEW seqs, Len(seqs) # 0
  PROVE  FlattenSeq(seqs) = (CHOOSE g : JoinedUpTo(g, Len(seqs), seqs))[Len(seqs)]
BY DEF FlattenSeq, JoinedUpTo

LEMMA JoinedExists ==
  ASSUME NEW T, NEW seqs \in Seq(Seq(T)), Len(seqs) # 0
  PROVE  \E g : JoinedUpTo(g, Len(seqs), seqs) /\ g \in [1..Len(seqs) -> Seq(T)]
<1> DEFINE n == Len(seqs)
           a == seqs[1]
           H == [i \in Nat |-> [v \in Seq(T) |-> IF i \in 1..n THEN v \o seqs[i] ELSE v]]
<1>1. n \in Nat /\ a \in Seq(T) /\ \A i \in 1..n : seqs[i] \in Seq(T)
  OBVIOUS
<1>2. H \in [Nat -> [Seq(T) -> Seq(T)]]
  <2>1. \A i \in Nat : \A v \in Seq(T) : (IF i \in 1..n THEN v \o seqs[i] ELSE v) \in Seq(T)
    BY <1>1
  <2> HIDE DEF n
  <2>2. QED
    BY <2>1
<1>3. \A i \in 1..n : \A v \in Seq(T) : H[i][v] = v \o seqs[i]
  OBVIOUS
<1> HIDE DEF H, n, a
<1>4. PICK g : Recursion(g, 1, n, a, H, Seq(T))
  BY <1>1, <1>2, RecursionExists
<1>5. g \in [1..n -> Seq(T)] /\ \A i \in 1..n : g[i] = IF i = 1 THEN a ELSE H[i][g[i - 1]]
  BY <1>4 DEF Recursion
<1>6. \A i \in 1..n : g[i] = IF i = 1 THEN seqs[i] ELSE g[i - 1] \o seqs[i]
  <2>1. \A i \in 1..n : i # 1 => g[i - 1] \in Seq(T)
    <3>1. \A i \in 1..n : i # 1 => i - 1 \in 1..n
      BY <1>1
    <3>2. QED
      BY <1>5, <3>1
  <2>2. QED
    BY <1>3, <1>5, <2>1 DEF a
<1>7. g = [i \in 1..n |-> IF i = 1 THEN seqs[i] ELSE g[i - 1] \o seqs[i]]
  BY <1>5, <1>6
<1>8. QED
  BY <1>5, <1>7 DEF JoinedUpTo, n

LEMMA ConcatHolds ==
  ASSUME NEW T, NEW v \in Seq(T), NEW w \in Seq(T)
  PROVE  \A x : Contains(v \o w, x) <=> Contains(v, x) \/ Contains(w, x)
<1>1. /\ v \o w \in Seq(T) /\ Len(v \o w) = Len(v) + Len(w)
      /\ Len(v) \in Nat /\ Len(w) \in Nat
      /\ \A i \in 1..Len(v) : (v \o w)[i] = v[i]
      /\ \A i \in 1..Len(w) : (v \o w)[Len(v) + i] = w[i]
  OBVIOUS
<1>2. ASSUME NEW x, Contains(v, x) PROVE Contains(v \o w, x)
  <2>1. PICK i \in 1..Len(v) : v[i] = x
    BY <1>2 DEF Contains
  <2>2. i \in 1..Len(v \o w)
    BY <1>1, <2>1
  <2>3. QED
    BY <1>1, <2>1, <2>2 DEF Contains
<1>3. ASSUME NEW x, Contains(w, x) PROVE Contains(v \o w, x)
  <2>1. PICK i \in 1..Len(w) : w[i] = x
    BY <1>3 DEF Contains
  <2>2. Len(v) + i \in 1..Len(v \o w)
    BY <1>1, <2>1
  <2>3. QED
    BY <1>1, <2>1, <2>2 DEF Contains
<1>4. ASSUME NEW x, Contains(v \o w, x) PROVE Contains(v, x) \/ Contains(w, x)
  <2>1. PICK i \in 1..Len(v \o w) : (v \o w)[i] = x
    BY <1>4 DEF Contains
  <2>2. CASE i <= Len(v)
    <3>1. i \in 1..Len(v)
      BY <1>1, <2>1, <2>2
    <3>2. QED
      BY <1>1, <2>1, <3>1 DEF Contains
  <2>3. CASE ~(i <= Len(v))
    <3>1. i - Len(v) \in 1..Len(w) /\ Len(v) + (i - Len(v)) = i
      BY <1>1, <2>1, <2>3
    <3>2. w[i - Len(v)] = x
      BY <1>1, <2>1, <3>1
    <3>3. QED
      BY <3>1, <3>2 DEF Contains
  <2>4. QED
    BY <2>2, <2>3
<1>5. QED
  BY <1>2, <1>3, <1>4

LEMMA AppendHolds ==
  ASSUME NEW T, NEW v \in Seq(T), NEW e \in T
  PROVE  \A x : Contains(Append(v, e), x) <=> Contains(v, x) \/ x = e
<1>1. /\ Append(v, e) \in Seq(T) /\ Len(Append(v, e)) = Len(v) + 1 /\ Len(v) \in Nat
      /\ Append(v, e)[Len(v) + 1] = e
      /\ \A i \in 1..Len(v) : Append(v, e)[i] = v[i]
  OBVIOUS
<1>2. 1..(Len(v) + 1) = 1..Len(v) \cup {Len(v) + 1}
  BY <1>1
<1>3. QED
  BY <1>1, <1>2 DEF Contains

(* A list of lists, flattened, holds what any of them holds. *)
LEMMA FlattenHolds ==
  ASSUME NEW T, NEW seqs \in Seq(Seq(T))
  PROVE  /\ FlattenSeq(seqs) \in Seq(T)
         /\ \A x : Contains(FlattenSeq(seqs), x)
                     <=> \E i \in 1..Len(seqs) : Contains(seqs[i], x)
<1> DEFINE n == Len(seqs)
<1>1. n \in Nat /\ \A i \in 1..n : seqs[i] \in Seq(T)
  OBVIOUS
<1>2. CASE n = 0
  <2>1. FlattenSeq(seqs) = seqs /\ seqs = <<>>
    BY <1>2 DEF FlattenSeq
  <2>2. <<>> \in Seq(T) /\ \A x : ~Contains(<<>>, x)
    BY DEF Contains
  <2>3. QED
    BY <1>2, <2>1, <2>2
<1>3. CASE n # 0
  <2> DEFINE g == CHOOSE f : JoinedUpTo(f, n, seqs)
  <2>1. FlattenSeq(seqs) = g[n]
    BY <1>3, FlattenIsJoined
  <2>2. JoinedUpTo(g, n, seqs)
    BY <1>3, JoinedExists
  <2> HIDE DEF g
  <2>3. \A i \in 1..n : g[i] = IF i = 1 THEN seqs[i] ELSE g[i - 1] \o seqs[i]
    BY <2>2 DEF JoinedUpTo
  <2> DEFINE Good(m) ==
               /\ g[m] \in Seq(T)
               /\ \A x : Contains(g[m], x) <=> \E i \in 1..m : Contains(seqs[i], x)
             G == {m \in Nat : m \in 1..n => Good(m)}
  <2> HIDE DEF n
  <2>4. 0 \in G
    OBVIOUS
  <2>5. ASSUME NEW m \in Nat, m \in G PROVE m + 1 \in G
    <3>1. SUFFICES ASSUME m + 1 \in 1..n PROVE Good(m + 1)
      OBVIOUS
    <3>2. CASE m = 0
      <4>1. g[m + 1] = seqs[1] /\ 1..(m + 1) = {1}
        BY <2>3, <3>1, <3>2
      <4>2. QED
        BY <1>1, <3>1, <3>2, <4>1
    <3>3. CASE m # 0
      <4>1. Good(m)
        BY <1>1, <2>5, <3>1, <3>3
      <4>2. g[m + 1] = g[m] \o seqs[m + 1] /\ 1..(m + 1) = 1..m \cup {m + 1}
        <5>1. m + 1 # 1 /\ (m + 1) - 1 = m
          BY <3>3
        <5>2. g[m + 1] = g[m] \o seqs[m + 1]
          BY <2>3, <3>1, <5>1
        <5>3. QED
          BY <5>2
      <4>3. seqs[m + 1] \in Seq(T)
        BY <1>1, <3>1
      <4>4. \A x : Contains(g[m + 1], x) <=> Contains(g[m], x) \/ Contains(seqs[m + 1], x)
        BY <4>1, <4>2, <4>3, ConcatHolds
      <4>5. g[m + 1] \in Seq(T)
        BY <4>1, <4>2, <4>3
      <4>6. QED
        BY <4>1, <4>2, <4>4, <4>5
    <3>4. QED
      BY <3>2, <3>3
  <2>6. \A m \in Nat : m \in G
    <3> HIDE DEF G
    <3>1. QED
      BY <2>4, <2>5, NatUp
  <2>7. n \in 1..n /\ n \in Nat
    BY <1>1, <1>3
  <2>8. Good(n)
    BY <2>6, <2>7
  <2>9. QED
    BY <2>1, <2>8 DEF n
<1>4. QED
  BY <1>2, <1>3
=============================================================================
