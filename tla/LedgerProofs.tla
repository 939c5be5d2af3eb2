---------------------------- MODULE LedgerProofs ----------------------------
(***************************************************************************)
(* Sums, for the proofs about money.  The folds of the library are defined *)
(* by recursion over finite sets; what they compute is proved here by      *)
(* induction over the subsets of a finite set, with the set of the subsets *)
(* for which a fact holds in place of the fact.                            *)
(***************************************************************************)
EXTENDS AccountTable, Functions, FiniteSetTheorems, WellFoundedInduction, TLAPS

-----------------------------------------------------------------------------
(* Induction                                                               *)

\* Every set of numbers that holds 0 and what follows its members is Nat.
LEMMA NumbersByInduction ==
    ASSUME NEW P \in SUBSET Nat, 0 \in P, \A n \in P : n + 1 \in P
    PROVE  P = Nat
<1> SUFFICES ASSUME Nat \ P # {} PROVE FALSE
  OBVIOUS
<1> DEFINE Below == {p \in Nat \X Nat : p[1] < p[2]}
<1>1. IsWellFoundedOn(Below, Nat)
  BY NatLessThanWellFounded DEF OpToRel
<1>2. PICK n \in Nat \ P : \A m \in Nat \ P : <<m, n>> \notin Below
  <2> HIDE DEF Below
  <2> QED
    BY <1>1, WFMin
<1>3. n # 0 /\ n - 1 \in Nat
  BY <1>2
<1>4. <<n - 1, n>> \in Below
  BY <1>2, <1>3
<1>5. n - 1 \in P
  BY <1>2, <1>3, <1>4
<1>6. (n - 1) + 1 = n
  BY <1>2
<1> QED
  BY <1>2, <1>5, <1>6

\* A family of subsets of a finite set that has each subset whose own proper
\* subsets it has, has them all.
LEMMA SubsetsByInduction ==
    ASSUME NEW S, IsFiniteSet(S), NEW P,
           \A T \in SUBSET S : (\A U \in SUBSET T : U # T => U \in P) => T \in P
    PROVE  SUBSET S \subseteq P
<1> DEFINE Bad == (SUBSET S) \ P
<1> SUFFICES ASSUME Bad # {} PROVE FALSE
  OBVIOUS
<1>1. IsWellFoundedOn(StrictSubsetOrdering(S), SUBSET S)
  <2>1. FiniteSubsetsOf(S) = SUBSET S
    BY FS_FiniteSubsetsOfFinite
  <2>2. IsWellFoundedOn(StrictSubsetOrdering(S), FiniteSubsetsOf(S))
    BY FS_StrictSubsetOrderingWellFounded
  <2> QED
    BY <2>1, <2>2
<1>2. PICK T \in Bad : \A U \in Bad : <<U, T>> \notin StrictSubsetOrdering(S)
  <2>1. Bad \subseteq SUBSET S
    OBVIOUS
  <2> HIDE DEF Bad
  <2> QED
    BY <1>1, <2>1, WFMin
<1>3. \A U \in SUBSET T : U # T => U \in P
  BY <1>2 DEF StrictSubsetOrdering
<1> QED
  BY <1>2, <1>3

-----------------------------------------------------------------------------
(* The recursion of a sum has a solution, and one only                     *)

\* What the fold takes out of a set first.
Pick(s) == CHOOSE x \in s : TRUE

Summed(g, f, s) == IF s = {} THEN 0 ELSE f[Pick(s)] + g[s \ {Pick(s)}]

IsSum(g, f, S) == g = [s \in SUBSET S |-> Summed(g, f, s)]

\* The sum of f over S is what some solution of the recursion says it is.
LEMMA SumIsSolution ==
    ASSUME NEW f, NEW S
    PROVE  SumFunctionOnSet(f, S) = (CHOOSE g : IsSum(g, f, S))[S]
BY DEF SumFunctionOnSet, FoldFunctionOnSet, MapThenFoldSet, IsSum, Summed, Pick

LEMMA PickFacts ==
    ASSUME NEW S, S # {}
    PROVE  Pick(S) \in S /\ S \ {Pick(S)} \in SUBSET S /\ S \ {Pick(S)} # S
<1>1. Pick(S) \in S
  BY DEF Pick
<1> QED
  BY <1>1

\* Sets of up to n members, for one n after the other.
LEMMA SolutionExists ==
    ASSUME NEW S, IsFiniteSet(S), NEW f, \A x \in S : f[x] \in Int
    PROVE  \E g \in [SUBSET S -> Int] : IsSum(g, f, S)
<1> DEFINE SumUpTo(g, n) == \A s \in SUBSET S : Cardinality(s) <= n => g[s] = Summed(g, f, s)
           P == {n \in Nat : \E g \in [SUBSET S -> Int] : SumUpTo(g, n)}
<1>1. \A s \in SUBSET S : /\ IsFiniteSet(s) /\ Cardinality(s) \in Nat
                          /\ Cardinality(s) = 0 <=> s = {}
                          /\ Cardinality(s) <= Cardinality(S)
  BY FS_Subset, FS_CardinalityType, FS_EmptySet
<1>2. \A s \in SUBSET S : s # {} =>
         /\ s \ {Pick(s)} \in SUBSET S
         /\ Cardinality(s \ {Pick(s)}) = Cardinality(s) - 1
         /\ f[Pick(s)] \in Int
  <2> TAKE s \in SUBSET S
  <2> HAVE s # {}
  <2>1. Pick(s) \in s
    BY PickFacts
  <2>2. Cardinality(s \ {Pick(s)}) = Cardinality(s) - 1
    BY <1>1, <2>1, FS_RemoveElement
  <2> QED
    BY <2>1, <2>2
<1>3. 0 \in P
  <2> DEFINE z == [s \in SUBSET S |-> 0]
  <2>1. z \in [SUBSET S -> Int]
    OBVIOUS
  <2>2. SumUpTo(z, 0)
    BY <1>1 DEF Summed
  <2> HIDE DEF z
  <2> QED
    BY <2>1, <2>2
<1>4. ASSUME NEW n \in P
      PROVE  n + 1 \in P
  <2>1. PICK g \in [SUBSET S -> Int] : SumUpTo(g, n)
    BY <1>4
  <2> DEFINE h == [s \in SUBSET S |-> Summed(g, f, s)]
  <2>2. h \in [SUBSET S -> Int]
    <3>1. ASSUME NEW s \in SUBSET S
          PROVE  Summed(g, f, s) \in Int
      <4>1. CASE s = {}
        BY <4>1 DEF Summed
      <4>2. CASE s # {}
        <5>1. f[Pick(s)] \in Int /\ g[s \ {Pick(s)}] \in Int
          BY <1>2, <4>2
        <5> QED
          BY <4>2, <5>1 DEF Summed
      <4> QED
        BY <4>1, <4>2
    <3> QED
      BY <3>1
  <2>3. \A s \in SUBSET S : Cardinality(s) <= n => h[s] = g[s]
    BY <2>1
  <2>4. ASSUME NEW s \in SUBSET S, Cardinality(s) <= n + 1
        PROVE  h[s] = Summed(h, f, s)
    <3>1. CASE s = {}
      BY <3>1 DEF Summed
    <3>2. CASE s # {}
      <4>1. Cardinality(s \ {Pick(s)}) <= n
        BY <1>1, <1>2, <2>4, <3>2, <1>4
      <4>2. h[s \ {Pick(s)}] = g[s \ {Pick(s)}]
        BY <1>2, <2>3, <3>2, <4>1
      <4> QED
        BY <3>2, <4>2 DEF Summed
    <3> QED
      BY <3>1, <3>2
  <2> HIDE DEF h
  <2> QED
    BY <2>2, <2>4, <1>4
<1>5. P = Nat
  <2> HIDE DEF P
  <2>1. P \in SUBSET Nat
    BY DEF P
  <2> QED
    BY <1>3, <1>4, <2>1, NumbersByInduction
<1>6. PICK g \in [SUBSET S -> Int] : SumUpTo(g, Cardinality(S))
  BY <1>1, <1>5
<1>7. \A s \in SUBSET S : g[s] = Summed(g, f, s)
  BY <1>1, <1>6
<1>8. g = [s \in SUBSET S |-> Summed(g, f, s)]
  BY <1>7
<1> QED
  BY <1>8 DEF IsSum

\* Two solutions agree, also those for a set and for a larger one.
LEMMA SolutionsAgree ==
    ASSUME NEW S, IsFiniteSet(S), NEW R \in SUBSET S, NEW f, NEW g, NEW h,
           IsSum(g, f, S), IsSum(h, f, R)
    PROVE  \A s \in SUBSET R : g[s] = h[s]
<1> DEFINE P == {s \in SUBSET R : g[s] = h[s]}
<1>1. IsFiniteSet(R)
  BY FS_Subset
<1>2. ASSUME NEW T \in SUBSET R, \A U \in SUBSET T : U # T => U \in P
      PROVE  T \in P
  <2>1. g[T] = Summed(g, f, T) /\ h[T] = Summed(h, f, T)
    BY DEF IsSum
  <2>2. CASE T = {}
    BY <2>1, <2>2 DEF Summed
  <2>3. CASE T # {}
    <3>1. T \ {Pick(T)} \in P
      BY <1>2, <2>3, PickFacts
    <3> QED
      BY <2>1, <2>3, <3>1 DEF Summed
  <2> QED
    BY <2>2, <2>3
<1> HIDE DEF P
<1>3. SUBSET R \subseteq P
  BY <1>1, <1>2, SubsetsByInduction
<1> QED
  BY <1>3 DEF P

\* Thus the library's sum obeys the recursion.
LEMMA SumRecursion ==
    ASSUME NEW S, IsFiniteSet(S), NEW f, \A x \in S : f[x] \in Int
    PROVE  /\ SumFunctionOnSet(f, S) \in Int
           /\ S = {} => SumFunctionOnSet(f, S) = 0
           /\ S # {} => SumFunctionOnSet(f, S)
                          = f[Pick(S)] + SumFunctionOnSet(f, S \ {Pick(S)})
<1>1. PICK g : g \in [SUBSET S -> Int] /\ IsSum(g, f, S)
  <2>1. \E g \in [SUBSET S -> Int] : IsSum(g, f, S)
    BY SolutionExists
  <2> QED
    BY <2>1
<1>2. ASSUME NEW R \in SUBSET S
      PROVE  SumFunctionOnSet(f, R) = g[R]
  <2>1. IsFiniteSet(R) /\ \A x \in R : f[x] \in Int
    BY FS_Subset
  <2>2. \E h \in [SUBSET R -> Int] : IsSum(h, f, R)
    BY <2>1, SolutionExists
  <2>3. IsSum(CHOOSE h : IsSum(h, f, R), f, R)
    BY <2>2
  <2>4. g[R] = (CHOOSE h : IsSum(h, f, R))[R]
    BY <1>1, <2>3, SolutionsAgree
  <2> QED
    BY <2>4, SumIsSolution
<1>3. g[S] = Summed(g, f, S) /\ g[S] \in Int
  BY <1>1 DEF IsSum
<1>4. CASE S = {}
  BY <1>2, <1>3, <1>4 DEF Summed
<1>5. CASE S # {}
  <2>1. S \ {Pick(S)} \in SUBSET S
    OBVIOUS
  <2> QED
    BY <1>2, <1>3, <1>5, <2>1 DEF Summed
<1> QED
  BY <1>4, <1>5

-----------------------------------------------------------------------------
(* The laws of sums                                                        *)

\* Any member may be taken out of a sum, not only the one the fold takes.
LEMMA SumTakesOut ==
    ASSUME NEW S, IsFiniteSet(S), NEW f, \A x \in S : f[x] \in Int, NEW x \in S
    PROVE  SumFunctionOnSet(f, S) = f[x] + SumFunctionOnSet(f, S \ {x})
<1> DEFINE sum(s) == SumFunctionOnSet(f, s)
           P == {s \in SUBSET S : \A y \in s : sum(s) = f[y] + sum(s \ {y})}
<1>1. ASSUME NEW s \in SUBSET S
      PROVE  sum(s) \in Int /\ (s # {} => sum(s) = f[Pick(s)] + sum(s \ {Pick(s)}))
  <2>1. IsFiniteSet(s) /\ \A y \in s : f[y] \in Int
    BY FS_Subset
  <2> QED
    BY <2>1, SumRecursion
<1> HIDE DEF sum
<1>2. ASSUME NEW T \in SUBSET S, \A U \in SUBSET T : U # T => U \in P
      PROVE  T \in P
  <2> SUFFICES ASSUME NEW y \in T PROVE sum(T) = f[y] + sum(T \ {y})
    OBVIOUS
  <2> DEFINE p == Pick(T)
             U == T \ {p}
             V == T \ {y}
             W == U \ {y}
  <2>1. p \in T /\ U \in P
    BY <1>2, PickFacts
  <2>2. sum(T) = f[p] + sum(U)
    BY <1>1
  <2>3. CASE y = p
    BY <2>2, <2>3
  <2>4. CASE y # p
    <3>1. y \in U /\ p \in V /\ V \in P /\ W = V \ {p}
      BY <1>2, <2>1, <2>4
    <3>2. sum(U) = f[y] + sum(W)
      BY <2>1, <3>1
    <3>3. sum(V) = f[p] + sum(W)
      BY <3>1
    <3>4. f[y] \in Int /\ f[p] \in Int /\ sum(W) \in Int
      BY <1>1, <2>1
    <3> HIDE DEF p, U, V, W
    <3> QED
      BY <2>2, <3>2, <3>3, <3>4 DEF V
  <2> QED
    BY <2>3, <2>4
<1> HIDE DEF P
<1>3. SUBSET S \subseteq P
  BY <1>2, SubsetsByInduction
<1> QED
  BY <1>3 DEF P, sum

\* The sum depends on the values at the members only.
LEMMA SumOfSame ==
    ASSUME NEW S, IsFiniteSet(S), NEW f, NEW g,
           \A x \in S : f[x] \in Int /\ f[x] = g[x]
    PROVE  SumFunctionOnSet(f, S) = SumFunctionOnSet(g, S)
<1> DEFINE P == {s \in SUBSET S : SumFunctionOnSet(f, s) = SumFunctionOnSet(g, s)}
<1>1. ASSUME NEW T \in SUBSET S, \A U \in SUBSET T : U # T => U \in P
      PROVE  T \in P
  <2>1. IsFiniteSet(T) /\ \A x \in T : f[x] \in Int /\ g[x] \in Int
    BY FS_Subset
  <2>2. CASE T = {}
    BY <2>1, <2>2, SumRecursion
  <2>3. CASE T # {}
    <3>1. T \ {Pick(T)} \in P /\ f[Pick(T)] = g[Pick(T)]
      BY <1>1, <2>3, PickFacts
    <3> QED
      BY <2>1, <2>3, <3>1, SumRecursion
  <2> QED
    BY <2>2, <2>3
<1> HIDE DEF P
<1>2. SUBSET S \subseteq P
  BY <1>1, SubsetsByInduction
<1> QED
  BY <1>2 DEF P

\* Nothing at every member is nothing together.
LEMMA SumOfNothing ==
    ASSUME NEW S, IsFiniteSet(S), NEW f, \A x \in S : f[x] = 0
    PROVE  SumFunctionOnSet(f, S) = 0
<1> DEFINE P == {s \in SUBSET S : SumFunctionOnSet(f, s) = 0}
<1>1. ASSUME NEW T \in SUBSET S, \A U \in SUBSET T : U # T => U \in P
      PROVE  T \in P
  <2>1. IsFiniteSet(T) /\ \A x \in T : f[x] \in Int
    BY FS_Subset
  <2>2. CASE T = {}
    BY <2>1, <2>2, SumRecursion
  <2>3. CASE T # {}
    <3>1. T \ {Pick(T)} \in P /\ f[Pick(T)] = 0
      BY <1>1, <2>3, PickFacts
    <3>2. SumFunctionOnSet(f, T) = f[Pick(T)] + SumFunctionOnSet(f, T \ {Pick(T)})
      BY <2>1, <2>3, SumRecursion
    <3> QED
      BY <3>1, <3>2
  <2> QED
    BY <2>2, <2>3
<1> HIDE DEF P
<1>2. SUBSET S \subseteq P
  BY <1>1, SubsetsByInduction
<1> QED
  BY <1>2 DEF P

LEMMA SumAdds ==
    ASSUME NEW S, IsFiniteSet(S), NEW f, NEW x, x \notin S,
           \A y \in S \cup {x} : f[y] \in Int
    PROVE  SumFunctionOnSet(f, S \cup {x}) = f[x] + SumFunctionOnSet(f, S)
<1>1. IsFiniteSet(S \cup {x}) /\ (S \cup {x}) \ {x} = S
  BY FS_AddElement
<1> QED
  BY <1>1, SumTakesOut

\* One value changes, and the sum by the difference.
LEMMA SumChanges ==
    ASSUME NEW S, IsFiniteSet(S), NEW x \in S, NEW f, NEW g,
           \A y \in S : f[y] \in Int /\ g[y] \in Int,
           \A y \in S : y # x => g[y] = f[y]
    PROVE  SumFunctionOnSet(g, S) = SumFunctionOnSet(f, S) - f[x] + g[x]
<1> DEFINE R == S \ {x}
<1>1. IsFiniteSet(R) /\ \A y \in R : f[y] \in Int /\ f[y] = g[y]
  BY FS_RemoveElement
<1>2. SumFunctionOnSet(f, R) = SumFunctionOnSet(g, R) /\ SumFunctionOnSet(f, R) \in Int
  BY <1>1, SumOfSame, SumRecursion
<1>3. /\ SumFunctionOnSet(f, S) = f[x] + SumFunctionOnSet(f, R)
      /\ SumFunctionOnSet(g, S) = g[x] + SumFunctionOnSet(g, R)
  BY SumTakesOut
<1> HIDE DEF R
<1> QED
  BY <1>2, <1>3

\* What is left out of a sum and not positive makes it no smaller.
LEMMA SumGrows ==
    ASSUME NEW S, IsFiniteSet(S), NEW f, \A x \in S : f[x] \in Int,
           NEW R \in SUBSET S, \A x \in S \ R : f[x] <= 0
    PROVE  SumFunctionOnSet(f, S) <= SumFunctionOnSet(f, R)
<1> DEFINE N == S \ R
           P == {s \in SUBSET N :
                    SumFunctionOnSet(f, R \cup s) <= SumFunctionOnSet(f, R)}
<1>1. ASSUME NEW T \in SUBSET N, \A U \in SUBSET T : U # T => U \in P
      PROVE  T \in P
  <2>1. CASE T = {}
    <3>1. R \cup T = R /\ IsFiniteSet(R)
      BY <2>1, FS_Subset
    <3>2. SumFunctionOnSet(f, R) \in Int
      BY <3>1, SumRecursion
    <3> QED
      BY <3>1, <3>2
  <2>2. CASE T # {}
    <3> DEFINE p == Pick(T)
               U == R \cup (T \ {p})
    <3>1. p \in T /\ T \ {p} \in P
      BY <1>1, <2>2, PickFacts
    <3>2. R \cup T = U \cup {p} /\ p \notin U /\ U \in SUBSET S
      BY <3>1
    <3>3. IsFiniteSet(U) /\ IsFiniteSet(R)
      BY <3>2, FS_Subset
    <3>4. SumFunctionOnSet(f, U \cup {p}) = f[p] + SumFunctionOnSet(f, U)
      BY <3>1, <3>2, <3>3, SumAdds
    <3>5. f[p] \in Int /\ f[p] <= 0 /\ SumFunctionOnSet(f, U) <= SumFunctionOnSet(f, R)
      BY <3>1
    <3>6. SumFunctionOnSet(f, U) \in Int /\ SumFunctionOnSet(f, R) \in Int
      BY <3>2, <3>3, SumRecursion
    <3> HIDE DEF p, U
    <3>7. SumFunctionOnSet(f, R \cup T) = f[p] + SumFunctionOnSet(f, U)
      BY <3>2, <3>4
    <3>8. SumFunctionOnSet(f, R \cup T) <= SumFunctionOnSet(f, R)
      BY <3>5, <3>6, <3>7
    <3> QED
      BY <3>8
  <2> QED
    BY <2>1, <2>2
<1> HIDE DEF P, N
<1>2. IsFiniteSet(N)
  BY FS_Difference DEF N
<1>3. SUBSET N \subseteq P
  BY <1>1, <1>2, SubsetsByInduction
<1>4. R \cup N = S /\ N \in SUBSET N
  BY DEF N
<1> QED
  BY <1>3, <1>4 DEF P

-----------------------------------------------------------------------------
(* Sums of ledger rows                                                     *)

\* An account's rows can be summed up.
Countable(rows, a) ==
    /\ IsFiniteSet({e \in rows : e.account = a})
    /\ \A e \in rows : e.amount \in Int

\* The sum over rows as the ledger writes it is a sum of a function.
LEMMA AmountsAreSummed ==
    ASSUME NEW R, IsFiniteSet(R), \A e \in R : e.amount \in Int
    PROVE  MapThenSumSet(LAMBDA e : e.amount, R)
              = SumFunctionOnSet([e \in R |-> e.amount], R)
<1> DEFINE f == [e \in R |-> e.amount]
           Amounts(g) == g = [s \in SUBSET R |->
                                 IF s = {} THEN 0
                                 ELSE Pick(s).amount + g[s \ {Pick(s)}]]
           h == CHOOSE g : Amounts(g)
           i == CHOOSE g : IsSum(g, f, R)
<1>1. MapThenSumSet(LAMBDA e : e.amount, R) = h[R]
  BY DEF MapThenSumSet, MapThenFoldSet, Pick
<1>2. ASSUME NEW g
      PROVE  Amounts(g) <=> IsSum(g, f, R)
  <2>1. ASSUME NEW s \in SUBSET R, s # {}
        PROVE  f[Pick(s)] = Pick(s).amount
    BY <2>1, PickFacts
  <2>2. \A s \in SUBSET R :
           Summed(g, f, s) = IF s = {} THEN 0 ELSE Pick(s).amount + g[s \ {Pick(s)}]
    BY <2>1 DEF Summed
  <2> QED
    BY <2>2 DEF IsSum
<1>3. \E g : IsSum(g, f, R)
  <2>1. \A e \in R : f[e] \in Int
    OBVIOUS
  <2> HIDE DEF f
  <2>2. \E g \in [SUBSET R -> Int] : IsSum(g, f, R)
    BY <2>1, SolutionExists
  <2> QED
    BY <2>2
<1> HIDE DEF f
<1>4. IsSum(h, f, R) /\ IsSum(i, f, R)
  <2>1. \E g : Amounts(g)
    BY <1>2, <1>3
  <2> HIDE DEF Amounts
  <2>2. Amounts(h)
    BY <2>1
  <2>3. IsSum(i, f, R)
    BY <1>3
  <2> QED
    BY <1>2, <2>2, <2>3
<1> HIDE DEF h, i
<1>5. h[R] = i[R]
  BY <1>4, SolutionsAgree
<1>6. SumFunctionOnSet(f, R) = i[R]
  BY SumIsSolution DEF i
<1> QED
  BY <1>1, <1>5, <1>6 DEF f

StatusRows(rows, a, status) == {e \in rows : e.account = a /\ e.status = status}

\* The amounts of all rows of the account, whatever their status.
Amounts(rows) == [e \in rows |-> e.amount]

LEMMA StatusSumFacts ==
    ASSUME NEW rows, NEW a, Countable(rows, a), NEW status, NEW all, rows \subseteq all
    PROVE  LET R == StatusRows(rows, a, status) IN
           /\ IsFiniteSet(R)
           /\ \A e \in R : Amounts(all)[e] \in Int
           /\ SumOfStatus(rows, a, status) = SumFunctionOnSet(Amounts(all), R)
           /\ SumOfStatus(rows, a, status) \in Int
<1> DEFINE R == StatusRows(rows, a, status)
           f == [e \in R |-> e.amount]
           g == Amounts(all)
<1>1. R \in SUBSET {e \in rows : e.account = a} /\ R \subseteq rows
  BY DEF StatusRows
<1>2. IsFiniteSet(R) /\ \A e \in R : e.amount \in Int
  BY <1>1, FS_Subset DEF Countable
<1>3. \A e \in R : f[e] \in Int /\ f[e] = g[e]
  BY <1>1, <1>2 DEF Amounts
<1>4. SumOfStatus(rows, a, status) = SumFunctionOnSet(f, R)
  <2>1. SumOfStatus(rows, a, status) = MapThenSumSet(LAMBDA e : e.amount, R)
    BY DEF SumOfStatus, StatusRows
  <2> QED
    BY <1>2, <2>1, AmountsAreSummed
<1> HIDE DEF R, f, g
<1>5. SumFunctionOnSet(f, R) = SumFunctionOnSet(g, R) /\ SumFunctionOnSet(g, R) \in Int
  BY <1>2, <1>3, SumOfSame, SumRecursion
<1> QED
  BY <1>2, <1>3, <1>4, <1>5 DEF R, g

\* A row more changes one sum of one account.
LEMMA RowIsAdded ==
    ASSUME NEW rows, NEW a, Countable(rows, a),
           NEW row, row \notin rows, row.amount \in Int, NEW status
    PROVE  /\ Countable(rows \cup {row}, a)
           /\ SumOfStatus(rows \cup {row}, a, status)
                 = SumOfStatus(rows, a, status)
                   + (IF row.account = a /\ row.status = status THEN row.amount ELSE 0)
<1> DEFINE new == rows \cup {row}
           R == StatusRows(rows, a, status)
           N == StatusRows(new, a, status)
           f == Amounts(new)
           book == {e \in rows : e.account = a}
<1>1. Countable(new, a)
  <2>1. {e \in new : e.account = a} = IF row.account = a THEN book \cup {row} ELSE book
    OBVIOUS
  <2>2. IsFiniteSet(book) /\ IsFiniteSet(book \cup {row})
    BY FS_AddElement DEF Countable
  <2>3. IsFiniteSet({e \in new : e.account = a})
    BY <2>1, <2>2
  <2> QED
    BY <2>3 DEF Countable
<1>2. /\ IsFiniteSet(R)
      /\ SumOfStatus(rows, a, status) = SumFunctionOnSet(f, R)
      /\ SumOfStatus(rows, a, status) \in Int
  BY StatusSumFacts
<1>3. /\ \A e \in N : f[e] \in Int
      /\ SumOfStatus(new, a, status) = SumFunctionOnSet(f, N)
  <2> HIDE DEF new
  <2> QED
    BY <1>1, StatusSumFacts
<1>4. CASE row.account = a /\ row.status = status
  <2>1. N = R \cup {row} /\ row \notin R /\ f[row] = row.amount
    BY <1>4 DEF StatusRows, Amounts
  <2> HIDE DEF N, R, f, new
  <2>2. SumFunctionOnSet(f, N) = f[row] + SumFunctionOnSet(f, R)
    BY <1>2, <1>3, <2>1, SumAdds
  <2> QED
    BY <1>1, <1>2, <1>3, <1>4, <2>1, <2>2 DEF new
<1>5. CASE ~(row.account = a /\ row.status = status)
  <2>1. N = R
    BY <1>5 DEF StatusRows
  <2> QED
    BY <1>1, <1>2, <1>3, <1>5, <2>1
<1> QED
  BY <1>4, <1>5

\* A row less, the same.
LEMMA RowIsRemoved ==
    ASSUME NEW rows, NEW a, Countable(rows, a), NEW row \in rows, NEW status
    PROVE  /\ Countable(rows \ {row}, a)
           /\ SumOfStatus(rows \ {row}, a, status)
                 = SumOfStatus(rows, a, status)
                   - (IF row.account = a /\ row.status = status THEN row.amount ELSE 0)
<1> DEFINE old == rows \ {row}
<1>1. Countable(old, a)
  <2>1. {e \in old : e.account = a} \in SUBSET {e \in rows : e.account = a}
    OBVIOUS
  <2>2. IsFiniteSet({e \in old : e.account = a})
    BY <2>1, FS_Subset DEF Countable
  <2> QED
    BY <2>2 DEF Countable
<1>2. row \notin old /\ old \cup {row} = rows /\ row.amount \in Int
  BY DEF Countable
<1> HIDE DEF old
<1>3. SumOfStatus(old \cup {row}, a, status)
         = SumOfStatus(old, a, status)
           + (IF row.account = a /\ row.status = status THEN row.amount ELSE 0)
  BY <1>1, <1>2, RowIsAdded
<1>4. SumOfStatus(old, a, status) \in Int
  BY <1>1, StatusSumFacts
<1>5. SumOfStatus(old, a, status)
         = SumOfStatus(rows, a, status)
           - (IF row.account = a /\ row.status = status THEN row.amount ELSE 0)
  <2>1. SumOfStatus(rows, a, status)
           = SumOfStatus(old, a, status)
             + (IF row.account = a /\ row.status = status THEN row.amount ELSE 0)
    BY <1>2, <1>3
  <2>2. CASE row.account = a /\ row.status = status
    BY <1>2, <1>4, <2>1, <2>2
  <2>3. CASE ~(row.account = a /\ row.status = status)
    BY <1>4, <2>1, <2>3
  <2> QED
    BY <2>2, <2>3
<1> QED
  BY <1>1, <1>5 DEF old

\* Debits that are left out make no sum smaller.
LEMMA DebitsAreLeftOut ==
    ASSUME NEW rows, NEW a, Countable(rows, a), NEW some \in SUBSET rows,
           \A e \in rows \ some : e.amount <= 0, NEW status
    PROVE  SumOfStatus(rows, a, status) <= SumOfStatus(some, a, status)
<1> DEFINE R == StatusRows(rows, a, status)
           Q == StatusRows(some, a, status)
           f == Amounts(rows)
<1>1. Countable(some, a)
  <2>1. {e \in some : e.account = a} \in SUBSET {e \in rows : e.account = a}
    OBVIOUS
  <2>2. IsFiniteSet({e \in some : e.account = a})
    BY <2>1, FS_Subset DEF Countable
  <2> QED
    BY <2>2 DEF Countable
<1>2. /\ IsFiniteSet(R) /\ \A e \in R : f[e] \in Int
      /\ SumOfStatus(rows, a, status) = SumFunctionOnSet(f, R)
  BY StatusSumFacts
<1>3. SumOfStatus(some, a, status) = SumFunctionOnSet(f, Q)
  BY <1>1, StatusSumFacts
<1>4. Q \in SUBSET R /\ \A e \in R \ Q : f[e] <= 0
  BY DEF StatusRows, Amounts
<1> HIDE DEF R, Q, f
<1> QED
  BY <1>2, <1>3, <1>4, SumGrows

\* A row that is written is a row more, unless it was there.
LEMMA RowIsWritten ==
    ASSUME NEW rows, NEW a, Countable(rows, a), NEW row, row.amount \in Int, NEW status
    PROVE  /\ Countable(rows \cup {row}, a)
           /\ \/ SumOfStatus(rows \cup {row}, a, status) = SumOfStatus(rows, a, status)
              \/ SumOfStatus(rows \cup {row}, a, status)
                    = SumOfStatus(rows, a, status)
                      + (IF row.account = a /\ row.status = status THEN row.amount ELSE 0)
<1>1. CASE row \in rows
  <2>1. rows \cup {row} = rows
    BY <1>1
  <2> QED
    BY <2>1
<1>2. CASE row \notin rows
  <2> DEFINE new == rows \cup {row}
             more == IF row.account = a /\ row.status = status THEN row.amount ELSE 0
  <2>1. Countable(new, a)
    BY <1>2, RowIsAdded
  <2>2. SumOfStatus(new, a, status) = SumOfStatus(rows, a, status) + more
    BY <1>2, RowIsAdded
  <2> HIDE DEF new, more
  <2>3. SumOfStatus(new, a, status) = SumOfStatus(rows, a, status) + more
    BY <2>2
  <2> QED
    BY <2>1, <2>3 DEF new, more
<1> QED
  BY <1>1, <1>2

\* A debit that the balance covers, and a credit after it, leave the balance at
\* nothing or more, also where the rows were written before.
LEMMA PairIsCovered ==
    ASSUME NEW rows, NEW a, Countable(rows, a), NEW amount \in Nat,
           NEW debit, debit.amount = -amount,
           NEW credit, credit.amount = amount,
           BalanceCents(rows, a) >= 0,
           a = debit.account => BalanceCents(rows, a) >= amount
    PROVE  LET less == rows \cup {debit} IN
           /\ Countable(less, a) /\ BalanceCents(less, a) >= 0
           /\ Countable(less \cup {credit}, a) /\ BalanceCents(less \cup {credit}, a) >= 0
<1>1. ASSUME NEW some, Countable(some, a), NEW row, row.amount \in Int
      PROVE  LET more == some \cup {row} IN
             /\ Countable(more, a)
             /\ \/ BalanceCents(more, a) = BalanceCents(some, a)
                \/ /\ row.account = a
                   /\ BalanceCents(more, a) = BalanceCents(some, a) + row.amount
  <2> DEFINE more == some \cup {row}
             cents == IF row.account = a /\ row.status = "posted" THEN row.amount ELSE 0
  <2>1. /\ Countable(more, a)
        /\ \/ SumOfStatus(more, a, "posted") = SumOfStatus(some, a, "posted")
           \/ SumOfStatus(more, a, "posted") = SumOfStatus(some, a, "posted") + cents
    BY <1>1, RowIsWritten
  <2>2. SumOfStatus(some, a, "posted") \in Int
    BY <1>1, StatusSumFacts
  <2> HIDE DEF more
  <2>3. /\ Countable(more, a)
        /\ \/ BalanceCents(more, a) = BalanceCents(some, a)
           \/ /\ row.account = a
              /\ BalanceCents(more, a) = BalanceCents(some, a) + row.amount
    BY <1>1, <2>1, <2>2 DEF BalanceCents
  <2> QED
    BY <2>3 DEF more
<1> DEFINE less == rows \cup {debit}
<1>2. debit.amount \in Int /\ credit.amount \in Int /\ BalanceCents(rows, a) \in Int
  BY StatusSumFacts DEF BalanceCents
<1>3. /\ Countable(less, a)
      /\ \/ BalanceCents(less, a) = BalanceCents(rows, a)
         \/ debit.account = a /\ BalanceCents(less, a) = BalanceCents(rows, a) + debit.amount
  BY <1>1, <1>2
<1> HIDE DEF less
<1>4. BalanceCents(less, a) >= 0 /\ BalanceCents(less, a) \in Int
  BY <1>2, <1>3
<1>5. /\ Countable(less \cup {credit}, a)
      /\ \/ BalanceCents(less \cup {credit}, a) = BalanceCents(less, a)
         \/ BalanceCents(less \cup {credit}, a) = BalanceCents(less, a) + credit.amount
  BY <1>1, <1>2, <1>3
<1>6. BalanceCents(less \cup {credit}, a) >= 0
  BY <1>2, <1>4, <1>5
<1> QED
  BY <1>3, <1>4, <1>5, <1>6 DEF less

\* The sum of no rows, and of one.
LEMMA SumsOfFewRows ==
    ASSUME NEW rows, NEW a, Countable(rows, a), NEW status
    PROVE  /\ StatusRows(rows, a, status) = {} => SumOfStatus(rows, a, status) = 0
           /\ \A row : StatusRows(rows, a, status) = {row}
                          => SumOfStatus(rows, a, status) = row.amount
<1> DEFINE f == Amounts(rows)
           R == StatusRows(rows, a, status)
<1>1. /\ SumOfStatus(rows, a, status) = SumFunctionOnSet(f, R)
      /\ \A e \in R : f[e] \in Int /\ f[e] = e.amount
  BY StatusSumFacts DEF StatusRows, Amounts
<1>2. IsFiniteSet({}) /\ SumFunctionOnSet(f, {}) = 0
  BY FS_EmptySet, SumRecursion
<1>3. ASSUME NEW row, R = {row}
      PROVE  SumFunctionOnSet(f, R) = row.amount
  <2>1. f[row] \in Int /\ f[row] = row.amount
    BY <1>1, <1>3
  <2>2. {} \cup {row} = R
    BY <1>3
  <2> HIDE DEF f, R
  <2>3. SumFunctionOnSet(f, {} \cup {row}) = f[row] + SumFunctionOnSet(f, {})
    BY <1>2, <2>1, SumAdds
  <2>4. SumFunctionOnSet(f, R) = f[row] + SumFunctionOnSet(f, {})
    BY <2>2, <2>3
  <2> QED
    BY <1>2, <2>1, <2>4
<1> QED
  BY <1>1, <1>2, <1>3

\* An update of statuses leaves an account's rows as many, or fewer.
LEMMA UpdateIsCountable ==
    ASSUME NEW rows, NEW a, Countable(rows, a), NEW id, NEW from, NEW to,
           \A e \in rows : e \in EntriesOf({e.id}, Accounts)
    PROVE  Countable(SetStatus(rows, id, from, to), a)
<1> DEFINE upd(e) == IF e.id = id /\ e.status \in from THEN [e EXCEPT !.status = to] ELSE e
           book == {e \in rows : e.account = a}
           new  == SetStatus(rows, id, from, to)
<1>1. \A e \in rows : upd(e).account = e.account /\ upd(e).amount = e.amount
  BY DEF EntriesOf
<1>2. new = {upd(e) : e \in rows}
  BY DEF SetStatus
<1>3. IsFiniteSet(book) /\ \A e \in rows : e.amount \in Int
  BY DEF Countable
<1> HIDE DEF upd, new
<1>4. {e \in new : e.account = a} = {upd(e) : e \in book}
  BY <1>1, <1>2
<1>5. IsFiniteSet({upd(e) : e \in book})
  <2> DEFINE f == [e \in book |-> upd(e)]
             image == {upd(e) : e \in book}
  <2>1. f \in Surjection(book, image)
    BY DEF Surjection
  <2> HIDE DEF f, book, image
  <2>2. IsFiniteSet(image)
    BY <1>3, <2>1, FS_Surjection
  <2> QED
    BY <2>2 DEF image
<1>6. \A e \in new : e.amount \in Int
  BY <1>1, <1>2, <1>3
<1> QED
  BY <1>4, <1>5, <1>6 DEF Countable, new

-----------------------------------------------------------------------------
(* The opening credits                                                     *)

\* An account starts with its opening balance, and with nothing held.
LEMMA OpeningSums ==
    ASSUME NEW a \in Accounts
    PROVE  /\ Countable(OpeningLedger, a)
           /\ BalanceCents(OpeningLedger, a) = OpeningBalance[a]
           /\ HeldCents(OpeningLedger, a) = 0
<1> DEFINE row == Entry(a, a, OpeningBalance[a], "posted")
<1>1. \A b \in Accounts : OpeningBalance[b] \in Nat
  BY OpeningAssumption
<1>2. {e \in OpeningLedger : e.account = a} = {row}
  BY DEF OpeningLedger, Entry
<1>3. IsFiniteSet({row})
  BY FS_Singleton
<1>4. Countable(OpeningLedger, a)
  BY <1>1, <1>2, <1>3 DEF Countable, OpeningLedger, Entry
<1>5. /\ StatusRows(OpeningLedger, a, "posted") = {row}
      /\ StatusRows(OpeningLedger, a, "pending") = {}
  BY DEF StatusRows, OpeningLedger, Entry
<1>6. row.amount = OpeningBalance[a]
  BY DEF Entry
<1> HIDE DEF row
<1> QED
  BY <1>4, <1>5, <1>6, SumsOfFewRows DEF BalanceCents, HeldCents
=============================================================================
