---------------------------- MODULE SumTheorems ----------------------------
(***************************************************************************)
(* Facts about SumFunctionOnSet, the sum of the values a function takes    *)
(* on a finite set.  The tokens of the escrows, the records of a campaign  *)
(* and the rewards of the owners are such sums, and each instruction       *)
(* changes one or two of the terms.  The library defines the sum by a      *)
(* recursive function that removes a CHOOSEn element; what is needed of it *)
(* is that the choice does not matter.                                     *)
(*                                                                         *)
(* Induction over finite sets is done with a SET of subsets, P, where the  *)
(* library's theorem has a predicate parameter: P is closed, so S is in P. *)
(***************************************************************************)
EXTENDS Integers, Functions, FiniteSetTheorems, WellFoundedInduction, TLAPS

(* Well-founded induction over the subsets of a finite set S. *)
LEMMA SubsetInduction ==
  ASSUME NEW S, IsFiniteSet(S), NEW P,
         \A W \in SUBSET S : (\A V \in (SUBSET W) \ {W} : V \in P) => W \in P
  PROVE  S \in P
<1> DEFINE Bad == (SUBSET S) \ P
<1>1. IsWellFoundedOn(StrictSubsetOrdering(S), SUBSET S)
  BY FS_StrictSubsetOrderingWellFounded, FS_FiniteSubsetsOfFinite
<1>2. SUFFICES ASSUME Bad # {} PROVE FALSE
  OBVIOUS
<1>3. PICK W \in Bad : \A V \in Bad : ~ (<<V, W>> \in StrictSubsetOrdering(S))
  <2> Bad \in SUBSET (SUBSET S)
    OBVIOUS
  <2> HIDE DEF Bad
  <2> QED BY <1>1, <1>2, WFMin
<1>4. \A V \in (SUBSET W) \ {W} : V \in P
  BY <1>3 DEF StrictSubsetOrdering
<1> QED BY <1>3, <1>4

-----------------------------------------------------------------------------
(* The recursive function inside the sum.                                  *)

pick(s) == CHOOSE x \in s : TRUE

IsIter(g, f, S) ==
    g = [s \in SUBSET S |->
            IF s = {} THEN 0 ELSE f[pick(s)] + g[s \ {pick(s)}]]

iter(f, S) == CHOOSE g : IsIter(g, f, S)

(* The library's definition, unfolded. *)
LEMMA SumIter ==
  ASSUME NEW f, NEW S
  PROVE  SumFunctionOnSet(f, S) = iter(f, S)[S]
BY DEF SumFunctionOnSet, FoldFunctionOnSet, MapThenFoldSet, IsIter, iter, pick

(* Two such functions, on whatever domains, agree where both are defined. *)
LEMMA IterUnique ==
  ASSUME NEW f, NEW A, NEW B, NEW g, NEW h, IsIter(g, f, A), IsIter(h, f, B),
         NEW S, S \subseteq A, S \subseteq B, IsFiniteSet(S)
  PROVE  g[S] = h[S]
<1> DEFINE P == {W \in SUBSET S : g[W] = h[W]}
<1> SUFFICES ASSUME NEW W \in SUBSET S,
                    \A V \in (SUBSET W) \ {W} : V \in P
             PROVE  g[W] = h[W]
  <2>1. \A W \in SUBSET S : (\A V \in (SUBSET W) \ {W} : V \in P) => W \in P
    OBVIOUS
  <2>2. S \in P
    <3> HIDE DEF P
    <3> QED BY <2>1, SubsetInduction
  <2> QED BY <2>2
<1>1. CASE W = {}
  BY <1>1 DEF IsIter
<1>2. CASE W # {}
  <2>1. pick(W) \in W
    BY <1>2 DEF pick
  <2>2. W \ {pick(W)} \in (SUBSET W) \ {W}
    BY <2>1
  <2>3. g[W \ {pick(W)}] = h[W \ {pick(W)}]
    BY <2>2
  <2>4. g[W] = f[pick(W)] + g[W \ {pick(W)}]
    BY <1>2, W \in SUBSET A DEF IsIter
  <2>5. h[W] = f[pick(W)] + h[W \ {pick(W)}]
    BY <1>2, W \in SUBSET B DEF IsIter
  <2> QED BY <2>3, <2>4, <2>5
<1> QED BY <1>1, <1>2

(* On a finite set there is one. *)
LEMMA IterExists ==
  ASSUME NEW f, NEW S, IsFiniteSet(S)
  PROVE  IsIter(iter(f, S), f, S)
<1> DEFINE P == {W \in SUBSET S : IsIter(iter(f, W), f, W)}
<1> SUFFICES ASSUME NEW W \in SUBSET S,
                    \A V \in (SUBSET W) \ {W} : V \in P
             PROVE  \E g : IsIter(g, f, W)
  <2>1. \A W \in SUBSET S : (\A V \in (SUBSET W) \ {W} : V \in P) => W \in P
    BY DEF iter
  <2>2. S \in P
    <3> HIDE DEF P
    <3> QED BY <2>1, SubsetInduction
  <2> QED BY <2>2
<1> DEFINE rest(s) == s \ {pick(s)}
           g == [s \in SUBSET W |->
                    IF s = {} THEN 0
                    ELSE f[pick(s)] + iter(f, rest(s))[rest(s)]]
<1>1. ASSUME NEW s \in SUBSET W, s # {}
      PROVE  g[rest(s)] = iter(f, rest(s))[rest(s)]
  <2>1. pick(s) \in s
    BY <1>1 DEF pick
  <2>2. rest(s) \in (SUBSET W) \ {W}
    BY <2>1
  <2>3. IsIter(iter(f, rest(s)), f, rest(s))
    BY <2>2
  <2>4. CASE rest(s) = {}
    <3>1. iter(f, rest(s))[rest(s)] = 0
      BY <2>3, <2>4 DEF IsIter
    <3> QED BY <3>1, <2>2, <2>4
  <2>5. CASE rest(s) # {}
    <3> DEFINE y == rest(s)
               z == rest(y)
    <3>1. pick(y) \in y
      BY <2>5 DEF pick
    <3>2. z \in (SUBSET W) \ {W} /\ z \subseteq y
      BY <3>1, <2>2
    <3>3. IsIter(iter(f, z), f, z)
      BY <3>2
    <3>4. IsFiniteSet(z)
      BY <3>2, FS_Subset
    <3> HIDE DEF z
    <3>5. iter(f, y)[z] = iter(f, z)[z]
      BY <2>3, <3>2, <3>3, <3>4, IterUnique
    <3>6. iter(f, y)[y] = f[pick(y)] + iter(f, y)[z]
      BY <2>3, <2>5 DEF IsIter, z
    <3>7. g[y] = f[pick(y)] + iter(f, z)[z]
      BY <2>2, <2>5 DEF z
    <3> QED BY <3>5, <3>6, <3>7
  <2> QED BY <2>4, <2>5
<1>2. g = [s \in SUBSET W |-> IF s = {} THEN 0 ELSE f[pick(s)] + g[rest(s)]]
  BY <1>1
<1> QED BY <1>2 DEF IsIter

-----------------------------------------------------------------------------
(* The sum itself.                                                         *)

(* Of nothing, the sum is 0. *)
LEMMA SumEmpty ==
  ASSUME NEW f
  PROVE  SumFunctionOnSet(f, {}) = 0
<1>1. IsIter(iter(f, {}), f, {})
  BY IterExists, FS_EmptySet
<1>2. iter(f, {})[{}] = 0
  BY <1>1 DEF IsIter
<1> QED BY <1>2, SumIter

(* The step of the recursion, for the element the library happens to choose. *)
LEMMA SumStep ==
  ASSUME NEW f, NEW S, IsFiniteSet(S), S # {}
  PROVE  /\ pick(S) \in S
         /\ SumFunctionOnSet(f, S)
              = f[pick(S)] + SumFunctionOnSet(f, S \ {pick(S)})
<1> DEFINE R == S \ {pick(S)}
<1>1. pick(S) \in S
  BY DEF pick
<1>2. IsFiniteSet(R)
  BY FS_RemoveElement
<1>3. IsIter(iter(f, S), f, S) /\ IsIter(iter(f, R), f, R)
  BY <1>2, IterExists
<1>4. iter(f, S)[R] = iter(f, R)[R]
  BY <1>2, <1>3, IterUnique
<1>5. iter(f, S)[S] = f[pick(S)] + iter(f, S)[R]
  BY <1>3 DEF IsIter
<1> QED BY <1>1, <1>4, <1>5, SumIter

(* Of integers, the sum is one. *)
LEMMA SumType ==
  ASSUME NEW f, NEW S, IsFiniteSet(S), \A x \in S : f[x] \in Int
  PROVE  SumFunctionOnSet(f, S) \in Int
<1> DEFINE P == {W \in SUBSET S : SumFunctionOnSet(f, W) \in Int}
<1>1. ASSUME NEW W \in SUBSET S, \A V \in (SUBSET W) \ {W} : V \in P
      PROVE  W \in P
  <2>1. CASE W = {}
    BY <2>1, SumEmpty
  <2>2. CASE W # {}
    <3> DEFINE x == pick(W)
    <3>1. IsFiniteSet(W)
      BY FS_Subset
    <3>2. /\ x \in W
          /\ SumFunctionOnSet(f, W) = f[x] + SumFunctionOnSet(f, W \ {x})
      BY <2>2, <3>1, SumStep
    <3>3. SumFunctionOnSet(f, W \ {x}) \in Int
      BY <1>1, <3>2
    <3> QED BY <3>2, <3>3
  <2> QED BY <2>1, <2>2
<1>2. S \in P
  <2> HIDE DEF P
  <2> QED BY <1>1, SubsetInduction
<1> QED BY <1>2

(* The same step for any element: the choice does not matter. *)
LEMMA SumRemove ==
  ASSUME NEW f, NEW S, IsFiniteSet(S), \A x \in S : f[x] \in Int, NEW a \in S
  PROVE  SumFunctionOnSet(f, S) = f[a] + SumFunctionOnSet(f, S \ {a})
<1> DEFINE Sum(W) == SumFunctionOnSet(f, W)
           P == {W \in SUBSET S : \A x \in W : Sum(W) = f[x] + Sum(W \ {x})}
<1>1. ASSUME NEW W \in SUBSET S, \A V \in (SUBSET W) \ {W} : V \in P,
             NEW x \in W
      PROVE  Sum(W) = f[x] + Sum(W \ {x})
  <2> DEFINE y == pick(W)
  <2>1. IsFiniteSet(W)
    BY FS_Subset
  <2>2. y \in W /\ Sum(W) = f[y] + Sum(W \ {y})
    BY <2>1, SumStep
  <2>3. CASE x = y
    BY <2>2, <2>3
  <2>4. CASE x # y
    <3> DEFINE Z == W \ {x, y}
    <3>1. W \ {y} \in P /\ W \ {x} \in P
      BY <1>1, <2>2
    <3>2. (W \ {y}) \ {x} = Z /\ (W \ {x}) \ {y} = Z
      OBVIOUS
    <3>3. Sum(W \ {y}) = f[x] + Sum(Z)
      BY <3>1, <3>2, <2>4
    <3>4. Sum(W \ {x}) = f[y] + Sum(Z)
      BY <3>1, <3>2, <2>2, <2>4
    <3>5. Sum(Z) \in Int
      BY SumType, FS_Subset
    <3>6. f[x] \in Int /\ f[y] \in Int
      BY <2>2
    <3> HIDE DEF Sum, Z, y, P
    <3> QED BY <2>2, <3>3, <3>4, <3>5, <3>6
  <2> QED BY <2>3, <2>4
<1>2. S \in P
  <2>1. \A W \in SUBSET S : (\A V \in (SUBSET W) \ {W} : V \in P) => W \in P
    BY <1>1
  <2> HIDE DEF P
  <2> QED BY <2>1, SubsetInduction
<1> QED BY <1>2

(* Pointwise at most: the sums are at most. *)
LEMMA SumMonotone ==
  ASSUME NEW f, NEW g, NEW S, IsFiniteSet(S),
         \A x \in S : f[x] \in Int /\ g[x] \in Int /\ f[x] <= g[x]
  PROVE  SumFunctionOnSet(f, S) <= SumFunctionOnSet(g, S)
<1> DEFINE P == {W \in SUBSET S :
                   SumFunctionOnSet(f, W) <= SumFunctionOnSet(g, W)}
<1>1. ASSUME NEW W \in SUBSET S, \A V \in (SUBSET W) \ {W} : V \in P
      PROVE  W \in P
  <2>1. CASE W = {}
    BY <2>1, SumEmpty
  <2>2. CASE W # {}
    <3> DEFINE x == pick(W)
               F == SumFunctionOnSet(f, W \ {x})
               G == SumFunctionOnSet(g, W \ {x})
    <3>1. IsFiniteSet(W) /\ IsFiniteSet(W \ {x})
      BY FS_Subset
    <3>2. /\ x \in W
          /\ SumFunctionOnSet(f, W) = f[x] + F
          /\ SumFunctionOnSet(g, W) = g[x] + G
      BY <2>2, <3>1, SumStep
    <3>3. F \in Int /\ G \in Int
      BY <3>1, SumType
    <3>4. F <= G
      BY <1>1, <3>2
    <3>5. f[x] + F <= g[x] + G
      <4>1. f[x] \in Int /\ g[x] \in Int /\ f[x] <= g[x]
        BY <3>2
      <4> HIDE DEF F, G, x
      <4> QED BY <3>3, <3>4, <4>1
    <3> QED BY <3>2, <3>5
  <2> QED BY <2>1, <2>2
<1>2. S \in P
  <2> HIDE DEF P
  <2> QED BY <1>1, SubsetInduction
<1> QED BY <1>2

(* Functions that agree on S have the same sum. *)
LEMMA SumSame ==
  ASSUME NEW f, NEW g, NEW S, IsFiniteSet(S),
         \A x \in S : f[x] \in Int /\ g[x] = f[x]
  PROVE  SumFunctionOnSet(g, S) = SumFunctionOnSet(f, S)
<1>1. SumFunctionOnSet(f, S) \in Int /\ SumFunctionOnSet(g, S) \in Int
  BY SumType
<1>2. SumFunctionOnSet(f, S) <= SumFunctionOnSet(g, S)
  <2>1. \A x \in S : f[x] \in Int /\ g[x] \in Int /\ f[x] <= g[x]
    OBVIOUS
  <2> QED BY <2>1, SumMonotone
<1>3. SumFunctionOnSet(g, S) <= SumFunctionOnSet(f, S)
  <2>1. \A x \in S : g[x] \in Int /\ f[x] \in Int /\ g[x] <= f[x]
    OBVIOUS
  <2> QED BY <2>1, SumMonotone
<1> QED BY <1>1, <1>2, <1>3

(* One term changes: the sum changes by as much. *)
LEMMA SumChange ==
  ASSUME NEW f, NEW g, NEW S, IsFiniteSet(S), NEW a \in S,
         \A x \in S : f[x] \in Int,
         g[a] \in Int,
         \A x \in S \ {a} : g[x] = f[x]
  PROVE  SumFunctionOnSet(g, S) = SumFunctionOnSet(f, S) + (g[a] - f[a])
<1> DEFINE F == SumFunctionOnSet(f, S \ {a})
<1>1. SumFunctionOnSet(f, S) = f[a] + F
  BY SumRemove
<1>2. SumFunctionOnSet(g, S) = g[a] + SumFunctionOnSet(g, S \ {a})
  <2>1. \A x \in S : g[x] \in Int
    OBVIOUS
  <2> QED BY <2>1, SumRemove
<1>3. IsFiniteSet(S \ {a})
  BY FS_Subset
<1>4. SumFunctionOnSet(g, S \ {a}) = F
  BY <1>3, SumSame
<1>5. F \in Int
  BY <1>3, SumType
<1>6. f[a] \in Int
  OBVIOUS
<1> HIDE DEF F
<1> QED BY <1>1, <1>2, <1>4, <1>5, <1>6

(* A sum of zeros. *)
LEMMA SumZero ==
  ASSUME NEW f, NEW S, IsFiniteSet(S), \A x \in S : f[x] = 0
  PROVE  SumFunctionOnSet(f, S) = 0
<1> DEFINE P == {W \in SUBSET S : SumFunctionOnSet(f, W) = 0}
<1>1. ASSUME NEW W \in SUBSET S, \A V \in (SUBSET W) \ {W} : V \in P
      PROVE  W \in P
  <2>1. CASE W = {}
    BY <2>1, SumEmpty
  <2>2. CASE W # {}
    <3> DEFINE x == pick(W)
    <3>1. IsFiniteSet(W)
      BY FS_Subset
    <3>2. /\ x \in W
          /\ SumFunctionOnSet(f, W) = f[x] + SumFunctionOnSet(f, W \ {x})
      BY <2>2, <3>1, SumStep
    <3>3. f[x] = 0 /\ SumFunctionOnSet(f, W \ {x}) = 0
      BY <1>1, <3>2
    <3> QED BY <3>2, <3>3
  <2> QED BY <2>1, <2>2
<1>2. S \in P
  <2> HIDE DEF P
  <2> QED BY <1>1, SubsetInduction
<1> QED BY <1>2

(* Of natural numbers, the sum is one and no term exceeds it. *)
LEMMA SumBound ==
  ASSUME NEW f, NEW S, IsFiniteSet(S), \A x \in S : f[x] \in Nat
  PROVE  /\ SumFunctionOnSet(f, S) \in Nat
         /\ \A a \in S : f[a] <= SumFunctionOnSet(f, S)
<1> DEFINE zero == [x \in S |-> 0]
<1>1. ASSUME NEW W \in SUBSET S
      PROVE  SumFunctionOnSet(f, W) \in Nat
  <2>1. IsFiniteSet(W)
    BY FS_Subset
  <2>2. SumFunctionOnSet(zero, W) = 0
    BY <2>1, SumZero
  <2>3. SumFunctionOnSet(zero, W) <= SumFunctionOnSet(f, W)
    <3>1. \A x \in W : zero[x] \in Int /\ f[x] \in Int /\ zero[x] <= f[x]
      OBVIOUS
    <3> HIDE DEF zero
    <3> QED BY <2>1, <3>1, SumMonotone
  <2>4. SumFunctionOnSet(f, W) \in Int
    BY <2>1, SumType
  <2> HIDE DEF zero
  <2> QED BY <2>2, <2>3, <2>4
<1>2. ASSUME NEW a \in S PROVE f[a] <= SumFunctionOnSet(f, S)
  <2>1. SumFunctionOnSet(f, S) = f[a] + SumFunctionOnSet(f, S \ {a})
    BY SumRemove
  <2>2. SumFunctionOnSet(f, S \ {a}) \in Nat
    BY <1>1
  <2> QED BY <2>1, <2>2
<1> QED BY <1>1, <1>2

(* The sum over the whole domain of an array of natural numbers. *)
LEMMA SumOfArray ==
  ASSUME NEW S, IsFiniteSet(S), NEW f \in [S -> Nat]
  PROVE  /\ SumFunction(f) = SumFunctionOnSet(f, S)
         /\ SumFunction(f) \in Nat
         /\ \A a \in S : f[a] <= SumFunction(f)
<1>1. SumFunction(f) = SumFunctionOnSet(f, S)
  BY DEF SumFunction
<1> QED
  BY <1>1, SumBound

(* Writing one element of an array changes its sum by as much as the element. *)
LEMMA SumOfUpdate ==
  ASSUME NEW S, IsFiniteSet(S), NEW f \in [S -> Nat], NEW g \in [S -> Nat],
         NEW a \in S, \A x \in S \ {a} : g[x] = f[x]
  PROVE  SumFunction(g) = SumFunction(f) + (g[a] - f[a])
<1>1. (\A x \in S : f[x] \in Int) /\ g[a] \in Int
  OBVIOUS
<1>2. SumFunctionOnSet(g, S) = SumFunctionOnSet(f, S) + (g[a] - f[a])
  BY <1>1, SumChange
<1> QED
  BY <1>2, SumOfArray

(* Of equal terms, the sum is a product. *)
LEMMA SumConstant ==
  ASSUME NEW f, NEW S, IsFiniteSet(S), NEW n \in Nat, \A x \in S : f[x] = n
  PROVE  SumFunctionOnSet(f, S) = n * Cardinality(S)
<1> DEFINE P == {W \in SUBSET S : SumFunctionOnSet(f, W) = n * Cardinality(W)}
<1>1. ASSUME NEW W \in SUBSET S, \A V \in (SUBSET W) \ {W} : V \in P
      PROVE  W \in P
  <2>1. CASE W = {}
    BY <2>1, SumEmpty, FS_EmptySet
  <2>2. CASE W # {}
    <3> DEFINE x == pick(W)
    <3>1. IsFiniteSet(W) /\ IsFiniteSet(W \ {x})
      BY FS_Subset
    <3>2. /\ x \in W
          /\ SumFunctionOnSet(f, W) = f[x] + SumFunctionOnSet(f, W \ {x})
      BY <2>2, <3>1, SumStep
    <3>3. f[x] = n /\ SumFunctionOnSet(f, W \ {x}) = n * Cardinality(W \ {x})
      BY <1>1, <3>2
    <3>4. /\ Cardinality(W \ {x}) = Cardinality(W) - 1
          /\ Cardinality(W) \in Nat /\ Cardinality(W \ {x}) \in Nat
      BY <3>1, <3>2, FS_RemoveElement, FS_CardinalityType
    <3>5. n + n * Cardinality(W \ {x}) = n * Cardinality(W)
      BY <3>4
    <3> QED BY <3>2, <3>3, <3>5
  <2> QED BY <2>1, <2>2
<1>2. S \in P
  <2> HIDE DEF P
  <2> QED BY <1>1, SubsetInduction
<1> QED BY <1>2

(* g is f with n, which may be negative, added to the value at a. *)
Adds(D, f, a, n, g) ==
  /\ f \in [D -> Int] /\ g \in [D -> Int]
  /\ g[a] = f[a] + n
  /\ \A x \in D \ {a} : g[x] = f[x]

(* Adding n at a adds n to the sum over the part S of the domain, if a is in S. *)
LEMMA SumAdds ==
  ASSUME NEW D, NEW S \in SUBSET D, IsFiniteSet(S), NEW f, NEW g, NEW a \in D,
         NEW n \in Int, Adds(D, f, a, n, g)
  PROVE  /\ SumFunctionOnSet(f, S) \in Int
         /\ a \in S => SumFunctionOnSet(g, S) = SumFunctionOnSet(f, S) + n
         /\ a \notin S => SumFunctionOnSet(g, S) = SumFunctionOnSet(f, S)
<1>1. \A x \in S : f[x] \in Int
  BY DEF Adds
<1>2. SumFunctionOnSet(f, S) \in Int
  BY <1>1, SumType
<1>3. CASE a \in S
  <2>1. g[a] \in Int /\ f[a] \in Int /\ g[a] - f[a] = n
    BY DEF Adds
  <2>2. \A x \in S \ {a} : g[x] = f[x]
    BY DEF Adds
  <2>3. SumFunctionOnSet(g, S) = SumFunctionOnSet(f, S) + (g[a] - f[a])
    BY <1>1, <1>3, <2>1, <2>2, SumChange
  <2> QED BY <1>2, <1>3, <2>1, <2>3
<1>4. CASE a \notin S
  <2>1. \A x \in S : f[x] \in Int /\ g[x] = f[x]
    BY <1>4 DEF Adds
  <2>2. SumFunctionOnSet(g, S) = SumFunctionOnSet(f, S)
    BY <2>1, SumSame
  <2> QED BY <1>2, <1>4, <2>2
<1> QED BY <1>3, <1>4

---------------------------------------------------------------------------
(* Sums over one column of a table f \in [P \X M -> Int]. *)

Column(f, P, k) == SumFunctionOnSet(f, P \X {k})

(* g is f with n added at row p of column k. *)
Credits(P, M, f, p, k, n, g) ==
  p \in P /\ k \in M /\ n \in Int /\ Adds(P \X M, f, <<p, k>>, n, g)

(* A column has one entry for each row. *)
LEMMA ColumnFinite ==
  ASSUME NEW P, IsFiniteSet(P), NEW k
  PROVE  IsFiniteSet(P \X {k}) /\ Cardinality(P \X {k}) = Cardinality(P)
<1>1. IsFiniteSet({k}) /\ Cardinality({k}) = 1
  BY FS_Singleton
<1>2. IsFiniteSet(P \X {k}) /\ Cardinality(P \X {k}) = Cardinality(P) * 1
  BY <1>1, FS_Product
<1>3. Cardinality(P) \in Nat
  BY FS_CardinalityType
<1> QED BY <1>2, <1>3

(* Adding n at an entry adds n to its own column and to no other. *)
LEMMA ColumnAdds ==
  ASSUME NEW P, IsFiniteSet(P), NEW M, NEW j \in M,
         NEW f, NEW g, NEW p, NEW k, NEW n, Credits(P, M, f, p, k, n, g)
  PROVE  /\ Column(f, P, j) \in Int
         /\ k = j => Column(g, P, j) = Column(f, P, j) + n
         /\ k # j => Column(g, P, j) = Column(f, P, j)
<1> DEFINE table == P \X M
           column == P \X {j}
           a == <<p, k>>
<1>1. n \in Int /\ a \in table /\ (a \in column <=> k = j) /\ Adds(table, f, a, n, g)
  BY DEF Credits
<1>2. column \in SUBSET table /\ IsFiniteSet(column)
  BY ColumnFinite
<1> HIDE DEF table, column, a
<1>3. /\ SumFunctionOnSet(f, column) \in Int
      /\ a \in column => SumFunctionOnSet(g, column) = SumFunctionOnSet(f, column) + n
      /\ a \notin column => SumFunctionOnSet(g, column) = SumFunctionOnSet(f, column)
  BY <1>1, <1>2, SumAdds
<1> QED BY <1>1, <1>3 DEF column, Column

(* A column of equal entries. *)
LEMMA ColumnConstant ==
  ASSUME NEW P, IsFiniteSet(P), NEW k, NEW f, NEW n \in Nat, \A p \in P : f[<<p, k>>] = n
  PROVE  Column(f, P, k) = n * Cardinality(P)
<1> DEFINE column == P \X {k}
<1>1. IsFiniteSet(column) /\ Cardinality(column) = Cardinality(P)
  BY ColumnFinite
<1>2. \A x \in column : f[x] = n
  OBVIOUS
<1> HIDE DEF column
<1>3. SumFunctionOnSet(f, column) = n * Cardinality(column)
  BY <1>1, <1>2, SumConstant
<1> QED BY <1>1, <1>3 DEF column, Column

=============================================================================
