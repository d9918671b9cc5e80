-------------------------------- MODULE Sums --------------------------------
(***************************************************************************)
(* Facts about SumFunctionOnSet(f, S) of the module Functions, the sum of  *)
(* f[x] for x in a finite set S.                                           *)
(***************************************************************************)
EXTENDS Functions, FiniteSetTheorems, TLAPS

\* The element a fold takes out of a set, and the recursion equation it follows.
Pick(s) == CHOOSE x \in s : TRUE
Folded(f, iter, s) == IF s = {} THEN 0 ELSE f[Pick(s)] + iter[s \ {Pick(s)}]
Solves(f, iter, S) == iter = [s \in SUBSET S |-> Folded(f, iter, s)]

\* A non-empty set of naturals has a least element.
LEMMA LeastNatural ==
  ASSUME NEW T \in SUBSET Nat, T # {}
  PROVE  \E n \in T : \A m \in T : n <= m
<1> DEFINE R == OpToRel(<, Nat)
<1>1. IsWellFoundedOn(R, Nat)
  BY NatLessThanWellFounded
<1> HIDE DEF R
<1>2. PICK n \in T : \A m \in T : <<m, n>> \notin R
  BY <1>1, WFMin, Zenon
<1>3. ASSUME NEW m \in T
      PROVE  n <= m
  <2>1. <<m, n>> \in Nat \X Nat
    OBVIOUS
  <2>2. <<m, n>> \notin OpToRel(<, Nat)
    BY <1>2 DEF R
  <2>3. ~ (m < n)
    BY <2>1, <2>2 DEF OpToRel
  <2> QED
    BY <2>3
<1> QED
  BY <1>3

\* A set of subsets of a finite set that holds with every set a smaller one is
\* empty: induction on finite sets, as infinite descent.
LEMMA FiniteDescent ==
  ASSUME NEW D, IsFiniteSet(D), NEW B \in SUBSET SUBSET D,
         \A s \in B : \E x \in s : s \ {x} \in B
  PROVE  B = {}
<1> SUFFICES ASSUME B # {}
             PROVE  FALSE
  OBVIOUS
<1> DEFINE T == {Cardinality(s) : s \in B}
<1>1. \A s \in B : IsFiniteSet(s) /\ Cardinality(s) \in Nat
  BY FS_Subset, FS_CardinalityType
<1>2. T \in SUBSET Nat /\ T # {}
  BY <1>1
<1>3. PICK n \in T : \A m \in T : n <= m
  BY <1>2, LeastNatural
<1>4. PICK s \in B : n = Cardinality(s)
  BY <1>3
<1>5. PICK x \in s : s \ {x} \in B
  BY <1>4
<1>6. Cardinality(s \ {x}) = Cardinality(s) - 1
  BY <1>1, <1>4, <1>5, FS_RemoveElement
<1>7. Cardinality(s \ {x}) \in T
  BY <1>5
<1>8. n <= n - 1 /\ n \in Nat
  BY <1>1, <1>3, <1>4, <1>6, <1>7
<1> QED
  BY <1>8

\* The chosen element is one of the set.
LEMMA PickIsElement == \A s : s # {} => Pick(s) \in s
  BY DEF Pick

\* The recursion equation of a sum over a finite set has a solution: built for
\* the subsets of at most n elements, one n after the other.
LEMMA FoldExists ==
  ASSUME NEW f, NEW S, IsFiniteSet(S)
  PROVE  \E iter : Solves(f, iter, S)
<1> DEFINE Level(n) == {s \in SUBSET S : Cardinality(s) <= n}
           Solved(n) == \E g : g = [s \in Level(n) |-> Folded(f, g, s)]
           Open == {n \in Nat : ~ Solved(n)}
<1>1. \A s \in SUBSET S : IsFiniteSet(s) /\ Cardinality(s) \in Nat /\ Cardinality(s) <= Cardinality(S)
  BY FS_Subset, FS_CardinalityType
<1>2. Solved(0)
  <2> DEFINE g == [s \in Level(0) |-> 0]
  <2>1. \A s \in Level(0) : s = {}
    BY <1>1, FS_EmptySet
  <2>2. g = [s \in Level(0) |-> Folded(f, g, s)]
    BY <2>1 DEF Folded
  <2> HIDE DEF g
  <2> QED
    BY <2>2
<1>3. ASSUME NEW n \in Nat, Solved(n)
      PROVE  Solved(n + 1)
  <2>1. PICK g : g = [s \in Level(n) |-> Folded(f, g, s)]
    BY <1>3
  <2> DEFINE h == [s \in Level(n + 1) |-> Folded(f, g, s)]
  <2>2. ASSUME NEW s \in Level(n + 1), s # {}
        PROVE  h[s \ {Pick(s)}] = g[s \ {Pick(s)}]
    <3>1. Pick(s) \in s /\ s \ {Pick(s)} \in SUBSET S
      BY <2>2, PickIsElement
    <3>2. Cardinality(s \ {Pick(s)}) = Cardinality(s) - 1
      BY <1>1, <3>1, FS_RemoveElement
    <3>3. s \ {Pick(s)} \in Level(n)
      BY <1>1, <2>2, <3>1, <3>2
    <3>4. Level(n) \subseteq Level(n + 1)
      BY <1>1
    <3> HIDE DEF Level
    <3> DEFINE u == s \ {Pick(s)}
    <3>5. h[u] = Folded(f, g, u)
      BY <3>3, <3>4
    <3>6. g[u] = Folded(f, g, u)
      BY <2>1, <3>3
    <3> QED
      BY <3>5, <3>6
  <2>3. \A s \in Level(n + 1) : Folded(f, g, s) = Folded(f, h, s)
    BY <2>2 DEF Folded
  <2>4. h = [s \in Level(n + 1) |-> Folded(f, h, s)]
    BY <2>3
  <2> HIDE DEF h
  <2> QED
    BY <2>4
<1>4. Open = {}
  <2> SUFFICES ASSUME Open # {}
               PROVE  FALSE
    OBVIOUS
  <2>1. PICK n \in Open : \A m \in Open : n <= m
    BY LeastNatural
  <2> HIDE DEF Solved
  <2>2. n # 0 /\ n \in Nat /\ n - 1 \notin Open
    BY <1>2, <2>1
  <2>3. n - 1 \in Nat /\ Solved(n - 1)
    BY <2>2
  <2>4. Solved((n - 1) + 1)
    BY <1>3, <2>3
  <2> QED
    BY <2>1, <2>2, <2>4
<1>5. Cardinality(S) \in Nat /\ Level(Cardinality(S)) = SUBSET S
  BY <1>1
<1>6. Solved(Cardinality(S))
  <2> HIDE DEF Solved
  <2> QED
    BY <1>4, <1>5
<1> QED
  BY <1>5, <1>6 DEF Solves

\* Solutions for two sets agree on their common finite subsets.
LEMMA FoldsAgree ==
  ASSUME NEW f, NEW S, NEW T, NEW i, NEW j, Solves(f, i, S), Solves(f, j, T),
         NEW u \in SUBSET (S \cap T), IsFiniteSet(u)
  PROVE  i[u] = j[u]
<1> DEFINE B == {s \in SUBSET u : i[s] # j[s]}
<1>1. ASSUME NEW s \in B
      PROVE  \E x \in s : s \ {x} \in B
  <2>1. i[s] = Folded(f, i, s) /\ j[s] = Folded(f, j, s)
    BY DEF Solves
  <2>2. s # {}
    BY <2>1 DEF Folded
  <2>3. Pick(s) \in s
    BY <2>2, PickIsElement
  <2>4. i[s \ {Pick(s)}] # j[s \ {Pick(s)}]
    BY <2>1, <2>2 DEF Folded
  <2> QED
    BY <2>3, <2>4
<1>2. B = {}
  <2> HIDE DEF B
  <2>1. B \in SUBSET SUBSET u
    BY DEF B
  <2> QED
    BY <1>1, <2>1, FiniteDescent
<1> QED
  BY <1>2

\* A sum is the value of a solution of its recursion equation.
LEMMA SumIsFold ==
  ASSUME NEW f, NEW S, IsFiniteSet(S)
  PROVE  \E iter : Solves(f, iter, S) /\ SumFunctionOnSet(f, S) = iter[S]
<1> DEFINE iter == CHOOSE g : Solves(f, g, S)
<1>1. Solves(f, iter, S)
  BY FoldExists
<1>2. SumFunctionOnSet(f, S) = iter[S]
  BY DEF SumFunctionOnSet, FoldFunctionOnSet, MapThenFoldSet, Solves, Folded, Pick
<1> HIDE DEF iter
<1> QED
  BY <1>1, <1>2

\* A sum over no element is 0.
LEMMA SumEmpty == \A f : SumFunctionOnSet(f, {}) = 0
<1> TAKE f
<1>1. PICK iter : Solves(f, iter, {}) /\ SumFunctionOnSet(f, {}) = iter[{}]
  BY SumIsFold, FS_EmptySet
<1> QED
  BY <1>1 DEF Solves, Folded

\* A sum over a non-empty set is the chosen element's value plus the rest.
LEMMA SumUnfolds ==
  ASSUME NEW f, NEW S, IsFiniteSet(S), S # {}
  PROVE  SumFunctionOnSet(f, S) = f[Pick(S)] + SumFunctionOnSet(f, S \ {Pick(S)})
<1> DEFINE R == S \ {Pick(S)}
<1>1. IsFiniteSet(R) /\ R \subseteq S
  BY FS_RemoveElement
<1>2. PICK i : Solves(f, i, S) /\ SumFunctionOnSet(f, S) = i[S]
  BY SumIsFold
<1>3. PICK j : Solves(f, j, R) /\ SumFunctionOnSet(f, R) = j[R]
  BY <1>1, SumIsFold
<1>4. i[R] = j[R]
  <2>1. R \in SUBSET (S \cap R)
    BY <1>1
  <2> HIDE DEF R
  <2> QED
    BY <1>1, <1>2, <1>3, <2>1, FoldsAgree
<1>5. i[S] = f[Pick(S)] + i[R]
  BY <1>2 DEF Solves, Folded
<1> QED
  BY <1>2, <1>3, <1>4, <1>5

\* A sum of naturals is a natural, one of integers an integer.
LEMMA SumType ==
  ASSUME NEW f, NEW S, IsFiniteSet(S), NEW V \in {Nat, Int}, \A x \in S : f[x] \in V
  PROVE  SumFunctionOnSet(f, S) \in V
<1> DEFINE B == {s \in SUBSET S : SumFunctionOnSet(f, s) \notin V}
<1>0. 0 \in V /\ \A a, b \in V : a + b \in V
  OBVIOUS
<1>1. ASSUME NEW s \in B
      PROVE  \E x \in s : s \ {x} \in B
  <2>1. s # {}
    BY <1>0, SumEmpty
  <2>2. Pick(s) \in s /\ IsFiniteSet(s)
    BY <2>1, PickIsElement, FS_Subset
  <2>3. SumFunctionOnSet(f, s) = f[Pick(s)] + SumFunctionOnSet(f, s \ {Pick(s)})
    BY <2>1, <2>2, SumUnfolds
  <2>4. SumFunctionOnSet(f, s \ {Pick(s)}) \notin V
    BY <1>0, <2>2, <2>3
  <2> QED
    BY <2>2, <2>4
<1>2. B = {}
  <2> HIDE DEF B
  <2>1. B \in SUBSET SUBSET S
    BY DEF B
  <2> QED
    BY <1>1, <2>1, FiniteDescent
<1> QED
  BY <1>2

\* Any element of the set can be taken out of the sum.
LEMMA SumSplit ==
  ASSUME NEW f, NEW S, IsFiniteSet(S), \A y \in S : f[y] \in Int, NEW x \in S
  PROVE  SumFunctionOnSet(f, S) = f[x] + SumFunctionOnSet(f, S \ {x})
<1> DEFINE Sum(s) == SumFunctionOnSet(f, s)
           Splits(s) == \A y \in s : Sum(s) = f[y] + Sum(s \ {y})
           B == {s \in SUBSET S : ~ Splits(s)}
<1>0. \A s \in SUBSET S : IsFiniteSet(s) /\ Sum(s) \in Int
  BY FS_Subset, SumType
<1>1. ASSUME NEW s \in B
      PROVE  \E y \in s : s \ {y} \in B
  <2> DEFINE p == Pick(s)
  <2>1. PICK y \in s : Sum(s) # f[y] + Sum(s \ {y})
    OBVIOUS
  <2>2. p \in s
    BY <2>1, PickIsElement
  <2>3. Sum(s) = f[p] + Sum(s \ {p})
    BY <1>0, <2>1, SumUnfolds
  <2>4. p # y
    BY <2>1, <2>3
  <2> HIDE DEF Sum, p
  <2>5. SUFFICES ASSUME Splits(s \ {y}), Splits(s \ {p})
                 PROVE  FALSE
    BY <2>2
  <2>6. (s \ {y}) \ {p} = (s \ {p}) \ {y}
    OBVIOUS
  <2>7. Sum(s \ {y}) = f[p] + Sum((s \ {y}) \ {p})
    BY <2>2, <2>4, <2>5
  <2>8. Sum(s \ {p}) = f[y] + Sum((s \ {y}) \ {p})
    BY <2>1, <2>4, <2>5, <2>6
  <2>9. f[p] \in Int /\ f[y] \in Int /\ Sum((s \ {y}) \ {p}) \in Int
    BY <1>0, <2>2
  <2> QED
    BY <2>1, <2>3, <2>7, <2>8, <2>9
<1>2. B = {}
  <2> HIDE DEF B
  <2>1. B \in SUBSET SUBSET S
    BY DEF B
  <2> QED
    BY <1>1, <2>1, FiniteDescent
<1> QED
  BY <1>2

\* A sum looks at the values of its elements only.
LEMMA SumCongruence ==
  ASSUME NEW f, NEW g, NEW S, IsFiniteSet(S), \A x \in S : f[x] = g[x]
  PROVE  SumFunctionOnSet(f, S) = SumFunctionOnSet(g, S)
<1> DEFINE B == {s \in SUBSET S : SumFunctionOnSet(f, s) # SumFunctionOnSet(g, s)}
<1>1. ASSUME NEW s \in B
      PROVE  \E x \in s : s \ {x} \in B
  <2>1. s # {} /\ IsFiniteSet(s)
    BY SumEmpty, FS_Subset
  <2>2. Pick(s) \in s
    BY <2>1, PickIsElement
  <2>3. /\ SumFunctionOnSet(f, s) = f[Pick(s)] + SumFunctionOnSet(f, s \ {Pick(s)})
        /\ SumFunctionOnSet(g, s) = g[Pick(s)] + SumFunctionOnSet(g, s \ {Pick(s)})
    BY <2>1, SumUnfolds
  <2>4. SumFunctionOnSet(f, s \ {Pick(s)}) # SumFunctionOnSet(g, s \ {Pick(s)})
    BY <2>2, <2>3
  <2> QED
    BY <2>2, <2>4
<1>2. B = {}
  <2> HIDE DEF B
  <2>1. B \in SUBSET SUBSET S
    BY DEF B
  <2> QED
    BY <1>1, <2>1, FiniteDescent
<1> QED
  BY <1>2

\* A new element adds its value to a sum.
LEMMA SumAdd ==
  ASSUME NEW f, NEW S, IsFiniteSet(S), NEW x, x \notin S, \A y \in S \cup {x} : f[y] \in Int
  PROVE  SumFunctionOnSet(f, S \cup {x}) = SumFunctionOnSet(f, S) + f[x]
<1>1. IsFiniteSet(S \cup {x}) /\ (S \cup {x}) \ {x} = S
  BY FS_AddElement
<1>2. SumFunctionOnSet(f, S) \in Int /\ f[x] \in Int
  BY SumType
<1> DEFINE T == S \cup {x}
<1>3. T \ {x} = S /\ x \in T /\ IsFiniteSet(T) /\ \A y \in T : f[y] \in Int
  BY <1>1
<1> HIDE DEF T
<1>4. SumFunctionOnSet(f, T) = f[x] + SumFunctionOnSet(f, T \ {x})
  BY <1>3, SumSplit
<1>5. SumFunctionOnSet(f, T \ {x}) = SumFunctionOnSet(f, S)
  BY <1>3, Zenon
<1>6. SumFunctionOnSet(f, T) = SumFunctionOnSet(f, S) + f[x]
  BY <1>2, <1>4, <1>5
<1> QED
  BY <1>6 DEF T

\* When one element's value changes, the sum changes by the difference.
LEMMA SumUpdate ==
  ASSUME NEW f, NEW g, NEW S, IsFiniteSet(S), NEW x \in S,
         \A y \in S : f[y] \in Int /\ g[y] \in Int,
         \A y \in S \ {x} : f[y] = g[y]
  PROVE  SumFunctionOnSet(g, S) = SumFunctionOnSet(f, S) - f[x] + g[x]
<1>1. IsFiniteSet(S \ {x})
  BY FS_RemoveElement
<1>2. SumFunctionOnSet(f, S \ {x}) = SumFunctionOnSet(g, S \ {x})
  BY <1>1, SumCongruence
<1>3. SumFunctionOnSet(f, S) = f[x] + SumFunctionOnSet(f, S \ {x})
  BY SumSplit
<1>4. SumFunctionOnSet(g, S) = g[x] + SumFunctionOnSet(g, S \ {x})
  BY SumSplit
<1>5. SumFunctionOnSet(f, S \ {x}) \in Int
  BY <1>1, SumType
<1> QED
  BY <1>2, <1>3, <1>4, <1>5

-----------------------------------------------------------------------------
(* Sums over the elements that a function marks *)

Marked(h, c) == {x \in DOMAIN h : h[x] = c}

\* Changing one mark leaves finitely many elements marked.
LEMMA MarkedFinite ==
  ASSUME NEW h, NEW c, IsFiniteSet(Marked(h, c)), NEW x,
         NEW g, DOMAIN g = DOMAIN h, \A y \in DOMAIN h \ {x} : g[y] = h[y]
  PROVE  IsFiniteSet(Marked(g, c))
<1>1. Marked(g, c) \in SUBSET (Marked(h, c) \cup {x})
  BY DEF Marked
<1>2. IsFiniteSet(Marked(h, c) \cup {x})
  BY FS_AddElement
<1> QED
  BY <1>1, <1>2, FS_Subset

\* Marking one more element adds its value.
LEMMA SumMark ==
  ASSUME NEW h, NEW c, NEW x \in DOMAIN h, h[x] # c, IsFiniteSet(Marked(h, c)),
         NEW f, \A y \in DOMAIN h : f[y] \in Int,
         NEW g, DOMAIN g = DOMAIN h, g[x] = c, \A y \in DOMAIN h \ {x} : g[y] = h[y]
  PROVE  SumFunctionOnSet(f, Marked(g, c)) = SumFunctionOnSet(f, Marked(h, c)) + f[x]
<1>1. Marked(g, c) = Marked(h, c) \cup {x} /\ x \notin Marked(h, c)
  BY DEF Marked
<1>2. \A y \in Marked(h, c) \cup {x} : f[y] \in Int
  BY DEF Marked
<1>3. SumFunctionOnSet(f, Marked(g, c)) = SumFunctionOnSet(f, Marked(h, c) \cup {x})
  BY <1>1, Zenon
<1>4. SumFunctionOnSet(f, Marked(h, c) \cup {x}) = SumFunctionOnSet(f, Marked(h, c)) + f[x]
  BY <1>1, <1>2, SumAdd
<1> QED
  BY <1>3, <1>4

\* Giving a marked element another mark takes its value away.
LEMMA SumUnmark ==
  ASSUME NEW h, NEW c, NEW x \in DOMAIN h, h[x] = c, IsFiniteSet(Marked(h, c)),
         NEW f, \A y \in DOMAIN h : f[y] \in Int,
         NEW g, DOMAIN g = DOMAIN h, g[x] # c, \A y \in DOMAIN h \ {x} : g[y] = h[y]
  PROVE  SumFunctionOnSet(f, Marked(g, c)) = SumFunctionOnSet(f, Marked(h, c)) - f[x]
<1>1. Marked(g, c) = Marked(h, c) \ {x} /\ x \in Marked(h, c)
  BY DEF Marked
<1>2. \A y \in Marked(h, c) : f[y] \in Int
  BY DEF Marked
<1>3. IsFiniteSet(Marked(h, c) \ {x})
  BY FS_RemoveElement
<1>4. SumFunctionOnSet(f, Marked(g, c)) = SumFunctionOnSet(f, Marked(h, c) \ {x})
  BY <1>1, Zenon
<1>5. SumFunctionOnSet(f, Marked(h, c)) = f[x] + SumFunctionOnSet(f, Marked(h, c) \ {x})
  BY <1>1, <1>2, SumSplit
<1>6. SumFunctionOnSet(f, Marked(h, c) \ {x}) \in Int /\ f[x] \in Int
  <2>1. \A y \in Marked(h, c) \ {x} : f[y] \in Int
    BY <1>2
  <2> QED
    BY <1>1, <1>2, <1>3, <2>1, SumType
<1> QED
  BY <1>4, <1>5, <1>6

\* A change of mark that neither gives nor takes mark c changes no sum over c.
LEMMA MarkedKept ==
  ASSUME NEW h, NEW c, NEW x \in DOMAIN h, h[x] # c,
         NEW g, DOMAIN g = DOMAIN h, g[x] # c, \A y \in DOMAIN h \ {x} : g[y] = h[y]
  PROVE  Marked(g, c) = Marked(h, c)
  BY DEF Marked

=============================================================================
