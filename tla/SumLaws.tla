------------------------------- MODULE SumLaws -------------------------------
(***************************************************************************)
(* Laws of sums over finite sets, for the counters of a frequency sketch   *)
(* and the weights of a KLL sketch.                                        *)
(***************************************************************************)
EXTENDS Integers, FiniteSetsExt, Functions, FiniteSetTheorems, WellFoundedInduction, TLAPS

-----------------------------------------------------------------------------
(* Facts about numbers and finite sets *)

LEMMA HasLeast ==
    ASSUME NEW T \in SUBSET Nat, T # {}
    PROVE  \E x \in T : \A y \in T : x <= y
  <1> DEFINE R == OpToRel(<, Nat)
  <1>1. IsWellFoundedOn(R, Nat)
    BY NatLessThanWellFounded
  <1> HIDE DEF R
  <1>2. PICK x \in T : \A y \in T : <<y, x>> \notin R
    BY <1>1, WFMin
  <1>3. \A y \in T : ~(y < x)
    BY <1>2 DEF R, OpToRel
  <1> QED
    BY <1>3

LEMMA MinBound ==
    ASSUME NEW T \in SUBSET Nat, T # {}, NEW n \in Nat, \A y \in T : y >= n
    PROVE  Min(T) >= n
  BY HasLeast DEF Min

-----------------------------------------------------------------------------
(* Sums: laws of SumFunction, by induction on the number of its arguments. *)

\* The recursion of MapThenFoldSet for a sum of f.
SumStep(g, f, s) ==
    IF s = {} THEN 0 ELSE LET x == CHOOSE y \in s : TRUE IN f[x] + g[s \ {x}]

SumEquation(g, f, S) == g = [s \in SUBSET S |-> SumStep(g, f, s)]

\* A table of the sums of f over all subsets of S.
Sums(g, f, S) ==
    /\ g \in [SUBSET S -> Nat]
    /\ g[{}] = 0
    /\ \A s \in SUBSET S : \A x \in s : g[s] = f[x] + g[s \ {x}]

\* An induction over the sizes of the subsets of a finite set.
LEMMA Sizes ==
    ASSUME NEW S, IsFiniteSet(S), NEW Bad \in SUBSET (SUBSET S), Bad # {}
    PROVE  \E s \in Bad : \A t \in Bad : Cardinality(s) <= Cardinality(t)
  <1> DEFINE T == {Cardinality(s) : s \in Bad}
  <1>1. T \in SUBSET Nat /\ T # {}
    BY FS_Subset, FS_CardinalityType
  <1>2. PICK n \in T : \A m \in T : n <= m
    BY <1>1, HasLeast
  <1> QED
    BY <1>2

LEMMA Smaller ==
    ASSUME NEW S, IsFiniteSet(S), NEW s \in SUBSET S, NEW x \in s
    PROVE  /\ s \ {x} \in SUBSET S
           /\ Cardinality(s) \in Nat /\ Cardinality(s \ {x}) \in Nat
           /\ Cardinality(s \ {x}) = Cardinality(s) - 1
  BY FS_Subset, FS_CardinalityType, FS_RemoveElement

\* The recursion has a solution.
LEMMA SumDefined ==
    ASSUME NEW S, IsFiniteSet(S), NEW f \in [S -> Nat]
    PROVE  \E g \in [SUBSET S -> Nat] : SumEquation(g, f, S)
  <1> DEFINE Upto(g, n) == \A s \in SUBSET S : Cardinality(s) < n => g[s] = SumStep(g, f, s)
             Missing == {n \in Nat : ~\E g \in [SUBSET S -> Nat] : Upto(g, n)}
  <1>0. Cardinality(S) \in Nat /\ \A s \in SUBSET S :
            Cardinality(s) \in Nat /\ Cardinality(s) <= Cardinality(S)
    BY FS_Subset, FS_CardinalityType
  <1>1. ASSUME Missing # {} PROVE FALSE
    <2>0. Missing \in SUBSET Nat
      OBVIOUS
    <2> HIDE DEF Missing
    <2>1. PICK n \in Missing : \A m \in Missing : n <= m
      BY <1>1, <2>0, HasLeast
    <2>2. CASE n = 0
      <3> DEFINE g == [s \in SUBSET S |-> 0]
      <3>1. g \in [SUBSET S -> Nat] /\ Upto(g, 0)
        BY <1>0
      <3> QED
        BY <2>1, <2>2, <3>1 DEF Missing
    <2>3. CASE n # 0
      <3>1. n \in Nat /\ n - 1 \in Nat /\ n - 1 \notin Missing
        BY <2>0, <2>1, <2>3
      <3>2. PICK g \in [SUBSET S -> Nat] : Upto(g, n - 1)
        BY <3>1 DEF Missing
      <3> DEFINE h == [s \in SUBSET S |-> SumStep(g, f, s)]
      <3>3. ASSUME NEW s \in SUBSET S
            PROVE  SumStep(g, f, s) \in Nat
        <4>1. CASE s = {}
          BY <4>1 DEF SumStep
        <4>2. CASE s # {}
          <5> DEFINE x == CHOOSE y \in s : TRUE
          <5>1. x \in s
            BY <4>2
          <5>2. f[x] \in Nat /\ g[s \ {x}] \in Nat
            BY <5>1
          <5> QED
            BY <4>2, <5>2 DEF SumStep
        <4> QED
          BY <4>1, <4>2
      <3>4. h \in [SUBSET S -> Nat]
        BY <3>3
      <3>5. ASSUME NEW s \in SUBSET S, Cardinality(s) < n
            PROVE  h[s] = SumStep(h, f, s)
        <4>1. CASE s = {}
          BY <4>1 DEF SumStep
        <4>2. CASE s # {}
          <5> DEFINE x == CHOOSE y \in s : TRUE
          <5>1. x \in s
            BY <4>2
          <5> HIDE DEF x
          <5>2. s \ {x} \in SUBSET S /\ Cardinality(s \ {x}) < n - 1
            BY <3>1, <3>5, <5>1, Smaller
          <5>3. g[s \ {x}] = SumStep(g, f, s \ {x})
            BY <3>2, <5>2
          <5>4. h[s \ {x}] = g[s \ {x}]
            BY <5>2, <5>3
          <5>5. h[s] = SumStep(g, f, s)
            OBVIOUS
          <5> HIDE DEF h
          <5>6. SumStep(g, f, s) = f[x] + g[s \ {x}] /\ SumStep(h, f, s) = f[x] + h[s \ {x}]
            BY <4>2 DEF SumStep, x
          <5> QED
            BY <5>4, <5>5, <5>6
        <4> QED
          BY <4>1, <4>2
      <3> HIDE DEF h
      <3>6. Upto(h, n)
        BY <3>5
      <3> QED
        BY <2>1, <3>4, <3>6 DEF Missing
    <2> QED
      BY <2>2, <2>3
  <1>2. Cardinality(S) + 1 \in Nat
    BY <1>0
  <1>3. PICK g \in [SUBSET S -> Nat] : Upto(g, Cardinality(S) + 1)
    BY <1>1, <1>2
  <1>4. \A s \in SUBSET S : g[s] = SumStep(g, f, s)
    BY <1>0, <1>3
  <1> QED
    BY <1>4 DEF SumEquation

\* The order in which the arguments are taken does not matter.
LEMMA SumsOfEquation ==
    ASSUME NEW S, IsFiniteSet(S), NEW f \in [S -> Nat],
           NEW g \in [SUBSET S -> Nat], SumEquation(g, f, S)
    PROVE  Sums(g, f, S)
  <1>1. \A s \in SUBSET S : g[s] = SumStep(g, f, s)
    BY DEF SumEquation
  <1>2. g[{}] = 0
    BY <1>1 DEF SumStep
  <1> DEFINE Bad == {s \in SUBSET S : ~\A x \in s : g[s] = f[x] + g[s \ {x}]}
  <1>3. ASSUME Bad # {} PROVE FALSE
    <2>0. Bad \in SUBSET (SUBSET S)
      OBVIOUS
    <2> HIDE DEF Bad
    <2>1. PICK s \in Bad : \A t \in Bad : Cardinality(s) <= Cardinality(t)
      BY <1>3, <2>0, Sizes
    <2>2. PICK x \in s : ~(g[s] = f[x] + g[s \ {x}])
      BY DEF Bad
    <2> DEFINE y == CHOOSE z \in s : TRUE
    <2>3. y \in s
      BY <2>2
    <2>4. g[s] = f[y] + g[s \ {y}]
      <3>1. g[s] = SumStep(g, f, s) /\ s # {}
        BY <1>1, <2>0, <2>2
      <3> QED
        BY <3>1 DEF SumStep
    <2> HIDE DEF y
    <2>5. x # y
      BY <2>2, <2>4
    <2>6. /\ s \ {x} \in SUBSET S /\ s \ {y} \in SUBSET S
          /\ s \ {x} \notin Bad /\ s \ {y} \notin Bad
      <3>1. /\ s \in SUBSET S /\ Cardinality(s) \in Nat
            /\ Cardinality(s \ {x}) = Cardinality(s) - 1
            /\ Cardinality(s \ {y}) = Cardinality(s) - 1
        BY <2>0, <2>3, Smaller
      <3> QED
        BY <2>1, <3>1
    <2>7. /\ g[s \ {x}] = f[y] + g[(s \ {x}) \ {y}]
          /\ g[s \ {y}] = f[x] + g[(s \ {y}) \ {x}]
      BY <2>3, <2>5, <2>6 DEF Bad
    <2>8. (s \ {x}) \ {y} = (s \ {y}) \ {x} /\ (s \ {x}) \ {y} \in SUBSET S
      BY <2>0
    <2>9. /\ f[x] \in Nat /\ f[y] \in Nat /\ g[(s \ {x}) \ {y}] \in Nat
          /\ g[s \ {x}] \in Nat /\ g[s \ {y}] \in Nat
      BY <2>0, <2>3, <2>6, <2>8
    <2>10. \A a, b, c, d, h, i \in Nat : a = b + c /\ c = d + h /\ i = b + h => a = d + i
      OBVIOUS
    <2>11. g[s] \in Nat /\ g[s] = f[y] + g[s \ {y}]
           /\ g[s \ {y}] = f[x] + g[(s \ {x}) \ {y}]
           /\ g[s \ {x}] = f[y] + g[(s \ {x}) \ {y}]
      BY <2>0, <2>4, <2>7, <2>8
    <2>12. g[s] = f[x] + g[s \ {x}]
      BY <2>9, <2>10, <2>11
    <2> QED
      BY <2>2, <2>12
  <1> QED
    BY <1>2, <1>3 DEF Sums

LEMMA SumOf ==
    ASSUME NEW S, IsFiniteSet(S), NEW f \in [S -> Nat]
    PROVE  \E g : Sums(g, f, S) /\ SumFunction(f) = g[S]
  <1> DEFINE g == CHOOSE h : SumEquation(h, f, S)
  <1>1. SumFunction(f) = g[S]
    <2>1. DOMAIN f = S
      OBVIOUS
    <2>2. SumFunctionOnSet(f, S) = (CHOOSE h : h = [s \in SUBSET S |-> SumStep(h, f, s)])[S]
      BY Zenon DEF SumFunctionOnSet, FoldFunctionOnSet, MapThenFoldSet, SumStep
    <2> QED
      BY <2>1, <2>2, Zenon DEF SumFunction, SumEquation
  <1>2. SumEquation(g, f, S)
    BY SumDefined
  <1> HIDE DEF g
  <1>3. g \in [SUBSET S -> Nat]
    <2>1. PICK h \in [SUBSET S -> Nat] : SumEquation(h, f, S)
      BY SumDefined
    <2>2. \A s \in SUBSET S : g[s] = SumStep(g, f, s) /\ h[s] = SumStep(h, f, s)
      BY <1>2, <2>1 DEF SumEquation
    <2> DEFINE Bad == {s \in SUBSET S : g[s] # h[s]}
    <2>3. ASSUME Bad # {} PROVE FALSE
      <3>0. Bad \in SUBSET (SUBSET S)
        OBVIOUS
      <3> HIDE DEF Bad
      <3>1. PICK s \in Bad : \A t \in Bad : Cardinality(s) <= Cardinality(t)
        BY <2>3, <3>0, Sizes
      <3>2. s \in SUBSET S /\ g[s] # h[s]
        BY DEF Bad
      <3>3. s # {}
        BY <2>2, <3>2 DEF SumStep
      <3> DEFINE x == CHOOSE y \in s : TRUE
      <3>4. x \in s
        BY <3>3
      <3>5. g[s] = f[x] + g[s \ {x}] /\ h[s] = f[x] + h[s \ {x}]
        BY <2>2, <3>2, <3>3 DEF SumStep
      <3> HIDE DEF x
      <3>6. /\ s \ {x} \in SUBSET S /\ Cardinality(s) \in Nat
            /\ Cardinality(s \ {x}) = Cardinality(s) - 1
        BY <3>2, <3>4, Smaller
      <3>7. s \ {x} \notin Bad
        BY <3>1, <3>6
      <3> QED
        BY <3>2, <3>5, <3>6, <3>7 DEF Bad
    <2>4. g = [s \in SUBSET S |-> SumStep(g, f, s)]
      BY <1>2 DEF SumEquation
    <2> QED
      BY <2>3, <2>4
  <1> QED
    BY <1>1, <1>2, <1>3, SumsOfEquation

\* Sums depend on what is summed alone.
LEMMA SumsAgree ==
    ASSUME NEW S, IsFiniteSet(S), NEW f, NEW g, Sums(g, f, S),
           NEW R, NEW e, NEW h, Sums(h, e, R),
           NEW T \in SUBSET S, T \in SUBSET R, \A x \in T : f[x] = e[x]
    PROVE  g[T] = h[T]
  <1> DEFINE Bad == {s \in SUBSET T : g[s] # h[s]}
  <1>1. ASSUME Bad # {} PROVE FALSE
    <2>0. Bad \in SUBSET (SUBSET S)
      OBVIOUS
    <2> HIDE DEF Bad
    <2>1. PICK s \in Bad : \A t \in Bad : Cardinality(s) <= Cardinality(t)
      BY <1>1, <2>0, Sizes
    <2>2. s \in SUBSET T /\ s \in SUBSET S /\ s \in SUBSET R /\ g[s] # h[s]
      BY DEF Bad
    <2>3. s # {}
      BY <2>2 DEF Sums
    <2>4. PICK x \in s : TRUE
      BY <2>3
    <2>5. /\ s \ {x} \in SUBSET T /\ Cardinality(s) \in Nat
          /\ Cardinality(s \ {x}) = Cardinality(s) - 1
      BY <2>2, <2>4, Smaller
    <2>6. s \ {x} \notin Bad
      BY <2>1, <2>5
    <2>7. g[s] = f[x] + g[s \ {x}] /\ h[s] = e[x] + h[s \ {x}] /\ f[x] = e[x]
      BY <2>2, <2>4 DEF Sums
    <2> QED
      BY <2>2, <2>5, <2>6, <2>7 DEF Bad
  <1> QED
    BY <1>1

\* Functions that can be summed.
Summable(f) == IsFiniteSet(DOMAIN f) /\ f \in [DOMAIN f -> Nat]

\* Their sum, and its split at one argument.
Splits(g, f) ==
    /\ Sums(g, f, DOMAIN f)
    /\ SumFunction(f) = g[DOMAIN f] /\ g[DOMAIN f] \in Nat
    /\ \A x \in DOMAIN f :
          /\ f[x] \in Nat /\ g[DOMAIN f \ {x}] \in Nat
          /\ g[DOMAIN f] = g[DOMAIN f \ {x}] + f[x]

LEMMA SumSplit ==
    ASSUME NEW f, Summable(f)
    PROVE  \E g : Splits(g, f)
  <1>1. PICK g : Sums(g, f, DOMAIN f) /\ SumFunction(f) = g[DOMAIN f]
    BY SumOf DEF Summable
  <1> DEFINE S == DOMAIN f
  <1>2. S \in SUBSET S /\ f \in [S -> Nat]
    BY DEF Summable
  <1> HIDE DEF S
  <1>3. Sums(g, f, S)
    BY <1>1 DEF S
  <1>4. g[S] \in Nat
    BY <1>2, <1>3 DEF Sums
  <1>5. ASSUME NEW x \in S
        PROVE  f[x] \in Nat /\ g[S \ {x}] \in Nat /\ g[S] = g[S \ {x}] + f[x]
    <2>1. S \ {x} \in SUBSET S
      OBVIOUS
    <2>2. g[S] = f[x] + g[S \ {x}]
      BY <1>2, <1>3 DEF Sums
    <2>3. f[x] \in Nat /\ g[S \ {x}] \in Nat
      BY <1>2, <1>3, <2>1 DEF Sums
    <2> QED
      BY <2>2, <2>3
  <1> QED
    BY <1>1, <1>4, <1>5 DEF S, Splits

\* A summand comes.
LEMMA SumAdds ==
    ASSUME NEW f, Summable(f), NEW e, Summable(e), NEW y \in DOMAIN e,
           DOMAIN e \ {y} = DOMAIN f, \A w \in DOMAIN f : f[w] = e[w]
    PROVE  SumFunction(f) \in Nat /\ SumFunction(e) = SumFunction(f) + e[y]
  <1>1. PICK g : Splits(g, f)
    BY SumSplit
  <1>2. PICK h : Splits(h, e)
    BY SumSplit
  <1>3. g[DOMAIN f] = h[DOMAIN f]
    BY <1>1, <1>2, SumsAgree DEF Splits, Summable
  <1>4. h[DOMAIN e] = h[DOMAIN f] + e[y]
    BY <1>2 DEF Splits
  <1> QED
    BY <1>1, <1>2, <1>3, <1>4 DEF Splits

\* A summand is replaced.
LEMMA SumSwaps ==
    ASSUME NEW f, Summable(f), NEW x \in DOMAIN f,
           NEW e, Summable(e), NEW y \in DOMAIN e,
           DOMAIN f \ {x} = DOMAIN e \ {y},
           \A w \in DOMAIN f \ {x} : f[w] = e[w]
    PROVE  /\ SumFunction(f) \in Nat /\ f[x] \in Nat
           /\ SumFunction(e) = SumFunction(f) - f[x] + e[y]
  <1> DEFINE T == DOMAIN f \ {x}
  <1>1. PICK g : Splits(g, f)
    BY SumSplit
  <1>2. PICK h : Splits(h, e)
    BY SumSplit
  <1>3. g[T] = h[T]
    BY <1>1, <1>2, SumsAgree DEF Splits, Summable
  <1>4. h[DOMAIN e] = h[T] + e[y] /\ e[y] \in Nat
    BY <1>2 DEF Splits
  <1>5. g[DOMAIN f] = g[T] + f[x] /\ g[T] \in Nat /\ f[x] \in Nat
    BY <1>1 DEF Splits
  <1> HIDE DEF T
  <1> QED
    BY <1>1, <1>2, <1>3, <1>4, <1>5 DEF Splits

\* A sum is at least as large as its least summand so often.
LEMMA SumAtLeast ==
    ASSUME NEW S, IsFiniteSet(S), NEW f \in [S -> Nat], NEW m \in Nat,
           \A x \in S : m <= f[x]
    PROVE  m * Cardinality(S) <= SumFunction(f)
  <1>1. PICK g : Sums(g, f, S) /\ SumFunction(f) = g[S]
    BY SumOf
  <1> DEFINE Bad == {s \in SUBSET S : ~(m * Cardinality(s) <= g[s])}
  <1>2. ASSUME Bad # {} PROVE FALSE
    <2>0. Bad \in SUBSET (SUBSET S)
      OBVIOUS
    <2>1. PICK s \in Bad : \A t \in Bad : Cardinality(s) <= Cardinality(t)
      <3> HIDE DEF Bad
      <3> QED
        BY <1>2, <2>0, Sizes
    <2>2. CASE s = {}
      <3>1. Cardinality(s) = 0 /\ g[s] = 0
        BY <1>1, <2>2, FS_EmptySet DEF Sums
      <3> QED
        BY <3>1
    <2>3. CASE s # {}
      <3>1. PICK x \in s : TRUE
        BY <2>3
      <3> DEFINE n == Cardinality(s)
                 k == Cardinality(s \ {x})
      <3>2. /\ s \ {x} \in SUBSET S /\ n \in Nat /\ k \in Nat /\ k = n - 1
        BY <3>1, Smaller
      <3>3. s \ {x} \notin Bad
        BY <2>1, <3>2
      <3>4. m * k <= g[s \ {x}]
        BY <3>2, <3>3
      <3>5. g[s] = f[x] + g[s \ {x}] /\ g[s \ {x}] \in Nat /\ f[x] \in Nat /\ m <= f[x]
        BY <1>1, <3>1, <3>2 DEF Sums
      <3> HIDE DEF n, k
      <3>6. m * n = m * k + m /\ m * k \in Nat /\ m * n \in Nat
        BY <3>2
      <3>7. m * n <= g[s]
        BY <3>4, <3>5, <3>6
      <3> QED
        BY <3>7 DEF n
    <2> QED
      BY <2>2, <2>3
  <1> QED
    BY <1>1, <1>2
LEMMA SumZero ==
    ASSUME NEW S, IsFiniteSet(S), NEW f \in [S -> Nat], \A x \in S : f[x] = 0
    PROVE  SumFunction(f) = 0
  <1>1. PICK g : Sums(g, f, S) /\ SumFunction(f) = g[S]
    BY SumOf
  <1> DEFINE Bad == {s \in SUBSET S : g[s] # 0}
  <1>2. ASSUME Bad # {} PROVE FALSE
    <2>0. Bad \in SUBSET (SUBSET S)
      OBVIOUS
    <2>1. PICK s \in Bad : \A t \in Bad : Cardinality(s) <= Cardinality(t)
      <3> HIDE DEF Bad
      <3> QED
        BY <1>2, <2>0, Sizes
    <2>2. PICK x \in s : TRUE
      BY <1>1, <2>1 DEF Sums
    <2>3. s \ {x} \in SUBSET S /\ s \ {x} \notin Bad
      BY <2>1, <2>2, Smaller
    <2> QED
      BY <1>1, <2>1, <2>2, <2>3 DEF Sums
  <1> QED
    BY <1>1, <1>2

LEMMA SumMonotone ==
    ASSUME NEW S, IsFiniteSet(S), NEW f \in [S -> Nat], NEW e \in [S -> Nat],
           \A x \in S : f[x] <= e[x]
    PROVE  SumFunction(f) <= SumFunction(e)
  <1>1. PICK g : Sums(g, f, S) /\ SumFunction(f) = g[S]
    BY SumOf
  <1>2. PICK h : Sums(h, e, S) /\ SumFunction(e) = h[S]
    BY SumOf
  <1> DEFINE Bad == {s \in SUBSET S : ~(g[s] <= h[s])}
  <1>3. ASSUME Bad # {} PROVE FALSE
    <2>0. Bad \in SUBSET (SUBSET S)
      OBVIOUS
    <2>1. PICK s \in Bad : \A t \in Bad : Cardinality(s) <= Cardinality(t)
      <3> HIDE DEF Bad
      <3> QED
        BY <1>3, <2>0, Sizes
    <2>2. PICK x \in s : TRUE
      <3>1. g[{}] = 0 /\ h[{}] = 0
        BY <1>1, <1>2 DEF Sums
      <3>2. g[{}] <= h[{}] /\ ~(g[s] <= h[s])
        BY <2>1, <3>1
      <3> HIDE DEF Bad
      <3> QED
        BY <3>2
    <2>3. s \ {x} \in SUBSET S /\ s \ {x} \notin Bad
      BY <2>1, <2>2, Smaller
    <2>4. g[s \ {x}] <= h[s \ {x}] /\ g[s \ {x}] \in Nat /\ h[s \ {x}] \in Nat
      BY <1>1, <1>2, <2>3 DEF Sums
    <2>5. g[s] = f[x] + g[s \ {x}] /\ h[s] = e[x] + h[s \ {x}]
      BY <1>1, <1>2, <2>1, <2>2 DEF Sums
    <2>6. f[x] \in Nat /\ e[x] \in Nat /\ f[x] <= e[x] /\ ~(g[s] <= h[s])
      BY <2>1, <2>2
    <2> HIDE DEF Bad
    <2> QED
      BY <2>4, <2>5, <2>6
  <1> QED
    BY <1>1, <1>2, <1>3
=============================================================================
