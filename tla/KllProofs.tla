------------------------------ MODULE KllProofs ------------------------------
(***************************************************************************)
(* What a KLL sketch guarantees, for every stream of numbers, capacity and *)
(* random offsets: no weight is lost in a cascade of compactions, and      *)
(* ranks and quartiles are as close as the compactions allow.              *)
(***************************************************************************)
EXTENDS KllSketch, SumLaws, SequenceTheorems

-----------------------------------------------------------------------------
(* Weights *)

\* The recursion of Weight.
WeightStep(f, n) == IF n = 1 THEN 1 ELSE 2 * f[n - 1]
WeightEquation(f) == f = [n \in Nat \ {0} |-> WeightStep(f, n)]

\* The weights of the first k levels.
Doubles(f, k) == f \in [1..k -> Nat] /\ \A n \in 1..k : f[n] = WeightStep(f, n)

LEMMA DoublesExists == \A k \in Nat : \E f : Doubles(f, k)
  <1> DEFINE Missing == {k \in Nat : ~\E f : Doubles(f, k)}
  <1>1. ASSUME Missing # {} PROVE FALSE
    <2>1. PICK k \in Missing : \A j \in Missing : k <= j
      <3>1. Missing \in SUBSET Nat
        OBVIOUS
      <3> HIDE DEF Missing
      <3> QED
        BY <1>1, <3>1, HasLeast
    <2>2. CASE k = 0
      <3>1. Doubles([n \in 1..0 |-> 0], 0)
        BY DEF Doubles
      <3> QED
        BY <2>1, <2>2, <3>1
    <2>3. CASE k # 0
      <3>1. k \in Nat /\ k - 1 \in Nat /\ k - 1 \notin Missing
        BY <2>1, <2>3
      <3>2. PICK f : Doubles(f, k - 1)
        BY <3>1
      <3> DEFINE g == [n \in 1..k |-> WeightStep(f, n)]
      <3>3. \A n \in 1..k : WeightStep(f, n) \in Nat
        BY <3>1, <3>2 DEF WeightStep, Doubles
      <3>4. \A n \in 1..k : WeightStep(g, n) = WeightStep(f, n)
        <4>1. \A n \in 1..k : n # 1 => n - 1 \in 1..k - 1 /\ n - 1 \in 1..k
          BY <3>1
        <4>2. \A n \in 1..k - 1 : n \in 1..k /\ g[n] = f[n]
          BY <3>1, <3>2 DEF Doubles
        <4> HIDE DEF g
        <4> QED
          BY <4>1, <4>2 DEF WeightStep
      <3>5. Doubles(g, k)
        BY <3>3, <3>4 DEF Doubles
      <3> QED
        BY <2>1, <3>5
    <2> QED
      BY <2>2, <2>3
  <1> QED
    BY <1>1

LEMMA DoublesUnique ==
    ASSUME NEW k \in Nat, NEW f, Doubles(f, k), NEW j \in Nat, NEW g, Doubles(g, j)
    PROVE  \A n \in 1..k : n \in 1..j => f[n] = g[n]
  <1> DEFINE Bad == {n \in 1..k : n \in 1..j /\ f[n] # g[n]}
  <1>1. ASSUME Bad # {} PROVE FALSE
    <2>1. PICK n \in Bad : \A m \in Bad : n <= m
      <3>1. Bad \in SUBSET Nat
        OBVIOUS
      <3> HIDE DEF Bad
      <3> QED
        BY <1>1, <3>1, HasLeast
    <2>2. n \in 1..k /\ n \in 1..j /\ f[n] = WeightStep(f, n) /\ g[n] = WeightStep(g, n)
      BY <2>1 DEF Doubles
    <2>3. n # 1 => n - 1 \notin Bad /\ n - 1 \in 1..k /\ n - 1 \in 1..j
      BY <2>1, <2>2
    <2> QED
      BY <2>1, <2>2, <2>3 DEF WeightStep
  <1> QED
    BY <1>1

\* The weights double from level to level.
LEMMA WeightLaws ==
    /\ Weight[1] = 1
    /\ \A n \in Nat \ {0} : Weight[n] \in Nat \ {0} /\ Weight[n + 1] = 2 * Weight[n]
  <1> DEFINE F(k) == CHOOSE f : Doubles(f, k)
             g == [n \in Nat \ {0} |-> F(n)[n]]
  <1>1. \A k \in Nat : Doubles(F(k), k)
    BY DoublesExists
  <1> HIDE DEF F
  <1>2. ASSUME NEW n \in Nat \ {0} PROVE g[n] = WeightStep(g, n)
    <2>1. n \in 1..n /\ g[n] = F(n)[n] /\ F(n)[n] = WeightStep(F(n), n)
      BY <1>1 DEF Doubles
    <2>2. ASSUME n # 1 PROVE F(n)[n - 1] = g[n - 1]
      <3>1. n - 1 \in Nat \ {0} /\ n - 1 \in 1..n - 1 /\ n - 1 \in 1..n
        BY <2>2
      <3>2. Doubles(F(n), n) /\ Doubles(F(n - 1), n - 1)
        BY <1>1, <3>1
      <3>3. F(n)[n - 1] = F(n - 1)[n - 1]
        BY <3>1, <3>2, DoublesUnique
      <3> QED
        BY <3>1, <3>3
    <2> HIDE DEF g
    <2> QED
      BY <2>1, <2>2 DEF WeightStep
  <1>3. WeightEquation(g)
    BY <1>2 DEF WeightEquation
  <1>4. Weight = CHOOSE f : WeightEquation(f)
    BY Zenon DEF Weight, WeightEquation, WeightStep
  <1> HIDE DEF g
  <1>5. WeightEquation(Weight)
    BY <1>3, <1>4
  <1>6. \A n \in Nat \ {0} : Weight[n] = WeightStep(Weight, n)
    BY <1>5 DEF WeightEquation
  <1>7. Weight[1] = 1
    BY <1>6 DEF WeightStep
  <1>8. \A n \in Nat \ {0} : n + 1 \in Nat \ {0} /\ Weight[n + 1] = 2 * Weight[n]
    BY <1>6 DEF WeightStep
  <1> DEFINE Bad == {n \in Nat \ {0} : Weight[n] \notin Nat \ {0}}
  <1>9. ASSUME Bad # {} PROVE FALSE
    <2>1. PICK n \in Bad : \A m \in Bad : n <= m
      <3>1. Bad \in SUBSET Nat
        OBVIOUS
      <3> HIDE DEF Bad
      <3> QED
        BY <1>9, <3>1, HasLeast
    <2>2. n # 1
      BY <1>7, <2>1
    <2>3. n \in Nat \ {0} /\ n - 1 \in Nat \ {0} /\ n - 1 \notin Bad /\ n - 1 + 1 = n
      BY <2>1, <2>2
    <2>4. Weight[n] = 2 * Weight[n - 1] /\ Weight[n - 1] \in Nat \ {0}
      BY <1>8, <2>3
    <2> QED
      BY <2>1, <2>4
  <1> QED
    BY <1>7, <1>8, <1>9

-----------------------------------------------------------------------------
(* How often values occur in a level *)

Positions(values, vs) == {i \in DOMAIN values : values[i] \in vs}

LEMMA PositionsFinite ==
    ASSUME NEW values \in Seq(Value), NEW vs
    PROVE  /\ IsFiniteSet(Positions(values, vs)) /\ Positions(values, vs) \subseteq 1..Len(values)
           /\ Occurrences(values, vs) = Cardinality(Positions(values, vs))
           /\ Occurrences(values, vs) \in Nat /\ Occurrences(values, vs) <= Len(values)
  <1>1. IsFiniteSet(1..Len(values)) /\ Cardinality(1..Len(values)) = Len(values)
    <2>1. Len(values) \in Nat
      OBVIOUS
    <2>2. 1 \in Int /\ Len(values) \in Int
      BY <2>1
    <2>3. /\ IsFiniteSet(1..Len(values))
          /\ Cardinality(1..Len(values)) = IF 1 > Len(values) THEN 0 ELSE Len(values) - 1 + 1
      BY ONLY <2>2, FS_Interval
    <2> QED
      BY <2>1, <2>3
  <1>2. Positions(values, vs) \in SUBSET (1..Len(values))
    BY DEF Positions
  <1>3. Occurrences(values, vs) = Cardinality(Positions(values, vs))
    BY DEF Occurrences, Positions
  <1> QED
    BY <1>1, <1>2, <1>3, FS_Subset, FS_CardinalityType

LEMMA OccurrencesGrow ==
    ASSUME NEW values \in Seq(Value), NEW vs, NEW ws,
           \A i \in DOMAIN values : values[i] \in vs => values[i] \in ws
    PROVE  Occurrences(values, vs) <= Occurrences(values, ws)
  <1>1. Positions(values, vs) \in SUBSET Positions(values, ws)
    BY DEF Positions
  <1> QED
    BY <1>1, PositionsFinite, FS_Subset

LEMMA OccurrencesAll ==
    ASSUME NEW values \in Seq(Value)
    PROVE  Occurrences(values, Value) = Len(values)
  <1>1. Positions(values, Value) = 1..Len(values)
    BY ElementOfSeq DEF Positions
  <1> QED
    BY <1>1, PositionsFinite, FS_Interval

LEMMA OccurrencesNone ==
    ASSUME NEW vs PROVE Occurrences(<<>>, vs) = 0
  <1>1. Positions(<<>>, vs) = {}
    BY DEF Positions
  <1>2. <<>> \in Seq(Value)
    OBVIOUS
  <1> QED
    BY <1>1, <1>2, PositionsFinite, FS_EmptySet

LEMMA OccurrencesAppend ==
    ASSUME NEW values \in Seq(Value), NEW v \in Value, NEW vs
    PROVE  Occurrences(Append(values, v), vs) =
               Occurrences(values, vs) + (IF v \in vs THEN 1 ELSE 0)
  <1> DEFINE new == Append(values, v)
             P == Positions(values, vs)
  <1>1. /\ new \in Seq(Value) /\ DOMAIN new = 1..Len(values) + 1
        /\ DOMAIN values = 1..Len(values) /\ Len(values) \in Nat
        /\ new[Len(values) + 1] = v /\ \A i \in 1..Len(values) : new[i] = values[i]
    OBVIOUS
  <1>2. IsFiniteSet(P) /\ P \subseteq 1..Len(values) /\ Len(values) + 1 \notin P
    BY <1>1, PositionsFinite
  <1>3. Positions(new, vs) = IF v \in vs THEN P \cup {Len(values) + 1} ELSE P
    <2> HIDE DEF new
    <2> QED
      BY <1>1 DEF Positions
  <1> HIDE DEF P, new
  <1>4. Cardinality(P \cup {Len(values) + 1}) = Cardinality(P) + 1
    BY <1>2, FS_AddElement
  <1>5. Occurrences(new, vs) = Cardinality(Positions(new, vs)) /\ Cardinality(P) \in Nat
    BY <1>1, <1>2, PositionsFinite, FS_CardinalityType
  <1>6. Occurrences(values, vs) = Cardinality(P)
    BY PositionsFinite DEF P
  <1> QED
    BY <1>3, <1>4, <1>5, <1>6 DEF new

LEMMA OccurrencesConcat ==
    ASSUME NEW s \in Seq(Value), NEW t \in Seq(Value), NEW vs
    PROVE  Occurrences(s \o t, vs) = Occurrences(s, vs) + Occurrences(t, vs)
  <1> DEFINE P == Positions(s, vs)
             Q == Positions(t, vs)
             R == {Len(s) + i : i \in Q}
             f == [i \in Q |-> Len(s) + i]
  <1>1. /\ s \o t \in Seq(Value) /\ Len(s \o t) = Len(s) + Len(t)
        /\ DOMAIN (s \o t) = 1..Len(s) + Len(t) /\ Len(s) \in Nat /\ Len(t) \in Nat
        /\ DOMAIN s = 1..Len(s) /\ DOMAIN t = 1..Len(t)
        /\ \A i \in 1..Len(s) + Len(t) :
              (s \o t)[i] = IF i <= Len(s) THEN s[i] ELSE t[i - Len(s)]
    BY ConcatProperties, LenProperties
  <1>2. /\ IsFiniteSet(P) /\ P \subseteq 1..Len(s)
        /\ IsFiniteSet(Q) /\ Q \subseteq 1..Len(t)
    BY PositionsFinite
  <1>3. Positions(s \o t, vs) = P \cup R
    <2>1. ASSUME NEW i \in Positions(s \o t, vs) PROVE i \in P \cup R
      <3>1. i \in 1..Len(s) + Len(t) /\ (s \o t)[i] \in vs
        BY <1>1 DEF Positions
      <3>2. CASE i <= Len(s)
        BY <1>1, <3>1, <3>2 DEF Positions
      <3>3. CASE ~(i <= Len(s))
        <4>1. i - Len(s) \in Q /\ i = Len(s) + (i - Len(s))
          BY <1>1, <3>1, <3>3 DEF Positions
        <4> QED
          BY <4>1
      <3> QED
        BY <3>2, <3>3
    <2>2. ASSUME NEW i \in P PROVE i \in Positions(s \o t, vs)
      BY <1>1 DEF Positions
    <2>3. ASSUME NEW j \in Q PROVE Len(s) + j \in Positions(s \o t, vs)
      <3>1. j \in 1..Len(t) /\ t[j] \in vs
        BY <1>1 DEF Positions
      <3>2. Len(s) + j \in 1..Len(s) + Len(t) /\ ~(Len(s) + j <= Len(s)) /\ Len(s) + j - Len(s) = j
        BY <1>1, <3>1
      <3> QED
        BY <1>1, <3>1, <3>2 DEF Positions
    <2> QED
      BY <2>1, <2>2, <2>3
  <1>4. f \in Bijection(Q, R)
    <2>1. f \in [Q -> R] /\ \A i \in Q : i \in Int
      BY <1>2
    <2>2. \A a, b \in Q : f[a] = f[b] => a = b
      BY <1>1, <2>1
    <2>3. \A r \in R : \E q \in Q : f[q] = r
      OBVIOUS
    <2> QED
      BY <2>1, <2>2, <2>3 DEF Bijection, Injection, Surjection, IsInjective
  <1>5. IsFiniteSet(R) /\ Cardinality(R) = Cardinality(Q)
    <2>1. ExistsBijection(Q, R)
      BY <1>4 DEF ExistsBijection
    <2> QED
      BY <1>2, <2>1, FS_Bijection
  <1>6. P \cap R = {}
    BY <1>1, <1>2
  <1>7. Occurrences(s \o t, vs) = Cardinality(P \cup R)
    BY <1>1, <1>3, PositionsFinite
  <1>8. Occurrences(s, vs) = Cardinality(P) /\ Occurrences(t, vs) = Cardinality(Q)
    BY PositionsFinite
  <1> HIDE DEF P, Q, R
  <1>9. Cardinality(P \cup R) = Cardinality(P) + Cardinality(R) - 0
    BY <1>2, <1>5, <1>6, FS_Union, FS_EmptySet
  <1>10. Cardinality(P) \in Nat /\ Cardinality(R) \in Nat
    BY <1>2, <1>5, FS_CardinalityType
  <1> QED
    BY <1>5, <1>7, <1>8, <1>9, <1>10
-----------------------------------------------------------------------------
(* What sorting does *)

\* Sets that a threshold cuts off: with a value all smaller ones are in them.
Initial == {vs \in SUBSET Value : \A v \in vs : UpTo(v) \subseteq vs}

LEMMA FiniteRange ==
    ASSUME NEW values \in Seq(Value)
    PROVE  Range(values) \subseteq Value /\ IsFiniteSet(Range(values))
  <1>1. Range(values) \in SUBSET Value
    BY ElementOfSeq DEF Range
  <1> QED
    BY <1>1, ValueAssumption, FS_Subset

LEMMA RangeConcat ==
    ASSUME NEW s \in Seq(Value), NEW t \in Seq(Value)
    PROVE  Range(s \o t) \subseteq Range(s) \cup Range(t)
  <1>1. /\ DOMAIN (s \o t) = 1..Len(s) + Len(t) /\ Len(s) \in Nat /\ Len(t) \in Nat
        /\ DOMAIN s = 1..Len(s) /\ DOMAIN t = 1..Len(t)
        /\ \A i \in 1..Len(s) + Len(t) :
              (s \o t)[i] = IF i <= Len(s) THEN s[i] ELSE t[i - Len(s)]
    BY ConcatProperties
  <1>2. ASSUME NEW i \in 1..Len(s) + Len(t)
        PROVE  (s \o t)[i] \in Range(s) \cup Range(t)
    <2>1. i <= Len(s) => i \in DOMAIN s
      BY <1>1
    <2>2. ~(i <= Len(s)) => i - Len(s) \in DOMAIN t
      BY <1>1
    <2> QED
      BY <1>1, <2>1, <2>2 DEF Range
  <1> QED
    BY <1>1, <1>2 DEF Range

\* A nonempty set of values has a least and a greatest one.
LEMMA Extremes ==
    ASSUME NEW S \in SUBSET Value, S # {}
    PROVE  /\ Min(S) \in S /\ \A v \in S : Min(S) <= v
           /\ Max(S) \in S /\ \A v \in S : v <= Max(S)
  <1>1. IsFiniteSet(S) /\ S \subseteq Int
    BY ValueAssumption, FS_Subset
  <1> DEFINE Lower(v) == {w \in S : w < v}
             Upper(v) == {w \in S : w > v}
             L == {Cardinality(Lower(v)) : v \in S}
             U == {Cardinality(Upper(v)) : v \in S}
  <1>2. \A v \in S : /\ IsFiniteSet(Lower(v)) /\ Cardinality(Lower(v)) \in Nat
                     /\ IsFiniteSet(Upper(v)) /\ Cardinality(Upper(v)) \in Nat
    <2>1. \A v \in S : Lower(v) \in SUBSET S /\ Upper(v) \in SUBSET S
      OBVIOUS
    <2> HIDE DEF Lower, Upper
    <2> QED
      BY <1>1, <2>1, FS_Subset, FS_CardinalityType
  <1>3. PICK m \in S : \A v \in S : Cardinality(Lower(m)) <= Cardinality(Lower(v))
    <2>1. L \in SUBSET Nat /\ L # {}
      BY <1>2
    <2>2. PICK n \in L : \A k \in L : n <= k
      <3> HIDE DEF L
      <3> QED
        BY <2>1, HasLeast
    <2> QED
      BY <2>2
  <1>4. PICK x \in S : \A v \in S : Cardinality(Upper(x)) <= Cardinality(Upper(v))
    <2>1. U \in SUBSET Nat /\ U # {}
      BY <1>2
    <2>2. PICK n \in U : \A k \in U : n <= k
      <3> HIDE DEF U
      <3> QED
        BY <2>1, HasLeast
    <2> QED
      BY <2>2
  <1>5. ASSUME NEW v \in S, v < m PROVE FALSE
    <2>0. m \in S /\ m \in Int /\ v \in S /\ v \in Int /\ \A w \in S : w \in Int
      BY <1>1
    <2>1. Lower(v) \in SUBSET Lower(m) /\ v \in Lower(m) /\ v \notin Lower(v)
      <3>1. v < m
        BY <1>5
      <3>2. \A w \in S : w < v => w < m
        BY ONLY <2>0, <3>1
      <3>3. ~(v < v)
        BY ONLY <2>0
      <3> QED
        BY ONLY <2>0, <3>1, <3>2, <3>3
    <2> HIDE DEF Lower
    <2>2. /\ IsFiniteSet(Lower(m))
          /\ Cardinality(Lower(v)) \in Nat /\ Cardinality(Lower(m)) \in Nat
      BY <1>2
    <2>3. /\ Cardinality(Lower(v)) <= Cardinality(Lower(m))
          /\ Cardinality(Lower(m)) = Cardinality(Lower(v)) => Lower(m) = Lower(v)
      BY ONLY <2>1, <2>2, FS_Subset
    <2>4. Cardinality(Lower(v)) < Cardinality(Lower(m))
      BY ONLY <2>1, <2>2, <2>3
    <2> QED
      BY <1>3, <2>2, <2>4
  <1>6. ASSUME NEW v \in S, v > x PROVE FALSE
    <2>0. x \in S /\ x \in Int /\ v \in S /\ v \in Int /\ \A w \in S : w \in Int
      BY <1>1
    <2>1. Upper(v) \in SUBSET Upper(x) /\ v \in Upper(x) /\ v \notin Upper(v)
      <3>1. v > x
        BY <1>6
      <3>2. \A w \in S : w > v => w > x
        BY ONLY <2>0, <3>1
      <3>3. ~(v > v)
        BY ONLY <2>0
      <3> QED
        BY ONLY <2>0, <3>1, <3>2, <3>3
    <2> HIDE DEF Upper
    <2>2. /\ IsFiniteSet(Upper(x))
          /\ Cardinality(Upper(v)) \in Nat /\ Cardinality(Upper(x)) \in Nat
      BY <1>2
    <2>3. /\ Cardinality(Upper(v)) <= Cardinality(Upper(x))
          /\ Cardinality(Upper(x)) = Cardinality(Upper(v)) => Upper(x) = Upper(v)
      BY ONLY <2>1, <2>2, FS_Subset
    <2>4. Cardinality(Upper(v)) < Cardinality(Upper(x))
      BY ONLY <2>1, <2>2, <2>3
    <2> QED
      BY <1>4, <2>2, <2>4
  <1>7. \A v \in S : m <= v /\ v <= x
    BY <1>1, <1>5, <1>6
  <1> QED
    BY <1>1, <1>7 DEF Min, Max

\* The kth of the sorted values is below a threshold if and only if k values
\* are.
LEMMA SortedBelow ==
    ASSUME NEW values \in Seq(Value), NEW vs \in Initial, NEW k \in 1..Len(values)
    PROVE  /\ Sorted(values)[k] \in Range(values)
           /\ Sorted(values)[k] \in vs <=> k <= Occurrences(values, vs)
  <1> DEFINE S == {v \in Range(values) : Occurrences(values, UpTo(v)) >= k}
             s == Sorted(values)[k]
  <1>1. Range(values) \subseteq Value /\ DOMAIN values = 1..Len(values) /\ Value \subseteq Int
    BY FiniteRange, LenProperties, ValueAssumption
  <1>2. s = Min(S)
    BY DEF Sorted
  <1>3. \A i \in DOMAIN values : values[i] \in Range(values) /\ values[i] \in Value
    BY <1>1 DEF Range
  <1>4. ASSUME NEW ws \in Initial, k <= Occurrences(values, ws)
        PROVE  \E m \in S : m \in ws
    <2> DEFINE R == {v \in Range(values) : v \in ws}
               m == Max(R)
    <2>1. R # {}
      <3>1. SUFFICES ASSUME R = {} PROVE FALSE
        OBVIOUS
      <3>2. Positions(values, ws) = {}
        BY <1>3, <3>1 DEF Positions
      <3>3. Occurrences(values, ws) = 0
        BY <3>2, PositionsFinite, FS_EmptySet
      <3> QED
        BY <1>4, <3>3
    <2>2. m \in R /\ \A v \in R : v <= m
      <3>1. R \in SUBSET Value
        BY <1>1
      <3> HIDE DEF R
      <3> QED
        BY <2>1, <3>1, Extremes
    <2> HIDE DEF m
    <2>3. \A i \in DOMAIN values : values[i] \in ws => values[i] \in UpTo(m)
      BY <1>3, <2>2 DEF UpTo
    <2>4. Occurrences(values, ws) <= Occurrences(values, UpTo(m))
      BY <2>3, OccurrencesGrow
    <2>5. Occurrences(values, ws) \in Nat /\ Occurrences(values, UpTo(m)) \in Nat
      BY PositionsFinite
    <2>6. m \in S
      BY <1>4, <2>2, <2>4, <2>5
    <2> QED
      BY <2>2, <2>6
  <1>5. S # {} /\ S \in SUBSET Value
    <2>1. Value \in Initial
      BY DEF Initial, UpTo
    <2>2. k <= Occurrences(values, Value)
      BY OccurrencesAll
    <2> QED
      BY <1>1, <1>4, <2>1, <2>2
  <1> HIDE DEF s
  <1>6. s \in S /\ \A v \in S : s <= v
    <2> HIDE DEF S
    <2> QED
      BY <1>2, <1>5, Extremes
  <1>7. ASSUME k <= Occurrences(values, vs) PROVE s \in vs
    <2>1. PICK m \in S : m \in vs
      BY <1>4, <1>7
    <2>2. s \in UpTo(m)
      BY <1>5, <1>6 DEF UpTo
    <2> QED
      BY <2>1, <2>2 DEF Initial
  <1>8. ASSUME s \in vs PROVE k <= Occurrences(values, vs)
    <2>1. UpTo(s) \subseteq vs
      BY <1>8 DEF Initial
    <2>2. Occurrences(values, UpTo(s)) <= Occurrences(values, vs)
      BY <2>1, OccurrencesGrow
    <2>3. Occurrences(values, UpTo(s)) \in Nat /\ Occurrences(values, vs) \in Nat
      BY PositionsFinite
    <2> QED
      BY <1>6, <2>2, <2>3
  <1> QED
    BY <1>6, <1>7, <1>8 DEF s

-----------------------------------------------------------------------------
(* One compaction of one level *)

IsHalf(h, n) == h \in Nat /\ n \in {2 * h, 2 * h + 1}

LEMMA Half ==
    ASSUME NEW n \in Nat
    PROVE  \E h : IsHalf(h, n)
  <1>1. n = 2 * (n \div 2) + (n % 2) /\ n % 2 \in 0..1 /\ n \div 2 \in Nat
    OBVIOUS
  <1>2. IsHalf(n \div 2, n)
    BY <1>1 DEF IsHalf
  <1> QED
    BY <1>2

LEMMA SortedType ==
    ASSUME NEW values \in Seq(Value)
    PROVE  /\ Sorted(values) \in Seq(Value) /\ Len(Sorted(values)) = Len(values)
           /\ \A k \in 1..Len(values) : Sorted(values)[k] \in Range(values)
  <1>1. Value \in Initial
    BY DEF Initial, UpTo
  <1>2. \A k \in 1..Len(values) : Sorted(values)[k] \in Range(values)
    BY <1>1, SortedBelow
  <1>3. \A k \in 1..Len(values) : Sorted(values)[k] \in Value
    BY <1>2, FiniteRange
  <1>4. Sorted(values) \in [1..Len(values) -> Value] /\ Len(values) \in Nat
    BY <1>3 DEF Sorted
  <1> QED
    BY <1>2, <1>4

\* What stays and what moves up a level.
IsHalved(values, offset, h) ==
    /\ Paired(values) = 2 * h
    /\ Retained(values) \in Seq(Value)
    /\ Len(Retained(values)) = Len(values) - 2 * h
    /\ \A i \in 1..Len(values) - 2 * h : Retained(values)[i] = Sorted(values)[2 * h + i]
    /\ Promoted(values, offset) \in Seq(Value)
    /\ Len(Promoted(values, offset)) = h
    /\ \A i \in 1..h : Promoted(values, offset)[i] = Sorted(values)[2 * i - 1 + offset]

LEMMA Halved ==
    ASSUME NEW values \in Seq(Value), NEW offset \in {0, 1},
           NEW h, IsHalf(h, Len(values))
    PROVE  IsHalved(values, offset, h)
  <1> DEFINE n == Len(values)
             s == Sorted(values)
  <1>0. h \in Nat /\ n \in {2 * h, 2 * h + 1}
    BY DEF IsHalf
  <1>1. s \in Seq(Value) /\ Len(s) = n /\ n \in Nat
    BY SortedType
  <1>2. Paired(values) = 2 * h /\ (2 * h) \div 2 = h
    <2>1. n % 2 = n - 2 * h /\ (2 * h) \div 2 = h
      BY <1>0
    <2> QED
      BY <1>0, <1>1, <2>1 DEF Paired
  <1>3. Retained(values) = SubSeq(s, 2 * h + 1, n)
    BY <1>2 DEF Retained
  <1>4. Promoted(values, offset) = [i \in 1..h |-> s[2 * i - 1 + offset]]
    BY <1>2 DEF Promoted
  <1>5. \A i \in 1..n : s[i] \in Value
    BY <1>1, ElementOfSeq
  <1> HIDE DEF n, s
  <1>6. /\ Retained(values) \in Seq(Value)
        /\ Len(Retained(values)) = n - 2 * h
        /\ \A i \in 1..n - 2 * h : Retained(values)[i] = s[2 * h + i]
    <2> DEFINE m == 2 * h + 1
    <2>1. m \in Int /\ n \in Int /\ \A i \in m..n : s[i] \in Value
      BY <1>0, <1>1, <1>5
    <2> DEFINE t == SubSeq(s, m, n)
    <2>4. n - m + 1 = n - 2 * h /\ \A i \in Int : m + i - 1 = 2 * h + i
      BY <1>0
    <2>5. (IF m <= n THEN n - m + 1 ELSE 0) = n - 2 * h
      BY <1>0
    <2> HIDE DEF m
    <2>2. /\ t \in Seq(Value)
          /\ Len(t) = IF m <= n THEN n - m + 1 ELSE 0
          /\ \A i \in 1..n - m + 1 : t[i] = s[m + i - 1]
      BY <2>1, SubSeqProperties
    <2> HIDE DEF t
    <2>6. ASSUME NEW i \in 1..n - 2 * h PROVE t[i] = s[2 * h + i]
      <3>1. i \in 1..n - m + 1 /\ m + i - 1 = 2 * h + i
        BY <1>0, <2>4
      <3> QED
        BY <2>2, <3>1
    <2> QED
      BY <1>3, <2>2, <2>5, <2>6 DEF t, m
  <1>7. \A i \in 1..h : 2 * i - 1 + offset \in 1..n
    BY <1>0, <1>1
  <1>8. Promoted(values, offset) \in [1..h -> Value]
    BY <1>4, <1>5, <1>7
  <1> QED
    BY <1>0, <1>2, <1>4, <1>6, <1>8 DEF n, s, IsHalved

\* Both the values that stay and those that move up are in the level.
LEMMA HalvedRange ==
    ASSUME NEW values \in Seq(Value), NEW offset \in {0, 1}
    PROVE  /\ Range(Retained(values)) \subseteq Range(values)
           /\ Range(Promoted(values, offset)) \subseteq Range(values)
  <1>0. Len(values) \in Nat
    OBVIOUS
  <1>1. PICK h : IsHalf(h, Len(values))
    BY <1>0, Half
  <1>12. h \in Nat /\ Len(values) \in {2 * h, 2 * h + 1}
    BY <1>1 DEF IsHalf
  <1> DEFINE r == Retained(values)
             p == Promoted(values, offset)
             s == Sorted(values)
             n == Len(values)
  <1>2. /\ r \in Seq(Value) /\ Len(r) = n - 2 * h
        /\ \A i \in 1..n - 2 * h : r[i] = s[2 * h + i]
        /\ p \in Seq(Value) /\ Len(p) = h
        /\ \A i \in 1..h : p[i] = s[2 * i - 1 + offset]
    <2>1. IsHalved(values, offset, h)
      BY <1>1, Halved
    <2> QED
      BY <2>1 DEF IsHalved
  <1>3. \A k \in 1..n : s[k] \in Range(values)
    BY SortedType
  <1>4. \A i \in 1..n - 2 * h : 2 * h + i \in 1..n
    BY <1>0, <1>12
  <1>5. \A i \in 1..h : 2 * i - 1 + offset \in 1..n
    BY <1>0, <1>12
  <1>6. DOMAIN r = 1..n - 2 * h /\ DOMAIN p = 1..h
    BY <1>2, <1>12
  <1> HIDE DEF r, p, s, n
  <1>7. Range(r) \subseteq Range(values)
    BY <1>2, <1>3, <1>4, <1>6 DEF Range
  <1>8. Range(p) \subseteq Range(values)
    BY <1>2, <1>3, <1>5, <1>6 DEF Range
  <1> QED
    BY <1>7, <1>8 DEF r, p

\* A compaction moves the rank of a threshold by at most one, counted in the
\* values of its level, and not at all if all values are below it.
LEMMA HalvedRank ==
    ASSUME NEW values \in Seq(Value), NEW offset \in {0, 1}, NEW vs \in Initial
    PROVE  /\ 2 * Occurrences(Promoted(values, offset), vs) + Occurrences(Retained(values), vs)
                 - Occurrences(values, vs) \in {-1, 0, 1}
           /\ vs = Value =>
                 2 * Occurrences(Promoted(values, offset), vs)
                 + Occurrences(Retained(values), vs) = Occurrences(values, vs)
  <1> DEFINE n == Len(values)
             r == Occurrences(values, vs)
             s == Sorted(values)
             kept == Retained(values)
             moved == Promoted(values, offset)
             K == Occurrences(kept, vs)
             M == Occurrences(moved, vs)
  <1>0. n \in Nat /\ r \in Nat /\ r <= n
    BY PositionsFinite
  <1>1. PICK h : IsHalf(h, n)
    BY <1>0, Half
  <1>12. h \in Nat /\ n \in {2 * h, 2 * h + 1}
    BY <1>1 DEF IsHalf
  <1>2. PICK a \in Nat : r \in {2 * a, 2 * a + 1}
    BY <1>0, Half DEF IsHalf
  <1>3. /\ kept \in Seq(Value) /\ Len(kept) = n - 2 * h
        /\ \A i \in 1..n - 2 * h : kept[i] = s[2 * h + i]
        /\ moved \in Seq(Value) /\ Len(moved) = h
        /\ \A i \in 1..h : moved[i] = s[2 * i - 1 + offset]
    <2>1. IsHalved(values, offset, h)
      BY <1>1, Halved
    <2> QED
      BY <2>1 DEF IsHalved
  <1>4. \A k \in 1..n : s[k] \in vs <=> k <= r
    BY SortedBelow
  <1>5. vs = Value => r = n /\ K = n - 2 * h /\ M = h
    BY <1>3, OccurrencesAll
  <1> HIDE DEF n, r, s, kept, moved
  <1>6. K = IF r = 2 * h + 1 THEN 1 ELSE 0
    <2>1. Positions(kept, vs) = {i \in 1..n - 2 * h : 2 * h + i <= r}
      <3>1. DOMAIN kept = 1..n - 2 * h
        BY <1>3
      <3>2. \A i \in 1..n - 2 * h : 2 * h + i \in 1..n
        BY <1>0, <1>12
      <3> QED
        BY <1>3, <1>4, <3>1, <3>2 DEF Positions
    <2>2. {i \in 1..n - 2 * h : 2 * h + i <= r} = IF r = 2 * h + 1 THEN {1} ELSE {}
      <3>1. \A i \in 1..n - 2 * h : i = 1 /\ n = 2 * h + 1
        BY <1>0, <1>12
      <3>2. r = 2 * h + 1 => 1 \in 1..n - 2 * h /\ 2 * h + 1 <= r
        BY <1>0, <1>12
      <3>3. \A i \in 1..n - 2 * h : 2 * h + i <= r => r = 2 * h + 1
        BY <1>0, <1>12, <3>1
      <3> QED
        BY <3>1, <3>2, <3>3
    <2>3. Cardinality({1}) = 1 /\ Cardinality({}) = 0
      BY FS_EmptySet, FS_Singleton
    <2>4. K = Cardinality(Positions(kept, vs))
      BY <1>3, PositionsFinite
    <2> QED
      BY <2>1, <2>2, <2>3, <2>4
  <1>7. ASSUME NEW q \in 0..h, \A i \in 1..h : 2 * i - 1 + offset <= r <=> i <= q
        PROVE  M = q
    <2>1. Positions(moved, vs) = {i \in 1..h : i <= q}
      <3>1. DOMAIN moved = 1..h
        BY <1>3
      <3>2. \A i \in 1..h : 2 * i - 1 + offset \in 1..n
        BY <1>0, <1>12
      <3> QED
        BY <1>3, <1>4, <1>7, <3>1, <3>2 DEF Positions
    <2>2. {i \in 1..h : i <= q} = 1..q
      BY <1>12
    <2>3. 1 \in Int /\ q \in Int /\ q \in Nat
      BY <1>12
    <2>4. Cardinality(1..q) = IF 1 > q THEN 0 ELSE q - 1 + 1
      BY ONLY <2>3, FS_Interval
    <2>5. M = Cardinality(Positions(moved, vs))
      BY <1>3, PositionsFinite
    <2>6. Cardinality(1..q) = q
      BY <2>3, <2>4
    <2> QED
      BY <2>1, <2>2, <2>5, <2>6
  <1>8. a <= h
    BY <1>0, <1>12, <1>2
  <1> HIDE DEF K, M
  <1>9. CASE r = 2 * a
    <2>1. \A i \in 1..h : 2 * i - 1 + offset <= r <=> i <= a
      BY <1>12, <1>9
    <2>2. M = a /\ K = 0
      BY <1>12, <1>6, <1>7, <1>8, <1>9, <2>1
    <2> QED
      BY <1>0, <1>12, <1>5, <1>9, <2>2 DEF K, M, r, kept, moved
  <1>10. CASE r = 2 * a + 1 /\ offset = 1
    <2>1. \A i \in 1..h : 2 * i - 1 + offset <= r <=> i <= a
      BY <1>12, <1>10
    <2>2. M = a
      BY <1>7, <1>8, <2>1
    <2> QED
      BY <1>0, <1>12, <1>5, <1>6, <1>10, <2>2 DEF K, M, r, kept, moved
  <1>11. CASE r = 2 * a + 1 /\ offset = 0
    <2> DEFINE q == IF a < h THEN a + 1 ELSE h
    <2>1. q \in 0..h /\ \A i \in 1..h : 2 * i - 1 + offset <= r <=> i <= q
      BY <1>12, <1>8, <1>11
    <2>2. M = q
      BY <1>7, <2>1
    <2> QED
      BY <1>0, <1>12, <1>5, <1>6, <1>8, <1>11, <2>2 DEF K, M, r, kept, moved
  <1> QED
    BY <1>2, <1>9, <1>10, <1>11

-----------------------------------------------------------------------------
(* The weight of the lowest levels *)

IsLevels(ls) == ls \in Seq(Seq(Value)) /\ ls # <<>>

\* The weights of the values in vs of the m lowest levels, and their sum.
LevelWeights(ls, m, vs) == [n \in 1..m |-> Weight[n] * Occurrences(ls[n], vs)]
WeightUpTo(ls, m, vs) == SumFunction(LevelWeights(ls, m, vs))

LEMMA LevelsShape ==
    ASSUME NEW ls, IsLevels(ls)
    PROVE  /\ Len(ls) \in Nat \ {0} /\ DOMAIN ls = 1..Len(ls) /\ 1 \in DOMAIN ls
           /\ \A n \in DOMAIN ls : ls[n] \in Seq(Value) /\ Len(ls[n]) \in Nat
  <1>1. Len(ls) \in Nat /\ DOMAIN ls = 1..Len(ls) /\ Len(ls) # 0
    BY EmptySeq DEF IsLevels
  <1>2. \A n \in 1..Len(ls) : ls[n] \in Seq(Value)
    BY ElementOfSeq DEF IsLevels
  <1> QED
    BY <1>1, <1>2

LEMMA LevelWeight ==
    ASSUME NEW n \in Nat \ {0}, NEW values \in Seq(Value), NEW vs
    PROVE  Weight[n] * Occurrences(values, vs) \in Nat
  <1>1. Weight[n] \in Nat /\ Occurrences(values, vs) \in Nat
    BY WeightLaws, PositionsFinite
  <1> QED
    BY <1>1

LEMMA LevelWeightsSummable ==
    ASSUME NEW ls, IsLevels(ls), NEW m \in 0..Len(ls), NEW vs
    PROVE  /\ Summable(LevelWeights(ls, m, vs)) /\ DOMAIN LevelWeights(ls, m, vs) = 1..m
           /\ WeightUpTo(ls, m, vs) \in Nat
  <1> DEFINE f == LevelWeights(ls, m, vs)
  <1>0. m \in Nat /\ 1..m \subseteq DOMAIN ls
    BY LevelsShape
  <1>1. DOMAIN f = 1..m /\ \A n \in 1..m : f[n] = Weight[n] * Occurrences(ls[n], vs)
    BY DEF LevelWeights
  <1>2. \A n \in 1..m : f[n] \in Nat
    <2>1. \A n \in 1..m : n \in Nat \ {0} /\ ls[n] \in Seq(Value)
      BY <1>0, LevelsShape
    <2> QED
      BY <1>1, <2>1, LevelWeight
  <1>3. f \in [1..m -> Nat]
    BY <1>2 DEF LevelWeights
  <1>4. IsFiniteSet(1..m)
    <2>1. 1 \in Int /\ m \in Int
      BY <1>0
    <2> QED
      BY ONLY <2>1, FS_Interval
  <1> HIDE DEF f
  <1>5. Summable(f)
    BY <1>1, <1>3, <1>4 DEF Summable
  <1>6. PICK g : Splits(g, f)
    BY <1>5, SumSplit
  <1>7. SumFunction(f) \in Nat
    BY <1>6 DEF Splits
  <1> QED
    BY <1>1, <1>5, <1>7 DEF f, WeightUpTo

LEMMA WeightUpToSame ==
    ASSUME NEW ls, NEW ms, NEW m \in Nat, NEW vs,
           \A n \in 1..m : Occurrences(ms[n], vs) = Occurrences(ls[n], vs)
    PROVE  WeightUpTo(ms, m, vs) = WeightUpTo(ls, m, vs)
  <1>1. LevelWeights(ms, m, vs) = LevelWeights(ls, m, vs)
    BY DEF LevelWeights
  <1> QED
    BY <1>1 DEF WeightUpTo

\* A level is exchanged.
LEMMA WeightUpToSwap ==
    ASSUME NEW ls, IsLevels(ls), NEW ms, IsLevels(ms),
           NEW m \in 1..Len(ls), m <= Len(ms), NEW n \in 1..m, NEW vs,
           \A k \in 1..m : k # n => Occurrences(ms[k], vs) = Occurrences(ls[k], vs)
    PROVE  WeightUpTo(ms, m, vs) =
               WeightUpTo(ls, m, vs) - Weight[n] * Occurrences(ls[n], vs)
                                     + Weight[n] * Occurrences(ms[n], vs)
  <1> DEFINE f == LevelWeights(ls, m, vs)
             e == LevelWeights(ms, m, vs)
  <1>1. m \in 0..Len(ls) /\ m \in 0..Len(ms)
    BY LevelsShape
  <1>2. Summable(f) /\ Summable(e) /\ DOMAIN f = 1..m /\ DOMAIN e = 1..m
    BY <1>1, LevelWeightsSummable
  <1>3. /\ \A k \in 1..m : k # n => f[k] = e[k]
        /\ f[n] = Weight[n] * Occurrences(ls[n], vs)
        /\ e[n] = Weight[n] * Occurrences(ms[n], vs)
    BY DEF LevelWeights
  <1>4. /\ n \in DOMAIN f /\ n \in DOMAIN e /\ DOMAIN f \ {n} = DOMAIN e \ {n}
        /\ \A k \in DOMAIN f \ {n} : f[k] = e[k]
    BY <1>2, <1>3
  <1> HIDE DEF f, e
  <1>5. /\ SumFunction(f) \in Nat /\ f[n] \in Nat
        /\ SumFunction(e) = SumFunction(f) - f[n] + e[n]
    <2>1. Summable(f) /\ Summable(e)
      BY <1>2
    <2> QED
      BY ONLY <1>4, <2>1, SumSwaps
  <1> QED
    BY <1>3, <1>5 DEF f, e, WeightUpTo

\* A level is added.
LEMMA WeightUpToNext ==
    ASSUME NEW ls, IsLevels(ls), NEW m \in Nat, m + 1 <= Len(ls), NEW vs
    PROVE  WeightUpTo(ls, m + 1, vs) =
               WeightUpTo(ls, m, vs) + Weight[m + 1] * Occurrences(ls[m + 1], vs)
  <1> DEFINE f == LevelWeights(ls, m, vs)
             e == LevelWeights(ls, m + 1, vs)
  <1>1. m \in 0..Len(ls) /\ m + 1 \in 0..Len(ls)
    BY LevelsShape
  <1>2. Summable(f) /\ Summable(e) /\ DOMAIN f = 1..m /\ DOMAIN e = 1..m + 1
    BY <1>1, LevelWeightsSummable
  <1>3. (1..m + 1) \ {m + 1} = 1..m /\ m + 1 \in 1..m + 1
    OBVIOUS
  <1>4. /\ \A k \in 1..m : f[k] = e[k]
        /\ e[m + 1] = Weight[m + 1] * Occurrences(ls[m + 1], vs)
    BY DEF LevelWeights
  <1> HIDE DEF f, e
  <1>5. SumFunction(e) = SumFunction(f) + e[m + 1]
    BY <1>2, <1>3, <1>4, SumAdds
  <1> QED
    BY <1>4, <1>5 DEF f, e, WeightUpTo

-----------------------------------------------------------------------------
(* One compaction and all levels *)

IsEnsured(ls, n, es) ==
    /\ IsLevels(es) /\ n \in DOMAIN es /\ n + 1 \in DOMAIN es
    /\ Len(ls) <= Len(es) /\ \A m \in DOMAIN ls : m \in DOMAIN es /\ es[m] = ls[m]
    /\ \/ es = ls
       \/ n = Len(ls) /\ Len(es) = n + 1 /\ es[n + 1] = <<>>

LEMMA Ensuring ==
    ASSUME NEW ls, IsLevels(ls), NEW n \in DOMAIN ls
    PROVE  IsEnsured(ls, n, Ensured(ls, n + 1))
  <1> DEFINE es == Ensured(ls, n + 1)
  <1>1. /\ Len(ls) \in Nat \ {0} /\ DOMAIN ls = 1..Len(ls)
        /\ \A m \in DOMAIN ls : ls[m] \in Seq(Value)
    BY LevelsShape
  <1>2. CASE n + 1 \in DOMAIN ls
    <2>1. es = ls
      BY <1>2 DEF Ensured
    <2> HIDE DEF es
    <2> QED
      BY <1>1, <1>2, <2>1 DEF IsEnsured, es
  <1>3. CASE n + 1 \notin DOMAIN ls
    <2>0. n = Len(ls)
      BY <1>1, <1>3
    <2>1. es = Append(ls, <<>>) /\ n = Len(ls)
      BY <1>3, <2>0 DEF Ensured
    <2>2. /\ es \in Seq(Seq(Value)) /\ Len(es) = n + 1
          /\ es[n + 1] = <<>> /\ \A m \in DOMAIN ls : es[m] = ls[m]
      <3>1. <<>> \in Seq(Value) /\ ls \in Seq(Seq(Value))
        BY DEF IsLevels
      <3> HIDE DEF es
      <3> QED
        BY <1>1, <2>1, <3>1, AppendProperties
    <2>3. DOMAIN es = 1..n + 1 /\ es # <<>>
      BY <1>1, <2>2
    <2> HIDE DEF es
    <2>4. IsLevels(es)
      BY ONLY <2>2, <2>3 DEF IsLevels
    <2>5. /\ n \in DOMAIN es /\ n + 1 \in DOMAIN es /\ Len(ls) <= Len(es)
          /\ \A m \in DOMAIN ls : m \in DOMAIN es
      BY ONLY <1>1, <2>1, <2>2, <2>3
    <2> QED
      BY <2>1, <2>2, <2>4, <2>5 DEF IsEnsured, es
  <1> QED
    BY <1>2, <1>3

\* A compaction with the levels it needs in place.
IsCompacted(es, n, offset, cs) ==
    /\ IsLevels(cs) /\ Len(cs) = Len(es) /\ DOMAIN cs = DOMAIN es
    /\ cs[n] = Retained(es[n])
    /\ cs[n + 1] = es[n + 1] \o Promoted(es[n], offset)
    /\ \A m \in DOMAIN es : m # n /\ m # n + 1 => cs[m] = es[m]

LEMMA Compacting ==
    ASSUME NEW ls, IsLevels(ls), NEW n \in DOMAIN ls, NEW offset \in {0, 1}
    PROVE  IsCompacted(Ensured(ls, n + 1), n, offset, Compacted(ls, n, offset))
  <1> DEFINE es == Ensured(ls, n + 1)
             cs == Compacted(ls, n, offset)
  <1>1. IsEnsured(ls, n, es)
    BY Ensuring
  <1> HIDE DEF es
  <1>2. /\ Len(es) \in Nat /\ DOMAIN es = 1..Len(es) /\ es[n] = ls[n]
        /\ n \in DOMAIN es /\ n + 1 \in DOMAIN es
        /\ \A m \in DOMAIN es : es[m] \in Seq(Value)
    BY <1>1, LevelsShape DEF IsEnsured
  <1>3. PICK h : IsHalf(h, Len(es[n]))
    <2>1. Len(es[n]) \in Nat
      BY <1>2
    <2> QED
      BY <2>1, Half
  <1>4. Retained(es[n]) \in Seq(Value) /\ Promoted(es[n], offset) \in Seq(Value)
    BY <1>2, <1>3, Halved DEF IsHalved
  <1>5. es[n + 1] \o Promoted(es[n], offset) \in Seq(Value)
    BY <1>2, <1>4
  <1>6. cs = [es EXCEPT ![n] = Retained(es[n]), ![n + 1] = @ \o Promoted(es[n], offset)]
    BY <1>2 DEF Compacted, es
  <1> HIDE DEF cs
  <1>7. n # n + 1 /\ n \in Nat
    BY <1>2
  <1>8. /\ DOMAIN cs = DOMAIN es
        /\ cs[n] = Retained(es[n])
        /\ cs[n + 1] = es[n + 1] \o Promoted(es[n], offset)
        /\ \A m \in DOMAIN es : m # n /\ m # n + 1 => cs[m] = es[m]
    BY <1>2, <1>6, <1>7
  <1>9. cs \in [1..Len(es) -> Seq(Value)]
    <2>1. \A m \in DOMAIN es : cs[m] \in Seq(Value)
      BY <1>2, <1>4, <1>5, <1>8
    <2>2. cs = [m \in DOMAIN cs |-> cs[m]]
      BY <1>6
    <2> QED
      BY <1>2, <1>8, <2>1, <2>2
  <1>10. cs \in Seq(Seq(Value)) /\ Len(cs) = Len(es) /\ cs # <<>>
    <2> DEFINE k == Len(es)
               T == Seq(Value)
    <2>0. k \in Nat /\ cs \in [1..k -> T]
      BY <1>2, <1>9
    <2> HIDE DEF k, T
    <2>1. cs \in Seq(T) /\ Len(cs) = k
      BY <2>0
    <2> USE DEF k, T
    <2> QED
      BY <1>2, <2>1
  <1> QED
    BY <1>8, <1>10 DEF IsCompacted, IsLevels, es, cs

\* Adding an empty level changes no weight.
LEMMA EnsuredWeight ==
    ASSUME NEW ls, IsLevels(ls), NEW n \in DOMAIN ls, NEW es, IsEnsured(ls, n, es), NEW vs
    PROVE  /\ \A m \in 1..Len(ls) : WeightUpTo(es, m, vs) = WeightUpTo(ls, m, vs)
           /\ WeightUpTo(es, Len(es), vs) = WeightUpTo(ls, Len(ls), vs)
           /\ \A m \in 1..Len(es) : m \in 1..Len(ls) \/ m = Len(es)
  <1>1. Len(ls) \in Nat \ {0} /\ DOMAIN ls = 1..Len(ls) /\ Len(es) \in Nat \ {0}
    BY LevelsShape DEF IsEnsured
  <1>2. ASSUME NEW m \in 1..Len(ls)
        PROVE  WeightUpTo(es, m, vs) = WeightUpTo(ls, m, vs)
    <2>1. m \in Nat /\ \A k \in 1..m : es[k] = ls[k]
      BY <1>1 DEF IsEnsured
    <2>2. \A k \in 1..m : Occurrences(es[k], vs) = Occurrences(ls[k], vs)
      BY <2>1
    <2> QED
      BY <2>1, <2>2, WeightUpToSame
  <1>3. CASE es = ls
    BY <1>3
  <1>4. CASE n = Len(ls) /\ Len(es) = n + 1 /\ es[n + 1] = <<>>
    <2>1. WeightUpTo(es, n + 1, vs) = WeightUpTo(es, n, vs) + Weight[n + 1] * Occurrences(es[n + 1], vs)
      <3>1. IsLevels(es) /\ n \in Nat /\ n + 1 <= Len(es)
        BY <1>1, <1>4 DEF IsEnsured
      <3> QED
        BY <3>1, WeightUpToNext
    <2>2. Occurrences(es[n + 1], vs) = 0 /\ Weight[n + 1] \in Nat
      BY <1>1, <1>4, OccurrencesNone, WeightLaws
    <2>3. WeightUpTo(es, n, vs) \in Nat
      <3>1. IsLevels(es) /\ n \in 0..Len(es)
        BY <1>1, <1>4 DEF IsEnsured
      <3> QED
        BY <3>1, LevelWeightsSummable
    <2>4. WeightUpTo(es, n + 1, vs) = WeightUpTo(es, n, vs)
      BY <2>1, <2>2, <2>3
    <2> QED
      BY <1>1, <1>2, <1>4, <2>4
  <1> QED
    BY <1>1, <1>2, <1>3, <1>4 DEF IsEnsured

\* What a compaction does to the weights: the level loses what moves up, and
\* from the next level on it cannot be seen but for the rounding.
LEMMA CompactedWeight ==
    ASSUME NEW es, IsLevels(es), NEW n \in DOMAIN es, n + 1 \in DOMAIN es,
           NEW offset \in {0, 1}, NEW cs, IsCompacted(es, n, offset, cs), NEW vs \in Initial
    PROVE  LET r == Occurrences(es[n], vs)
               K == Occurrences(Retained(es[n]), vs)
               M == Occurrences(Promoted(es[n], offset), vs)
           IN  /\ \A m \in 1..n - 1 : WeightUpTo(cs, m, vs) = WeightUpTo(es, m, vs)
               /\ WeightUpTo(cs, n, vs) = WeightUpTo(es, n, vs) - Weight[n] * r + Weight[n] * K
               /\ \A m \in n + 1..Len(es) :
                     WeightUpTo(cs, m, vs) = WeightUpTo(es, m, vs) + Weight[n] * (2 * M + K - r)
  <1> DEFINE kept == Retained(es[n])
             moved == Promoted(es[n], offset)
             r == Occurrences(es[n], vs)
             K == Occurrences(kept, vs)
             M == Occurrences(moved, vs)
  <1>1. /\ Len(es) \in Nat \ {0} /\ DOMAIN es = 1..Len(es) /\ n \in Nat \ {0}
        /\ \A m \in DOMAIN es : es[m] \in Seq(Value)
    BY LevelsShape
  <1>2. kept \in Seq(Value) /\ moved \in Seq(Value)
    <2>1. Len(es[n]) \in Nat
      BY <1>1
    <2>2. PICK h : IsHalf(h, Len(es[n]))
      BY <2>1, Half
    <2> QED
      BY <1>1, <2>2, Halved DEF IsHalved
  <1>3. r \in Nat /\ K \in Nat /\ M \in Nat
    BY <1>1, <1>2, PositionsFinite
  <1>4. /\ IsLevels(cs) /\ Len(cs) = Len(es) /\ cs[n] = kept /\ cs[n + 1] = es[n + 1] \o moved
        /\ \A m \in DOMAIN es : m # n /\ m # n + 1 => cs[m] = es[m]
    BY DEF IsCompacted
  <1>5. Occurrences(cs[n + 1], vs) = Occurrences(es[n + 1], vs) + M /\ Occurrences(cs[n], vs) = K
    BY <1>1, <1>2, <1>4, OccurrencesConcat
  <1>6. /\ Weight[n] \in Nat /\ Weight[n + 1] \in Nat /\ Weight[n + 1] = 2 * Weight[n]
        /\ Occurrences(es[n + 1], vs) \in Nat
    <2>1. es[n + 1] \in Seq(Value) /\ n + 1 \in Nat \ {0}
      BY <1>1
    <2>2. Occurrences(es[n + 1], vs) \in Nat
      BY <2>1, PositionsFinite
    <2> QED
      BY <1>1, <2>1, <2>2, WeightLaws
  <1> HIDE DEF kept, moved
  <1> DEFINE gs == [es EXCEPT ![n] = kept]
  <1>7. /\ IsLevels(gs) /\ Len(gs) = Len(es) /\ gs[n] = kept
        /\ \A m \in DOMAIN es : m # n => gs[m] = es[m]
    <2>1. es \in Seq(Seq(Value)) /\ n \in 1..Len(es) /\ es # <<>>
      BY <1>1 DEF IsLevels
    <2>2. /\ gs \in Seq(Seq(Value)) /\ Len(gs) = Len(es)
          /\ \A m \in 1..Len(es) : gs[m] = IF m = n THEN kept ELSE es[m]
      BY <1>2, <2>1, ExceptSeq
    <2> HIDE DEF gs
    <2>3. gs # <<>>
      BY <1>1, <2>2
    <2> QED
      BY <1>1, <2>1, <2>2, <2>3 DEF IsLevels
  <1> HIDE DEF gs
  <1>8. ASSUME NEW m \in 1..n - 1
        PROVE  WeightUpTo(cs, m, vs) = WeightUpTo(es, m, vs)
    <2>1. m \in Nat /\ \A k \in 1..m : k \in DOMAIN es /\ k # n /\ k # n + 1
      BY <1>1
    <2>2. \A k \in 1..m : Occurrences(cs[k], vs) = Occurrences(es[k], vs)
      BY <1>4, <2>1
    <2> QED
      BY <2>1, <2>2, WeightUpToSame
  <1>9. ASSUME NEW m \in n..Len(es)
        PROVE  WeightUpTo(gs, m, vs) = WeightUpTo(es, m, vs) - Weight[n] * r + Weight[n] * K
    <2>1. /\ IsLevels(es) /\ IsLevels(gs) /\ m \in 1..Len(es) /\ m <= Len(gs) /\ n \in 1..m
          /\ \A k \in 1..m : k \in DOMAIN es
      BY <1>1, <1>7
    <2>2. \A k \in 1..m : k # n => Occurrences(gs[k], vs) = Occurrences(es[k], vs)
      BY <1>7, <2>1
    <2>3. WeightUpTo(gs, m, vs) = WeightUpTo(es, m, vs) - Weight[n] * Occurrences(es[n], vs)
                                      + Weight[n] * Occurrences(gs[n], vs)
      BY <2>1, <2>2, WeightUpToSwap
    <2> QED
      BY <1>7, <2>3
  <1>10. WeightUpTo(cs, n, vs) = WeightUpTo(gs, n, vs)
    <2>1. n \in Nat /\ \A k \in 1..n : k \in DOMAIN es /\ k # n + 1
      BY <1>1
    <2>2. \A k \in 1..n : Occurrences(cs[k], vs) = Occurrences(gs[k], vs)
      <3>1. \A k \in 1..n : cs[k] = gs[k]
        BY <1>4, <1>7, <2>1
      <3> QED
        BY <3>1
    <2> QED
      BY ONLY <2>1, <2>2, WeightUpToSame
  <1>11. ASSUME NEW m \in n + 1..Len(es)
         PROVE  WeightUpTo(cs, m, vs) = WeightUpTo(es, m, vs) + Weight[n] * (2 * M + K - r)
    <2>1. /\ IsLevels(cs) /\ IsLevels(gs) /\ m \in 1..Len(gs) /\ m <= Len(cs) /\ n + 1 \in 1..m
          /\ \A k \in 1..m : k \in DOMAIN es
      BY <1>1, <1>4, <1>7
    <2>2. \A k \in 1..m : k # n + 1 => Occurrences(cs[k], vs) = Occurrences(gs[k], vs)
      BY <1>4, <1>7, <2>1
    <2>3. WeightUpTo(cs, m, vs) = WeightUpTo(gs, m, vs) - Weight[n + 1] * Occurrences(gs[n + 1], vs)
                                      + Weight[n + 1] * Occurrences(cs[n + 1], vs)
      BY <2>1, <2>2, WeightUpToSwap
    <2>4. gs[n + 1] = es[n + 1]
      BY <1>1, <1>7
    <2>5. WeightUpTo(gs, m, vs) = WeightUpTo(es, m, vs) - Weight[n] * r + Weight[n] * K
      BY <1>1, <1>9
    <2>6. WeightUpTo(es, m, vs) \in Nat
      <3>1. IsLevels(es) /\ m \in 0..Len(es)
        BY <2>1, <1>1, <1>7
      <3> QED
        BY <3>1, LevelWeightsSummable
    <2> DEFINE w == Weight[n]
               q == Occurrences(es[n + 1], vs)
               x == WeightUpTo(es, m, vs)
               y == WeightUpTo(cs, m, vs)
    <2>8. w \in Nat /\ q \in Nat /\ x \in Nat
      BY <1>6, <2>6
    <2>7. y = x - w * r + w * K - (2 * w) * q + (2 * w) * (q + M)
      <3>1. Weight[n + 1] * Occurrences(gs[n + 1], vs) = (2 * w) * q
        BY <1>6, <2>4
      <3>2. Weight[n + 1] * Occurrences(cs[n + 1], vs) = (2 * w) * (q + M)
        BY <1>5, <1>6
      <3>3. /\ y = WeightUpTo(gs, m, vs) - (2 * w) * q + (2 * w) * (q + M)
            /\ WeightUpTo(gs, m, vs) = x - w * r + w * K
        BY ONLY <2>3, <2>5, <3>1, <3>2
      <3> DEFINE a == w * r
                 b == w * K
                 c == (2 * w) * q
                 d == (2 * w) * (q + M)
                 z == WeightUpTo(gs, m, vs)
      <3>6. a \in Nat /\ b \in Nat /\ c \in Nat /\ d \in Nat /\ x \in Nat
        <4>1. r \in Nat /\ K \in Nat /\ M \in Nat /\ w \in Nat /\ q \in Nat /\ x \in Nat
          BY <1>3, <2>8
        <4> HIDE DEF w, q, x, r, K, M
        <4> QED
          BY ONLY <4>1
      <3>4. y = z - c + d /\ z = x - a + b
        BY <3>3
      <3> HIDE DEF a, b, c, d, x, y, z
      <3>5. y = x - a + b - c + d
        BY ONLY <3>4, <3>6
      <3> QED
        BY <3>5 DEF a, b, c, d
    <2> HIDE DEF w, q, x, y, r, K, M
    <2>9. (2 * w) * (q + M) = (2 * w) * q + w * (2 * M)
      BY <1>3, <2>8
    <2>10. w * (2 * M + K - r) = w * (2 * M) + w * K - w * r
      BY <1>3, <2>8
    <2>11. /\ w * r \in Nat /\ w * K \in Nat /\ (2 * w) * q \in Nat /\ w * (2 * M) \in Nat
      BY <1>3, <2>8
    <2>12. y = x + w * (2 * M + K - r)
      <3> DEFINE a == w * r
                 b == w * K
                 c == (2 * w) * q
                 d == w * (2 * M)
                 e == (2 * w) * (q + M)
                 f == w * (2 * M + K - r)
      <3>1. y = x - a + b - c + e /\ e = c + d /\ f = d + b - a
        BY ONLY <2>7, <2>9, <2>10
      <3>2. x \in Nat /\ a \in Nat /\ b \in Nat /\ c \in Nat /\ d \in Nat
        BY ONLY <2>8, <2>11
      <3> HIDE DEF a, b, c, d, e, f
      <3>3. y = x + f
        BY ONLY <3>1, <3>2
      <3> QED
        BY <3>3 DEF f
    <2> QED
      BY <2>12 DEF w, x, y
  <1>12. n \in n..Len(es)
    BY <1>1
  <1>13. WeightUpTo(cs, n, vs) = WeightUpTo(es, n, vs) - Weight[n] * r + Weight[n] * K
    BY <1>9, <1>10, <1>12
  <1> QED
    BY <1>8, <1>11, <1>13 DEF kept, moved

-----------------------------------------------------------------------------
(* The error of c[m] compactions of each level m *)

Costs(c, k) == [m \in 1..k |-> Weight[m] * c[m]]
ErrorUpTo(c, k) == SumFunction(Costs(c, k))

LEMMA CostsSummable ==
    ASSUME NEW c \in [Nat \ {0} -> Nat], NEW k \in Nat
    PROVE  /\ Summable(Costs(c, k)) /\ DOMAIN Costs(c, k) = 1..k
           /\ ErrorUpTo(c, k) \in Nat
  <1> DEFINE f == Costs(c, k)
  <1>1. DOMAIN f = 1..k /\ \A m \in 1..k : f[m] = Weight[m] * c[m]
    BY DEF Costs
  <1>2. ASSUME NEW m \in 1..k PROVE f[m] \in Nat
    <2>1. Weight[m] \in Nat /\ c[m] \in Nat
      BY WeightLaws
    <2>2. Weight[m] * c[m] \in Nat
      BY <2>1
    <2> QED
      BY <1>1, <2>2
  <1>3. f \in [1..k -> Nat]
    BY <1>2 DEF Costs
  <1>4. IsFiniteSet(1..k)
    <2>1. 1 \in Int /\ k \in Int
      OBVIOUS
    <2> QED
      BY ONLY <2>1, FS_Interval
  <1> HIDE DEF f
  <1>5. Summable(f)
    BY <1>1, <1>3, <1>4 DEF Summable
  <1>6. PICK g : Splits(g, f)
    BY <1>5, SumSplit
  <1>7. SumFunction(f) \in Nat
    BY <1>6 DEF Splits
  <1> QED
    BY <1>1, <1>5, <1>7 DEF f, ErrorUpTo

LEMMA ErrorGrows ==
    ASSUME NEW c \in [Nat \ {0} -> Nat], NEW k \in Nat, NEW n \in 1..k
    PROVE  ErrorUpTo([c EXCEPT ![n] = @ + 1], k) = ErrorUpTo(c, k) + Weight[n]
  <1> DEFINE d == [c EXCEPT ![n] = @ + 1]
             f == Costs(c, k)
             e == Costs(d, k)
  <1>0. n \in Nat \ {0} /\ c[n] \in Nat /\ Weight[n] \in Nat
    BY WeightLaws
  <1>1. d \in [Nat \ {0} -> Nat] /\ d[n] = c[n] + 1 /\ \A m \in 1..k : m # n => d[m] = c[m]
    BY <1>0
  <1> HIDE DEF d
  <1>2. Summable(f) /\ Summable(e) /\ DOMAIN f = 1..k /\ DOMAIN e = 1..k
    BY <1>1, CostsSummable
  <1>3. /\ \A m \in 1..k : m # n => f[m] = e[m]
        /\ f[n] = Weight[n] * c[n] /\ e[n] = Weight[n] * (c[n] + 1)
    BY <1>1 DEF Costs
  <1> HIDE DEF f, e
  <1>4. /\ n \in DOMAIN f /\ n \in DOMAIN e /\ DOMAIN f \ {n} = DOMAIN e \ {n}
        /\ \A m \in DOMAIN f \ {n} : f[m] = e[m]
    BY <1>2, <1>3
  <1>5. /\ SumFunction(f) \in Nat /\ f[n] \in Nat
        /\ SumFunction(e) = SumFunction(f) - f[n] + e[n]
    <2>1. Summable(f) /\ Summable(e)
      BY <1>2
    <2> QED
      BY ONLY <1>4, <2>1, SumSwaps
  <1>6. e[n] = f[n] + Weight[n]
    BY <1>0, <1>3
  <1>7. SumFunction(e) = SumFunction(f) + Weight[n]
    BY <1>0, <1>5, <1>6
  <1> QED
    BY <1>7 DEF f, e, d, ErrorUpTo

LEMMA ErrorNext ==
    ASSUME NEW c \in [Nat \ {0} -> Nat], NEW k \in Nat, c[k + 1] = 0
    PROVE  ErrorUpTo(c, k + 1) = ErrorUpTo(c, k)
  <1> DEFINE f == Costs(c, k)
             e == Costs(c, k + 1)
  <1>2. Summable(f) /\ Summable(e) /\ DOMAIN f = 1..k /\ DOMAIN e = 1..k + 1
    BY CostsSummable
  <1>3. (1..k + 1) \ {k + 1} = 1..k /\ k + 1 \in 1..k + 1
    OBVIOUS
  <1>4. /\ \A m \in 1..k : f[m] = e[m]
        /\ e[k + 1] = Weight[k + 1] * c[k + 1]
    BY DEF Costs
  <1>7. k + 1 \in Nat \ {0} /\ Weight[k + 1] \in Nat
    BY WeightLaws
  <1>5. e[k + 1] = 0
    BY <1>4, <1>7
  <1> HIDE DEF f, e
  <1>6. SumFunction(f) \in Nat /\ SumFunction(e) = SumFunction(f) + e[k + 1]
    BY <1>2, <1>3, <1>4, SumAdds
  <1>8. SumFunction(e) = SumFunction(f)
    BY <1>5, <1>6
  <1> QED
    BY <1>8 DEF f, e, ErrorUpTo

-----------------------------------------------------------------------------
(* The ledger: N values were added, A of each, and c[m] compactions were    *)
(* made of each level m.  It holds after each compaction of a cascade.      *)

SumOn(A, vs) == SumFunction([v \in vs |-> A[v]])
Near(x, y, error) == x - y \in -error..error

Ledger(ls, N, A, c) ==
    /\ c \in [Nat \ {0} -> Nat] /\ \A m \in Nat \ {0} : m >= Len(ls) => c[m] = 0
    /\ WeightUpTo(ls, Len(ls), Value) = N
    /\ \A m \in 1..Len(ls) : c[m] * (Weight[m] * Consumed) + WeightUpTo(ls, m, Value) <= N
    /\ \A vs \in Initial :
          Near(WeightUpTo(ls, Len(ls), vs), SumOn(A, vs), ErrorUpTo(c, Len(ls) - 1))
    /\ \A m \in DOMAIN ls : \A v \in Range(ls[m]) : A[v] > 0

LEMMA SumOnType ==
    ASSUME NEW A \in [Value -> Nat], NEW vs \in SUBSET Value
    PROVE  Summable([v \in vs |-> A[v]]) /\ SumOn(A, vs) \in Nat
  <1> DEFINE f == [v \in vs |-> A[v]]
  <1>1. IsFiniteSet(vs)
    BY ValueAssumption, FS_Subset
  <1>2. DOMAIN f = vs /\ f \in [vs -> Nat]
    OBVIOUS
  <1> HIDE DEF f
  <1>3. Summable(f)
    BY <1>1, <1>2 DEF Summable
  <1>4. PICK g : Splits(g, f)
    BY <1>3, SumSplit
  <1>5. SumFunction(f) \in Nat
    BY <1>4 DEF Splits
  <1> QED
    BY <1>3, <1>5 DEF f, SumOn

LEMMA ValueInitial == Value \in Initial /\ Initial \subseteq SUBSET Value
  BY DEF Initial, UpTo

LEMMA ConsumedType ==
    ASSUME capacity \in Capacities
    PROVE  /\ capacity \in Nat \ {0} /\ Consumed \in Nat \ {0}
           /\ \A k, h \in Nat : k > capacity /\ k \in {2 * h, 2 * h + 1} => Consumed <= 2 * h
  <1>1. capacity \in Nat \ {0}
    BY CapacityAssumption
  <1>2. capacity + 1 \in Nat
    BY <1>1
  <1>3. PICK b : IsHalf(b, capacity + 1)
    BY <1>2, Half
  <1>4. b \in Nat /\ capacity + 1 \in {2 * b, 2 * b + 1}
    BY <1>3 DEF IsHalf
  <1>5. Consumed = 2 * b
    BY <1>1, <1>4 DEF Consumed
  <1> QED
    BY <1>1, <1>4, <1>5

LEMMA LedgerEnsured ==
    ASSUME capacity \in Capacities, NEW N \in Nat, NEW A \in [Value -> Nat], NEW c,
           NEW ls, IsLevels(ls), Ledger(ls, N, A, c),
           NEW n \in DOMAIN ls, NEW es, IsEnsured(ls, n, es)
    PROVE  Ledger(es, N, A, c)
  <1> DEFINE L == Len(ls)
             E == Len(es)
  <1>1. /\ L \in Nat \ {0} /\ DOMAIN ls = 1..L /\ E \in Nat \ {0} /\ DOMAIN es = 1..E /\ L <= E
        /\ IsLevels(es) /\ \A m \in DOMAIN ls : es[m] = ls[m]
    BY LevelsShape DEF IsEnsured
  <1>2. CASE es = ls
    BY <1>2
  <1>3. CASE n = L /\ E = n + 1 /\ es[n + 1] = <<>>
    <2>1. c \in [Nat \ {0} -> Nat] /\ \A m \in Nat \ {0} : m >= E => c[m] = 0
      BY <1>1 DEF Ledger
    <2>2. /\ \A vs : \A m \in 1..L : WeightUpTo(es, m, vs) = WeightUpTo(ls, m, vs)
          /\ \A vs : WeightUpTo(es, E, vs) = WeightUpTo(ls, L, vs)
      <3>1. ASSUME NEW vs
            PROVE  /\ \A m \in 1..L : WeightUpTo(es, m, vs) = WeightUpTo(ls, m, vs)
                   /\ WeightUpTo(es, E, vs) = WeightUpTo(ls, L, vs)
        BY EnsuredWeight
      <3> HIDE DEF L, E
      <3> QED
        BY <3>1
    <2>3. WeightUpTo(es, E, Value) = N /\ WeightUpTo(ls, L, Value) = N
      BY <2>2 DEF Ledger
    <2>4. ASSUME NEW m \in 1..E
          PROVE  c[m] * (Weight[m] * Consumed) + WeightUpTo(es, m, Value) <= N
      <3>1. CASE m \in 1..L
        BY <2>2, <3>1 DEF Ledger
      <3>2. CASE m = E
        <4>0. E \in Nat \ {0} /\ E >= E
          BY <1>1
        <4>1. c[m] = 0 /\ Weight[m] \in Nat /\ Consumed \in Nat
          <5>1. c[E] = 0
            BY <2>1, <4>0
          <5>2. Weight[E] \in Nat
            BY <4>0, WeightLaws
          <5>3. Consumed \in Nat
            BY ConsumedType
          <5> QED
            BY <3>2, <5>1, <5>2, <5>3
        <4>2. c[m] * (Weight[m] * Consumed) = 0
          BY <4>1
        <4> QED
          BY <2>3, <3>2, <4>2
      <3> QED
        BY <1>1, <1>3, <3>1, <3>2
    <2>5. ErrorUpTo(c, E - 1) = ErrorUpTo(c, L - 1)
      <3>1. L - 1 \in Nat /\ E - 1 = L - 1 + 1 /\ c[L - 1 + 1] = 0
        <4>1. L - 1 + 1 = L /\ c[L] = 0
          BY <1>1 DEF Ledger
        <4> QED
          BY <1>1, <1>3, <4>1
      <3> HIDE DEF L, E
      <3> QED
        BY <2>1, <3>1, ErrorNext
    <2>6. \A vs \in Initial : Near(WeightUpTo(es, E, vs), SumOn(A, vs), ErrorUpTo(c, E - 1))
      BY <2>2, <2>5 DEF Ledger
    <2>7. \A m \in DOMAIN es : \A v \in Range(es[m]) : A[v] > 0
      <3>1. Range(es[n + 1]) = {}
        BY <1>3 DEF Range
      <3>2. \A m \in DOMAIN es : m \in DOMAIN ls \/ m = n + 1
        BY <1>1, <1>3
      <3> QED
        BY <1>1, <3>1, <3>2 DEF Ledger
    <2> QED
      BY <2>1, <2>3, <2>4, <2>6, <2>7 DEF Ledger
  <1> QED
    BY <1>2, <1>3 DEF IsEnsured

LEMMA LedgerCompacted ==
    ASSUME capacity \in Capacities, NEW N \in Nat, NEW A \in [Value -> Nat], NEW c,
           NEW es, IsLevels(es), Ledger(es, N, A, c),
           NEW n \in DOMAIN es, n + 1 \in DOMAIN es, Len(es[n]) > capacity,
           NEW offset \in {0, 1}, NEW cs, IsCompacted(es, n, offset, cs)
    PROVE  Ledger(cs, N, A, [c EXCEPT ![n] = @ + 1])
  <1> DEFINE L == Len(es)
             d == [c EXCEPT ![n] = @ + 1]
             r(vs) == Occurrences(es[n], vs)
             K(vs) == Occurrences(Retained(es[n]), vs)
             M(vs) == Occurrences(Promoted(es[n], offset), vs)
             w == Weight[n]
  <1>1. /\ L \in Nat \ {0} /\ DOMAIN es = 1..L /\ n \in Nat \ {0} /\ n \in 1..L /\ n + 1 \in 1..L
        /\ es[n] \in Seq(Value) /\ Len(es[n]) \in Nat
    BY LevelsShape
  <1>2. IsLevels(cs) /\ Len(cs) = L /\ DOMAIN cs = DOMAIN es
    BY DEF IsCompacted
  <1>3. c \in [Nat \ {0} -> Nat] /\ c[n] \in Nat
    BY <1>1 DEF Ledger
  <1>4. /\ d \in [Nat \ {0} -> Nat] /\ d[n] = c[n] + 1
        /\ \A m \in Nat \ {0} : m # n => d[m] = c[m]
    BY <1>1, <1>3
  <1>5. w \in Nat \ {0} /\ Consumed \in Nat \ {0}
    BY <1>1, WeightLaws, ConsumedType
  <1>6. PICK h : IsHalf(h, Len(es[n]))
    BY <1>1, Half
  <1>7. /\ h \in Nat /\ Consumed <= 2 * h
        /\ Retained(es[n]) \in Seq(Value) /\ Len(Retained(es[n])) = Len(es[n]) - 2 * h
        /\ Promoted(es[n], offset) \in Seq(Value)
    <2>1. IsHalved(es[n], offset, h)
      BY <1>1, <1>6, Halved
    <2>2. h \in Nat /\ Len(es[n]) \in {2 * h, 2 * h + 1}
      BY <1>6 DEF IsHalf
    <2>3. Consumed <= 2 * h
      BY <1>1, <2>2, ConsumedType
    <2> QED
      BY <2>1, <2>2, <2>3 DEF IsHalved
  <1>8. \A vs \in Initial :
           /\ \A m \in 1..n - 1 : WeightUpTo(cs, m, vs) = WeightUpTo(es, m, vs)
           /\ WeightUpTo(cs, n, vs) = WeightUpTo(es, n, vs) - w * r(vs) + w * K(vs)
           /\ \A m \in n + 1..L :
                 WeightUpTo(cs, m, vs) = WeightUpTo(es, m, vs) + w * (2 * M(vs) + K(vs) - r(vs))
    BY CompactedWeight
  <1>9. \A vs \in Initial :
           /\ 2 * M(vs) + K(vs) - r(vs) \in {-1, 0, 1}
           /\ vs = Value => 2 * M(vs) + K(vs) = r(vs)
    BY <1>1, HalvedRank
  <1>10. \A vs : r(vs) \in Nat /\ K(vs) \in Nat /\ M(vs) \in Nat
    BY <1>1, <1>7, PositionsFinite
  <1>11. r(Value) - K(Value) = 2 * h
    <2>1. r(Value) = Len(es[n]) /\ K(Value) = Len(Retained(es[n]))
      BY <1>1, <1>7, OccurrencesAll
    <2> HIDE DEF r, K
    <2> QED
      BY <1>1, <1>7, <2>1
  <1>12. \A m \in 0..L : \A vs : WeightUpTo(es, m, vs) \in Nat
    BY LevelWeightsSummable
  <1>13. Value \in Initial
    BY ValueInitial
  <1> HIDE DEF L, d, r, K, M, w
  <1>14. \A m \in n + 1..L : WeightUpTo(cs, m, Value) = WeightUpTo(es, m, Value)
    <2>1. 2 * M(Value) + K(Value) - r(Value) = 0
      BY <1>9, <1>10, <1>13
    <2>2. w * (2 * M(Value) + K(Value) - r(Value)) = 0
      BY <1>5, <2>1
    <2>3. \A m \in n + 1..L : WeightUpTo(es, m, Value) \in Nat
      BY <1>1, <1>12
    <2> QED
      BY <1>8, <1>13, <2>2, <2>3
  <1>15. \A m \in Nat \ {0} : m >= Len(cs) => d[m] = 0
    <2>1. \A m \in Nat \ {0} : m >= L => c[m] = 0 /\ m # n
      BY <1>1 DEF Ledger, L
    <2> QED
      BY <1>2, <1>4, <2>1
  <1>16. WeightUpTo(cs, Len(cs), Value) = N
    <2>1. L \in n + 1..L
      BY <1>1
    <2> QED
      BY <1>2, <1>14, <2>1 DEF Ledger, L
  <1>17. ASSUME NEW m \in 1..Len(cs)
         PROVE  d[m] * (Weight[m] * Consumed) + WeightUpTo(cs, m, Value) <= N
    <2>1. m \in 1..L /\ c[m] * (Weight[m] * Consumed) + WeightUpTo(es, m, Value) <= N
      BY <1>2 DEF Ledger, L
    <2>2. CASE m # n
      <3>1. d[m] = c[m]
        BY <1>4, <2>2
      <3>2. WeightUpTo(cs, m, Value) = WeightUpTo(es, m, Value)
        <4>1. m \in 1..n - 1 \/ m \in n + 1..L
          BY <1>1, <2>1, <2>2
        <4> QED
          BY <1>8, <1>13, <1>14, <4>1
      <3> QED
        BY <2>1, <3>1, <3>2
    <2>3. CASE m = n
      <3> DEFINE u == w * Consumed
                 x == WeightUpTo(es, n, Value)
                 y == WeightUpTo(cs, n, Value)
      <3>1. y = x - w * r(Value) + w * K(Value)
        BY <1>8, <1>13
      <3>2. w * r(Value) = w * K(Value) + w * (2 * h)
        <4>1. r(Value) = K(Value) + 2 * h
          BY <1>7, <1>10, <1>11
        <4> QED
          BY <1>5, <1>7, <1>10, <4>1
      <3>3. u <= w * (2 * h)
        BY <1>5, <1>7
      <3>4. x \in Nat /\ u \in Nat /\ w * (2 * h) \in Nat /\ w * K(Value) \in Nat
        <4>1. n \in 0..L
          BY <1>1
        <4>2. x \in Nat
          BY <1>12, <4>1
        <4>3. K(Value) \in Nat /\ 2 * h \in Nat
          BY <1>7, <1>10
        <4>4. w * (2 * h) \in Nat /\ w * K(Value) \in Nat /\ w * Consumed \in Nat
          BY <1>5, <4>3
        <4> QED
          BY <4>2, <4>4
      <3>5. c[n] * u + x <= N /\ c[n] * u \in Nat /\ (c[n] + 1) * u = c[n] * u + u
        <4>1. c[n] * u + x <= N
          BY <2>1, <2>3 DEF w
        <4>2. c[n] \in Nat /\ u \in Nat
          BY <1>3, <3>4
        <4> HIDE DEF u
        <4>3. c[n] * u \in Nat /\ (c[n] + 1) * u = c[n] * u + u
          BY ONLY <4>2
        <4> QED
          BY <4>1, <4>3
      <3> DEFINE p == c[n] * u
                 q == (c[n] + 1) * u
                 a == w * (2 * h)
                 b == w * K(Value)
      <3>6. y = x - (b + a) + b
        BY <3>1, <3>2
      <3>7. p + x <= N /\ p \in Nat /\ q = p + u /\ a \in Nat /\ b \in Nat /\ u <= a
        BY <3>3, <3>4, <3>5
      <3>8. d[n] * (w * Consumed) + y = q + y
        BY <1>4
      <3> HIDE DEF p, q, a, b, u, x, y
      <3>9. q + y <= N
        BY <3>4, <3>6, <3>7
      <3> QED
        BY <2>3, <3>8, <3>9 DEF y, w
    <2> QED
      BY <2>2, <2>3
  <1>18. ASSUME NEW vs \in Initial
         PROVE  Near(WeightUpTo(cs, Len(cs), vs), SumOn(A, vs), ErrorUpTo(d, Len(cs) - 1))
    <2> DEFINE x == WeightUpTo(es, L, vs)
               y == WeightUpTo(cs, L, vs)
               s == SumOn(A, vs)
               e == ErrorUpTo(c, L - 1)
               f == ErrorUpTo(d, L - 1)
               t == 2 * M(vs) + K(vs) - r(vs)
    <2>1. Near(x, s, e)
      BY DEF Ledger, L
    <2>2. y = x + w * t /\ t \in {-1, 0, 1}
      BY <1>1, <1>8, <1>9
    <2>3. f = e + w
      <3>1. L - 1 \in Nat /\ n \in 1..L - 1
        BY <1>1
      <3> QED
        BY <1>3, <3>1, ErrorGrows DEF d, w
    <2>4. x \in Nat /\ s \in Nat /\ e \in Nat /\ w \in Nat
      <3>1. vs \in SUBSET Value /\ L - 1 \in Nat /\ L \in 0..L
        BY <1>1, ValueInitial
      <3> QED
        BY <1>3, <1>5, <1>12, <3>1, SumOnType, CostsSummable
    <2> HIDE DEF x, y, s, e, f, t
    <2>5. w * t \in {-w, 0, w}
      BY <2>2, <2>4
    <2>6. Near(y, s, f)
      BY <2>1, <2>2, <2>3, <2>4, <2>5 DEF Near
    <2> QED
      BY <1>2, <2>6 DEF y, s, f
  <1>19. ASSUME NEW m \in DOMAIN cs, NEW v \in Range(cs[m]) PROVE A[v] > 0
    <2>1. \A k \in DOMAIN es : \A x \in Range(es[k]) : A[x] > 0
      BY DEF Ledger
    <2>2. /\ cs[n] = Retained(es[n]) /\ cs[n + 1] = es[n + 1] \o Promoted(es[n], offset)
          /\ \A k \in DOMAIN es : k # n /\ k # n + 1 => cs[k] = es[k]
      BY DEF IsCompacted
    <2>3. /\ Range(Retained(es[n])) \subseteq Range(es[n])
          /\ Range(Promoted(es[n], offset)) \subseteq Range(es[n])
      BY <1>1, HalvedRange
    <2>4. es[n + 1] \in Seq(Value)
      BY LevelsShape
    <2>5. Range(cs[n + 1]) \subseteq Range(es[n + 1]) \cup Range(Promoted(es[n], offset))
      <3> DEFINE s == es[n + 1]
                 p == Promoted(es[n], offset)
      <3>1. s \in Seq(Value) /\ p \in Seq(Value) /\ cs[n + 1] = s \o p
        BY ONLY <1>7, <2>2, <2>4
      <3> HIDE DEF s, p
      <3>2. Range(s \o p) \subseteq Range(s) \cup Range(p)
        BY ONLY <3>1, RangeConcat
      <3> QED
        BY ONLY <3>1, <3>2 DEF s, p
    <2>6. n \in DOMAIN es /\ n + 1 \in DOMAIN es /\ m \in DOMAIN es
      BY <1>2
    <2>7. \E k \in DOMAIN es : v \in Range(es[k])
      <3>1. CASE m = n
        BY ONLY v \in Range(cs[m]), <2>2, <2>3, <2>6, <3>1
      <3>2. CASE m = n + 1
        BY ONLY v \in Range(cs[m]), <2>3, <2>5, <2>6, <3>2
      <3>3. CASE m # n /\ m # n + 1
        BY ONLY v \in Range(cs[m]), <2>2, <2>6, <3>3
      <3> QED
        BY <3>1, <3>2, <3>3
    <2> QED
      BY ONLY <2>1, <2>7
  <1> QED
    BY <1>4, <1>15, <1>16, <1>17, <1>18, <1>19 DEF Ledger, d

-----------------------------------------------------------------------------
(* The cascade *)

\* The recursion of CompactLevel.
CascadeStep(f, ls, n) ==
    IF n = 0 THEN {ls}
    ELSE {Compacted(l, n, offset) :
            l \in {m \in f[n - 1] : Overfull(m, n)},
            offset \in {0, 1}}
CascadeEquation(f, ls, k) == f = [n \in 0..k |-> CascadeStep(f, ls, n)]
Cascade(ls) == CHOOSE f : CascadeEquation(f, ls, Len(ls))

LEMMA CascadeExists ==
    ASSUME NEW ls
    PROVE  \A k \in Nat : \E f : CascadeEquation(f, ls, k)
  <1> DEFINE Missing == {k \in Nat : ~\E f : CascadeEquation(f, ls, k)}
  <1>1. ASSUME Missing # {} PROVE FALSE
    <2>1. PICK k \in Missing : \A j \in Missing : k <= j
      <3>1. Missing \in SUBSET Nat
        OBVIOUS
      <3> HIDE DEF Missing
      <3> QED
        BY <1>1, <3>1, HasLeast
    <2>2. CASE k = 0
      <3> DEFINE f == [n \in 0..0 |-> {ls}]
      <3>1. \A n \in 0..0 : CascadeStep(f, ls, n) = {ls}
        BY DEF CascadeStep
      <3>2. CascadeEquation(f, ls, 0)
        BY <3>1 DEF CascadeEquation
      <3> QED
        BY <2>1, <2>2, <3>2
    <2>3. CASE k # 0
      <3>1. k \in Nat /\ k - 1 \in Nat /\ k - 1 \notin Missing
        BY <2>1, <2>3
      <3>2. PICK f : CascadeEquation(f, ls, k - 1)
        BY <3>1
      <3> DEFINE g == [n \in 0..k |-> CascadeStep(f, ls, n)]
      <3>3. \A n \in 0..k - 1 : n \in 0..k /\ g[n] = f[n]
        BY <3>1, <3>2 DEF CascadeEquation
      <3>4. \A n \in 0..k : n # 0 => n - 1 \in 0..k - 1
        BY <3>1
      <3>5. \A n \in 0..k : CascadeStep(g, ls, n) = CascadeStep(f, ls, n)
        <4> HIDE DEF g
        <4> QED
          BY <3>3, <3>4 DEF CascadeStep
      <3>6. CascadeEquation(g, ls, k)
        BY <3>5 DEF CascadeEquation
      <3> QED
        BY <2>1, <3>6
    <2> QED
      BY <2>2, <2>3
  <1> QED
    BY <1>1

LEMMA CascadeIs ==
    ASSUME NEW ls, IsLevels(ls)
    PROVE  /\ \A n \in 0..Len(ls) : Cascade(ls)[n] = CascadeStep(Cascade(ls), ls, n)
           /\ CompactLevel(ls) =
                  UNION {{l \in Cascade(ls)[n] : ~Overfull(l, n + 1)} : n \in 0..Len(ls)}
  <1>1. Len(ls) \in Nat
    BY LevelsShape
  <1>2. CascadeEquation(Cascade(ls), ls, Len(ls))
    BY <1>1, CascadeExists DEF Cascade
  <1>3. \A n \in 0..Len(ls) : Cascade(ls)[n] = CascadeStep(Cascade(ls), ls, n)
    BY <1>2 DEF CascadeEquation
  <1>4. CompactLevel(ls) =
            UNION {{l \in Cascade(ls)[n] : ~Overfull(l, n + 1)} : n \in 0..Len(ls)}
    <2> DEFINE f == CHOOSE f : f = [n \in 0..Len(ls) |->
                   IF n = 0 THEN {ls}
                   ELSE {Compacted(l, n, offset) :
                           l \in {m \in f[n - 1] : Overfull(m, n)},
                           offset \in {0, 1}}]
    <2>1. f = Cascade(ls)
      BY DEF Cascade, CascadeEquation, CascadeStep
    <2>2. CompactLevel(ls) =
              UNION {{l \in f[n] : ~Overfull(l, n + 1)} : n \in 0..Len(ls)}
      BY DEF CompactLevel
    <2> HIDE DEF f
    <2> QED
      BY <2>1, <2>2
  <1> QED
    BY <1>3, <1>4

\* The levels while a cascade that began with ls has come to level k + 1.
Along(ls, l, k, N, A) ==
    /\ IsLevels(l) /\ k + 1 \in DOMAIN l
    /\ Len(l) = IF k + 1 <= Len(ls) THEN Len(ls) ELSE k + 1
    /\ \A m \in DOMAIN l : m # k + 1 => Len(l[m]) <= capacity
    /\ Len(l[k + 1]) <= 2 * capacity
    /\ k = Len(ls) => Len(l[k + 1]) <= capacity
    /\ \E c : Ledger(l, N, A, c)

LEMMA AlongStep ==
    ASSUME capacity \in Capacities, NEW N \in Nat, NEW A \in [Value -> Nat],
           NEW ls, IsLevels(ls), NEW k \in 1..Len(ls),
           NEW l, Along(ls, l, k - 1, N, A), Overfull(l, k), NEW offset \in {0, 1}
    PROVE  Along(ls, Compacted(l, k, offset), k, N, A)
  <1> DEFINE es == Ensured(l, k + 1)
             cs == Compacted(l, k, offset)
  <1>1. /\ IsLevels(l) /\ k \in DOMAIN l /\ Len(l) = Len(ls) /\ Len(l[k]) <= 2 * capacity
        /\ \A m \in DOMAIN l : m # k => Len(l[m]) <= capacity
    <2>1. k \in Nat /\ Len(ls) \in Nat /\ k - 1 + 1 = k /\ k - 1 + 1 <= Len(ls)
      BY LevelsShape
    <2> QED
      BY <2>1 DEF Along
  <1>2. PICK c : Ledger(l, N, A, c)
    BY DEF Along
  <1>3. IsEnsured(l, k, es) /\ IsCompacted(es, k, offset, cs)
    BY <1>1, Ensuring, Compacting
  <1> HIDE DEF es, cs
  <1>4. /\ IsLevels(es) /\ k \in DOMAIN es /\ k + 1 \in DOMAIN es /\ es[k] = l[k]
        /\ DOMAIN es = 1..Len(es) /\ DOMAIN l = 1..Len(l) /\ Len(es) \in Nat /\ k \in Nat
        /\ \A m \in DOMAIN es : es[m] \in Seq(Value) /\ Len(es[m]) \in Nat
    <2>1. IsLevels(es) /\ k \in DOMAIN es /\ k + 1 \in DOMAIN es /\ es[k] = l[k]
      BY ONLY <1>1, <1>3 DEF IsEnsured
    <2>2. DOMAIN l = 1..Len(l)
      BY ONLY <1>1, LevelsShape
    <2>3. /\ DOMAIN es = 1..Len(es) /\ Len(es) \in Nat
          /\ \A m \in DOMAIN es : es[m] \in Seq(Value)
      BY ONLY <2>1, LevelsShape
    <2>4. \A s \in Seq(Value) : Len(s) \in Nat
      BY LenProperties
    <2> QED
      BY <2>1, <2>2, <2>3, <2>4
  <1>5. capacity \in Nat \ {0} /\ Len(es[k]) > capacity /\ Len(es[k]) <= 2 * capacity
    BY <1>1, <1>4, ConsumedType DEF Overfull
  <1>6. Ledger(cs, N, A, [c EXCEPT ![k] = @ + 1])
    <2>1. Ledger(es, N, A, c)
      BY <1>1, <1>2, <1>3, LedgerEnsured
    <2>2. /\ IsLevels(es) /\ k \in DOMAIN es /\ k + 1 \in DOMAIN es /\ Len(es[k]) > capacity
          /\ IsCompacted(es, k, offset, cs)
      BY ONLY <1>3, <1>4, <1>5
    <2>3. capacity \in Capacities /\ N \in Nat /\ A \in [Value -> Nat] /\ offset \in {0, 1}
      OBVIOUS
    <2> QED
      BY ONLY <2>1, <2>2, <2>3, LedgerCompacted, ZenonT(60)
  <1>7. PICK h : IsHalf(h, Len(es[k]))
    BY <1>4, Half
  <1>8. /\ h \in Nat /\ Len(es[k]) \in {2 * h, 2 * h + 1} /\ h <= capacity
        /\ Len(Retained(es[k])) = Len(es[k]) - 2 * h
        /\ Promoted(es[k], offset) \in Seq(Value) /\ Len(Promoted(es[k], offset)) = h
    <2>1. IsHalved(es[k], offset, h)
      BY <1>4, <1>7, Halved
    <2>2. h \in Nat /\ Len(es[k]) \in {2 * h, 2 * h + 1}
      BY <1>7 DEF IsHalf
    <2>3. h <= capacity
      BY <1>5, <2>2
    <2> QED
      BY <2>1, <2>2, <2>3 DEF IsHalved
  <1>9. /\ IsLevels(cs) /\ Len(cs) = Len(es) /\ DOMAIN cs = DOMAIN es
        /\ cs[k] = Retained(es[k])
        /\ cs[k + 1] = es[k + 1] \o Promoted(es[k], offset)
        /\ \A m \in DOMAIN es : m # k /\ m # k + 1 => cs[m] = es[m]
    BY <1>3 DEF IsCompacted
  <1>10. Len(cs[k + 1]) = Len(es[k + 1]) + h
    <2> DEFINE p == Promoted(es[k], offset)
               q == es[k + 1]
    <2>1. q \in Seq(Value) /\ p \in Seq(Value) /\ Len(p) = h /\ cs[k + 1] = q \o p
      BY ONLY <1>4, <1>8, <1>9
    <2> HIDE DEF p, q
    <2>2. Len(q \o p) = Len(q) + Len(p)
      BY ONLY <2>1, ConcatProperties
    <2>3. q = es[k + 1]
      BY DEF q
    <2> QED
      BY ONLY <2>1, <2>2, <2>3
  <1>11. Len(cs[k]) <= capacity
    <2>1. cs[k] = Retained(es[k])
      BY ONLY <1>9
    <2>2. Len(es[k]) - 2 * h <= 1 /\ 1 <= capacity
      BY ONLY <1>4, <1>5, <1>8
    <2> DEFINE x == Len(es[k]) - 2 * h
    <2>3. x \in Int /\ x <= 1 /\ Len(cs[k]) = x
      BY ONLY <1>4, <1>8, <2>1, <2>2
    <2> HIDE DEF x
    <2> QED
      BY ONLY <1>5, <2>2, <2>3
  <1>12. \/ es = l /\ k + 1 <= Len(ls)
         \/ k = Len(ls) /\ Len(es) = k + 1 /\ es[k + 1] = <<>>
    BY <1>1, <1>3, <1>4 DEF IsEnsured
  <1>13. CASE es = l /\ k + 1 <= Len(ls)
    <2>1. k # k + 1 /\ k # Len(ls) /\ Len(es[k + 1]) <= capacity
      BY <1>1, <1>4, <1>13
    <2>2. \A m \in DOMAIN cs : m # k + 1 => Len(cs[m]) <= capacity
      BY <1>1, <1>9, <1>11, <1>13
    <2>3. Len(cs[k + 1]) <= 2 * capacity
      BY <1>4, <1>5, <1>8, <1>10, <2>1
    <2> QED
      BY <1>1, <1>4, <1>6, <1>9, <1>13, <2>1, <2>2, <2>3 DEF Along, cs
  <1>14. CASE k = Len(ls) /\ Len(es) = k + 1 /\ es[k + 1] = <<>>
    <2>1. Len(cs[k + 1]) <= capacity
      BY <1>8, <1>10, <1>14
    <2>2. \A m \in DOMAIN es : m # k + 1 => m \in DOMAIN l /\ es[m] = l[m]
      <3>1. \A m \in DOMAIN l : m \in DOMAIN es /\ es[m] = l[m]
        BY ONLY <1>3 DEF IsEnsured
      <3>2. DOMAIN es = 1..k + 1 /\ DOMAIN l = 1..k /\ k \in Nat
        BY ONLY <1>1, <1>4, <1>14
      <3>3. \A m \in 1..k + 1 : m # k + 1 => m \in 1..k
        BY ONLY <3>2
      <3> QED
        BY ONLY <3>1, <3>2, <3>3
    <2>3. \A m \in DOMAIN cs : m # k + 1 => Len(cs[m]) <= capacity
      BY <1>1, <1>9, <1>11, <2>2
    <2>4. Len(cs[k + 1]) <= 2 * capacity /\ ~(k + 1 <= Len(ls))
      <3>1. h <= 2 * capacity
        BY ONLY <1>5, <1>8
      <3>2. Len(cs[k + 1]) = h
        BY ONLY <1>8, <1>10, <1>14
      <3>3. ~(k + 1 <= Len(ls))
        BY ONLY <1>4, <1>14
      <3> QED
        BY ONLY <3>1, <3>2, <3>3
    <2> QED
      BY <1>4, <1>6, <1>9, <1>14, <2>1, <2>3, <2>4 DEF Along, cs
  <1> QED
    BY <1>12, <1>13, <1>14

LEMMA AlongCascade ==
    ASSUME capacity \in Capacities, NEW N \in Nat, NEW A \in [Value -> Nat],
           NEW ls, IsLevels(ls), Along(ls, ls, 0, N, A)
    PROVE  \A k \in 0..Len(ls) : \A l \in Cascade(ls)[k] : Along(ls, l, k, N, A)
  <1> DEFINE Bad == {k \in 0..Len(ls) : ~\A l \in Cascade(ls)[k] : Along(ls, l, k, N, A)}
  <1>0. Len(ls) \in Nat
    BY LevelsShape
  <1>1. ASSUME Bad # {} PROVE FALSE
    <2>1. PICK k \in Bad : \A j \in Bad : k <= j
      <3>1. Bad \in SUBSET Nat
        BY <1>0
      <3> HIDE DEF Bad
      <3> QED
        BY <1>1, <3>1, HasLeast
    <2>2. k \in 0..Len(ls) /\ Cascade(ls)[k] = CascadeStep(Cascade(ls), ls, k)
      BY <2>1, CascadeIs
    <2>3. PICK l \in Cascade(ls)[k] : ~Along(ls, l, k, N, A)
      BY <2>1
    <2>4. k # 0
      BY <2>2, <2>3 DEF CascadeStep
    <2>5. k \in 1..Len(ls) /\ k - 1 \in 0..Len(ls) /\ ~(k <= k - 1)
      BY <1>0, <2>2, <2>4
    <2>6. \A m \in Cascade(ls)[k - 1] : Along(ls, m, k - 1, N, A)
      BY <2>1, <2>5
    <2>7. PICK m \in Cascade(ls)[k - 1], offset \in {0, 1} :
             Overfull(m, k) /\ l = Compacted(m, k, offset)
      BY <2>2, <2>3, <2>4 DEF CascadeStep
    <2> HIDE DEF Bad
    <2> QED
      BY <2>3, <2>5, <2>6, <2>7, AlongStep
  <1> QED
    BY <1>1

-----------------------------------------------------------------------------
(* Operations *)

LEMMA LedgerInit ==
    ASSUME capacity \in Capacities
    PROVE  LET A == [v \in Value |-> 0]
               c == [m \in Nat \ {0} |-> 0]
           IN  Ledger(<< <<>> >>, 0, A, c)
  <1> DEFINE A == [v \in Value |-> 0]
             c == [m \in Nat \ {0} |-> 0]
             ls == << <<>> >>
  <1>1. /\ c \in [Nat \ {0} -> Nat] /\ A \in [Value -> Nat]
        /\ \A m \in Nat \ {0} : c[m] = 0
        /\ \A v \in Value : A[v] = 0
    OBVIOUS
  <1>2. IsLevels(ls) /\ Len(ls) = 1 /\ ls[1] = <<>> /\ DOMAIN ls = {1}
    BY DEF IsLevels
  <1> HIDE DEF ls, A, c
  <1>3. ASSUME NEW vs PROVE WeightUpTo(ls, 1, vs) = 0
    <2>1. WeightUpTo(ls, 0 + 1, vs) =
              WeightUpTo(ls, 0, vs) + Weight[0 + 1] * Occurrences(ls[0 + 1], vs)
      <3>1. 0 \in Nat /\ 0 + 1 <= Len(ls)
        BY <1>2
      <3>2. IsLevels(ls)
        BY <1>2
      <3> QED
        BY ONLY <3>1, <3>2, WeightUpToNext
    <2>2. Occurrences(ls[1], vs) = 0 /\ Weight[1] = 1
      BY <1>2, OccurrencesNone, WeightLaws
    <2>3. WeightUpTo(ls, 0, vs) = 0
      <3> DEFINE f == LevelWeights(ls, 0, vs)
      <3>1. Summable(f) /\ DOMAIN f = {}
        BY <1>2, LevelWeightsSummable
      <3> HIDE DEF f
      <3>2. SumFunction(f) = 0
        BY <3>1, SumZero DEF Summable
      <3> QED
        BY <3>2 DEF f, WeightUpTo
    <2> QED
      BY <2>1, <2>2, <2>3
  <1>4. ErrorUpTo(c, 0) = 0
    <2> DEFINE f == Costs(c, 0)
    <2>1. Summable(f) /\ DOMAIN f = {}
      BY <1>1, CostsSummable
    <2> HIDE DEF f
    <2>2. SumFunction(f) = 0
      BY <2>1, SumZero DEF Summable
    <2> QED
      BY <2>2 DEF f, ErrorUpTo
  <1>5. ASSUME NEW vs \in Initial PROVE SumOn(A, vs) = 0
    <2> DEFINE f == [v \in vs |-> A[v]]
    <2>1. Summable(f) /\ DOMAIN f = vs /\ \A v \in vs : f[v] = 0
      BY <1>1, ValueInitial, SumOnType
    <2> HIDE DEF f
    <2>2. SumFunction(f) = 0
      BY <2>1, SumZero DEF Summable
    <2> QED
      BY <2>2 DEF f, SumOn
  <1>6. ASSUME NEW vs \in Initial
        PROVE  Near(WeightUpTo(ls, Len(ls), vs), SumOn(A, vs), ErrorUpTo(c, Len(ls) - 1))
    BY <1>2, <1>3, <1>4, <1>5 DEF Near
  <1>7. \A m \in 1..Len(ls) : c[m] * (Weight[m] * Consumed) + WeightUpTo(ls, m, Value) <= 0
    <2>1. Weight[1] = 1 /\ c[1] = 0 /\ WeightUpTo(ls, 1, Value) = 0
      BY <1>1, <1>3, WeightLaws
    <2>2. 1..Len(ls) = {1}
      BY <1>2
    <2>4. Consumed \in Nat
      BY ConsumedType
    <2>3. c[1] * (Weight[1] * Consumed) + WeightUpTo(ls, 1, Value) = 0
      BY <2>1, <2>4
    <2> QED
      BY <2>2, <2>3
  <1>8. \A m \in DOMAIN ls : Range(ls[m]) = {}
    BY <1>2 DEF Range
  <1> QED
    BY <1>1, <1>2, <1>3, <1>6, <1>7, <1>8 DEF Ledger, ls, A, c

\* One more value v among the added ones.
Raised(A, v) == [A EXCEPT ![v] = @ + 1]

LEMMA SumOnRaised ==
    ASSUME NEW A \in [Value -> Nat], NEW v \in Value, NEW vs \in Initial
    PROVE  SumOn(Raised(A, v), vs) = SumOn(A, vs) + (IF v \in vs THEN 1 ELSE 0)
  <1> DEFINE B == Raised(A, v)
             f == [w \in vs |-> A[w]]
             e == [w \in vs |-> B[w]]
  <1>1. B \in [Value -> Nat] /\ B[v] = A[v] + 1 /\ \A w \in Value : w # v => B[w] = A[w]
    BY DEF Raised
  <1> HIDE DEF B
  <1>2. vs \in SUBSET Value
    BY ValueInitial
  <1>3. /\ Summable(f) /\ Summable(e) /\ DOMAIN f = vs /\ DOMAIN e = vs
        /\ SumOn(A, vs) \in Nat
    BY <1>1, <1>2, SumOnType
  <1>4. CASE v \notin vs
    <2>1. f = e
      BY <1>1, <1>2, <1>4
    <2>2. SumOn(B, vs) = SumOn(A, vs)
      BY <2>1 DEF SumOn
    <2> QED
      BY <1>3, <1>4, <2>2 DEF B
  <1>5. CASE v \in vs
    <2>1. /\ \A w \in vs \ {v} : f[w] = e[w]
          /\ f[v] = A[v] /\ e[v] = A[v] + 1 /\ A[v] \in Nat
      BY <1>1, <1>2, <1>5
    <2> HIDE DEF f, e
    <2>2. /\ v \in DOMAIN f /\ v \in DOMAIN e /\ DOMAIN f \ {v} = DOMAIN e \ {v}
          /\ \A w \in DOMAIN f \ {v} : f[w] = e[w]
      BY <1>3, <1>5, <2>1
    <2>3. Summable(f) /\ Summable(e)
      BY <1>3
    <2>4. SumFunction(f) \in Nat /\ SumFunction(e) = SumFunction(f) - f[v] + e[v]
      BY ONLY <2>2, <2>3, SumSwaps
    <2>5. SumFunction(e) = SumFunction(f) + 1
      BY <2>1, <2>4
    <2> QED
      BY <1>5, <2>5 DEF B, SumOn, f, e
  <1> QED
    BY <1>4, <1>5

\* The levels after a value came in.
Entered(ls, v) == [ls EXCEPT ![1] = Append(@, v)]

LEMMA EnteredShape ==
    ASSUME NEW ls, IsLevels(ls), NEW v \in Value
    PROVE  LET es == Entered(ls, v)
           IN  /\ IsLevels(es) /\ Len(es) = Len(ls) /\ DOMAIN es = DOMAIN ls
               /\ es[1] = Append(ls[1], v) /\ Len(es[1]) = Len(ls[1]) + 1
               /\ Range(es[1]) \subseteq Range(ls[1]) \cup {v}
               /\ \A m \in DOMAIN ls : m # 1 => es[m] = ls[m]
  <1> DEFINE es == Entered(ls, v)
  <1>1. /\ Len(ls) \in Nat \ {0} /\ DOMAIN ls = 1..Len(ls) /\ 1 \in DOMAIN ls
        /\ \A m \in DOMAIN ls : ls[m] \in Seq(Value) /\ Len(ls[m]) \in Nat
    BY LevelsShape
  <1>2. ls[1] \in Seq(Value)
    BY <1>1
  <1> DEFINE s == ls[1]
             t == Append(s, v)
  <1>3. s \in Seq(Value) /\ t \in Seq(Value) /\ Len(t) = Len(s) + 1 /\ Len(s) \in Nat
        /\ t[Len(s) + 1] = v /\ \A i \in 1..Len(s) : t[i] = s[i]
    <2> HIDE DEF s
    <2>1. s \in Seq(Value)
      BY <1>2 DEF s
    <2> QED
      BY <2>1, AppendProperties
  <1> HIDE DEF t
  <1>4. Range(t) \subseteq Range(s) \cup {v}
    <2> HIDE DEF s
    <2>1. DOMAIN t = 1..Len(s) + 1 /\ DOMAIN s = 1..Len(s)
      BY <1>3
    <2> QED
      BY <1>3, <2>1 DEF Range
  <1>5. /\ es = [ls EXCEPT ![1] = t]
    BY DEF Entered, t
  <1> HIDE DEF es, s
  <1>6. ls \in Seq(Seq(Value))
    BY DEF IsLevels
  <1>7. /\ es \in Seq(Seq(Value)) /\ Len(es) = Len(ls) /\ DOMAIN es = DOMAIN ls
        /\ es[1] = t /\ \A m \in DOMAIN ls : m # 1 => es[m] = ls[m]
    <2>1. es = [ls EXCEPT ![1] = t] /\ t \in Seq(Value) /\ ls \in Seq(Seq(Value)) /\ 1 \in DOMAIN ls
      BY <1>1, <1>3, <1>5, <1>6
    <2> QED
      BY ONLY <2>1, ExceptSeq
  <1>8. es # <<>>
    BY <1>1, <1>7
  <1> QED
    BY <1>3, <1>4, <1>7, <1>8 DEF IsLevels, es, t, s

LEMMA WeightEntered ==
    ASSUME NEW ls, IsLevels(ls), NEW v \in Value, NEW m \in 1..Len(ls), NEW vs
    PROVE  /\ WeightUpTo(ls, m, vs) \in Nat
           /\ WeightUpTo(Entered(ls, v), m, vs) =
                  WeightUpTo(ls, m, vs) + (IF v \in vs THEN 1 ELSE 0)
  <1> DEFINE es == Entered(ls, v)
             d == IF v \in vs THEN 1 ELSE 0
  <1>1. /\ IsLevels(es) /\ Len(es) = Len(ls) /\ DOMAIN es = DOMAIN ls
        /\ es[1] = Append(ls[1], v) /\ \A k \in DOMAIN ls : k # 1 => es[k] = ls[k]
    BY EnteredShape
  <1>2. Len(ls) \in Nat /\ DOMAIN ls = 1..Len(ls) /\ ls[1] \in Seq(Value)
    BY LevelsShape
  <1> HIDE DEF es
  <1>3. /\ Occurrences(es[1], vs) = Occurrences(ls[1], vs) + d
        /\ Occurrences(ls[1], vs) \in Nat
    BY <1>1, <1>2, OccurrencesAppend, PositionsFinite
  <1> HIDE DEF d
  <1>4. \A k \in 1..m : k # 1 => Occurrences(es[k], vs) = Occurrences(ls[k], vs)
    BY <1>1, <1>2
  <1>5. WeightUpTo(es, m, vs) = WeightUpTo(ls, m, vs) - Weight[1] * Occurrences(ls[1], vs)
                                                      + Weight[1] * Occurrences(es[1], vs)
    <2>1. m \in 1..Len(ls) /\ m <= Len(es) /\ 1 \in 1..m /\ IsLevels(es)
      BY <1>1, <1>2
    <2> QED
      BY <1>4, <2>1, WeightUpToSwap
  <1>6. WeightUpTo(ls, m, vs) \in Nat
    BY <1>2, LevelWeightsSummable
  <1>7. d \in Nat /\ Weight[1] = 1
    BY WeightLaws DEF d
  <1>8. WeightUpTo(es, m, vs) = WeightUpTo(ls, m, vs) + d
    BY <1>3, <1>5, <1>6, <1>7
  <1> QED
    BY <1>6, <1>8 DEF d, es

LEMMA LedgerEntered ==
    ASSUME capacity \in Capacities, NEW N \in Nat, NEW A \in [Value -> Nat], NEW c,
           NEW ls, IsLevels(ls), Ledger(ls, N, A, c), NEW v \in Value
    PROVE  Ledger(Entered(ls, v), N + 1, Raised(A, v), c)
  <1> DEFINE es == Entered(ls, v)
             B == Raised(A, v)
             L == Len(ls)
  <1>1. /\ IsLevels(es) /\ Len(es) = L /\ DOMAIN es = DOMAIN ls
        /\ Range(es[1]) \subseteq Range(ls[1]) \cup {v}
        /\ \A m \in DOMAIN ls : m # 1 => es[m] = ls[m]
    BY EnteredShape
  <1>2. L \in Nat \ {0} /\ DOMAIN ls = 1..L /\ \A m \in DOMAIN ls : ls[m] \in Seq(Value)
    BY LevelsShape
  <1>3. \A m \in 1..L : \A vs :
            /\ WeightUpTo(ls, m, vs) \in Nat
            /\ WeightUpTo(es, m, vs) = WeightUpTo(ls, m, vs) + (IF v \in vs THEN 1 ELSE 0)
    BY WeightEntered
  <1>4. \A vs \in Initial : SumOn(B, vs) = SumOn(A, vs) + (IF v \in vs THEN 1 ELSE 0)
    BY SumOnRaised
  <1>5. \A w \in Value : B[w] = IF w = v THEN A[w] + 1 ELSE A[w]
    BY DEF Raised
  <1> HIDE DEF es, B, L
  <1>6. /\ c \in [Nat \ {0} -> Nat] /\ \A m \in Nat \ {0} : m >= L => c[m] = 0
        /\ WeightUpTo(ls, L, Value) = N
        /\ \A m \in 1..L : c[m] * (Weight[m] * Consumed) + WeightUpTo(ls, m, Value) <= N
        /\ \A vs \in Initial :
              Near(WeightUpTo(ls, L, vs), SumOn(A, vs), ErrorUpTo(c, L - 1))
        /\ \A m \in DOMAIN ls : \A w \in Range(ls[m]) : A[w] > 0
    BY DEF Ledger, L
  <1>7. WeightUpTo(es, L, Value) = N + 1
    BY <1>2, <1>3, <1>6
  <1>8. ASSUME NEW m \in 1..L
        PROVE  c[m] * (Weight[m] * Consumed) + WeightUpTo(es, m, Value) <= N + 1
    <2> DEFINE x == c[m] * (Weight[m] * Consumed)
               y == WeightUpTo(ls, m, Value)
    <2>1. x \in Nat
      <3>1. m \in Nat \ {0}
        BY <1>2
      <3>2. c[m] \in Nat /\ Weight[m] \in Nat /\ Consumed \in Nat
        BY <1>6, <3>1, WeightLaws, ConsumedType
      <3> QED
        BY <3>2
    <2>2. y \in Nat /\ WeightUpTo(es, m, Value) = y + 1 /\ x + y <= N
      BY <1>3, <1>6
    <2> HIDE DEF x, y
    <2> QED
      BY <2>1, <2>2 DEF x
  <1>9. ASSUME NEW vs \in Initial
        PROVE  Near(WeightUpTo(es, L, vs), SumOn(B, vs), ErrorUpTo(c, L - 1))
    <2> DEFINE x == WeightUpTo(ls, L, vs)
               y == SumOn(A, vs)
               e == ErrorUpTo(c, L - 1)
    <2>1. x \in Nat /\ y \in Nat /\ e \in Nat /\ Near(x, y, e)
      <3>1. L - 1 \in Nat /\ L \in 1..L /\ vs \in SUBSET Value
        BY <1>2, ValueInitial
      <3> QED
        BY <1>3, <1>6, <3>1, SumOnType, CostsSummable
    <2>2. PICK d \in {0, 1} : WeightUpTo(es, L, vs) = x + d /\ SumOn(B, vs) = y + d
      BY <1>2, <1>3, <1>4
    <2> HIDE DEF x, y, e
    <2>3. Near(x + d, y + d, e)
      BY <2>1 DEF Near
    <2> QED
      BY <2>2, <2>3 DEF e
  <1>10. ASSUME NEW m \in DOMAIN es, NEW w \in Range(es[m]) PROVE B[w] > 0
    <2>1. (w \in Range(ls[m]) /\ w \in Value) \/ w = v
      <3>1. Range(ls[m]) \subseteq Value
        BY <1>1, <1>2, FiniteRange
      <3> QED
        BY <1>1, <3>1
    <2>2. v \in Value /\ A[v] \in Nat
      OBVIOUS
    <2>3. w \in Range(ls[m]) => A[w] > 0
      BY <1>1, <1>6
    <2>4. w \in Value /\ A[w] \in Nat
      BY <2>1, <2>2
    <2> QED
      BY <1>5, <2>1, <2>3, <2>4
  <1> QED
    BY <1>1, <1>6, <1>7, <1>8, <1>9, <1>10 DEF Ledger, es, B, L

\* The levels of a state in which no level is overfull.
Settled(ls) == IsLevels(ls) /\ \A m \in DOMAIN ls : Len(ls[m]) <= capacity

LEMMA CascadeBegins ==
    ASSUME capacity \in Capacities, NEW N \in Nat, NEW A \in [Value -> Nat],
           NEW ls, Settled(ls), \E c : Ledger(ls, N, A, c), NEW v \in Value
    PROVE  LET es == Entered(ls, v)
           IN  IsLevels(es) /\ Along(es, es, 0, N + 1, Raised(A, v))
  <1> DEFINE es == Entered(ls, v)
  <1>1. IsLevels(ls) /\ \A m \in DOMAIN ls : Len(ls[m]) <= capacity
    BY DEF Settled
  <1>2. /\ IsLevels(es) /\ Len(es) = Len(ls) /\ DOMAIN es = DOMAIN ls
        /\ Len(es[1]) = Len(ls[1]) + 1
        /\ \A m \in DOMAIN ls : m # 1 => es[m] = ls[m]
    BY <1>1, EnteredShape
  <1>3. \E c : Ledger(es, N + 1, Raised(A, v), c)
    BY <1>1, LedgerEntered
  <1>4. /\ Len(ls) \in Nat \ {0} /\ 1 \in DOMAIN ls /\ Len(ls[1]) \in Nat
        /\ capacity \in Nat \ {0}
    BY <1>1, LevelsShape, ConsumedType
  <1> HIDE DEF es
  <1>5. Len(es[1]) <= 2 * capacity
    BY <1>1, <1>2, <1>4
  <1>6. /\ 0 + 1 \in DOMAIN es /\ 0 + 1 = 1 /\ ~(0 = Len(es))
        /\ Len(es) = IF 0 + 1 <= Len(es) THEN Len(es) ELSE 0 + 1
    BY <1>2, <1>4
  <1>7. \A m \in DOMAIN es : m # 0 + 1 => Len(es[m]) <= capacity
    BY <1>1, <1>2
  <1> QED
    BY <1>2, <1>3, <1>5, <1>6, <1>7 DEF Along, es

\* However a cascade goes, it ends with levels that hold what they may, with
\* the ledger kept.
LEMMA CascadeResult ==
    ASSUME capacity \in Capacities, NEW N \in Nat, NEW A \in [Value -> Nat],
           NEW ls, Settled(ls), \E c : Ledger(ls, N, A, c), NEW v \in Value,
           NEW l \in CompactLevel(Entered(ls, v))
    PROVE  Settled(l) /\ \E c : Ledger(l, N + 1, Raised(A, v), c)
  <1> DEFINE es == Entered(ls, v)
             B == Raised(A, v)
  <1>1. IsLevels(es) /\ Along(es, es, 0, N + 1, B)
    BY CascadeBegins
  <1>2. B \in [Value -> Nat] /\ N + 1 \in Nat
    BY DEF Raised
  <1> HIDE DEF es, B
  <1>3. PICK k \in 0..Len(es) : l \in Cascade(es)[k] /\ ~Overfull(l, k + 1)
    BY <1>1, CascadeIs DEF es
  <1>4. Along(es, l, k, N + 1, B)
    BY <1>1, <1>2, <1>3, AlongCascade
  <1>5. /\ IsLevels(l) /\ k + 1 \in DOMAIN l /\ Len(l[k + 1]) \in Nat /\ capacity \in Nat
        /\ \A m \in DOMAIN l : m # k + 1 => Len(l[m]) <= capacity
        /\ \E c : Ledger(l, N + 1, B, c)
    BY <1>4, LevelsShape, ConsumedType DEF Along
  <1>6. Len(l[k + 1]) <= capacity
    BY <1>3, <1>5 DEF Overfull
  <1> QED
    BY <1>5, <1>6 DEF Settled, B

-----------------------------------------------------------------------------
(* The inductive invariant *)

\* No level is overfull, and the compactions so far can be told such that
\* the ledger is right.  WeightKept and RanksClose alone are not inductive:
\* nothing in them bounds how often a level has been compacted.
Accounted == \E c : Ledger(levels, count, added, c)

KllInv ==
    /\ capacity \in Capacities
    /\ Settled(levels)
    /\ count \in 0..MaxCount
    /\ added \in [Value -> Nat] /\ \A v \in Value : added[v] <= count
    /\ Accounted

LEMMA AccountedAfter ==
    ASSUME capacity' = capacity, NEW c, Ledger(levels', count', added', c)
    PROVE  Accounted'
  <1>1. Consumed' = Consumed
    BY DEF Consumed
  <1> QED
    BY <1>1 DEF Accounted, Ledger

LEMMA InitKll == Init => KllInv
  <1> SUFFICES ASSUME Init PROVE KllInv
    OBVIOUS
  <1>1. capacity \in Capacities /\ levels = << <<>> >> /\ count = 0
        /\ added = [v \in Value |-> 0]
    BY DEF Init
  <1>2. Accounted
    BY <1>1, LedgerInit DEF Accounted
  <1>3. Settled(levels)
    <2>1. Len(<<>>) = 0 /\ DOMAIN levels = {1} /\ levels[1] = <<>>
      BY <1>1
    <2>2. IsLevels(levels)
      BY <1>1 DEF IsLevels
    <2>3. 0 <= capacity
      BY <1>1, ConsumedType
    <2> QED
      BY <2>1, <2>2, <2>3 DEF Settled
  <1> QED
    BY <1>1, <1>2, <1>3, CapacityAssumption DEF KllInv

LEMMA AddKll ==
    ASSUME KllInv, NEW v \in Value, Add(v)
    PROVE  KllInv'
  <1>1. /\ capacity \in Capacities /\ Settled(levels) /\ count \in Nat
        /\ added \in [Value -> Nat] /\ \A w \in Value : added[w] <= count
        /\ \E c : Ledger(levels, count, added, c)
    BY CapacityAssumption DEF KllInv, Accounted
  <1>2. /\ levels' \in CompactLevel(Entered(levels, v)) /\ capacity' = capacity
        /\ count' = count + 1 /\ count < MaxCount /\ added' = Raised(added, v)
    BY DEF Add, Entered, Raised
  <1>3. Settled(levels') /\ \E c : Ledger(levels', count + 1, Raised(added, v), c)
    BY ONLY <1>1, <1>2, v \in Value, ValueAssumption, CascadeResult
  <1>4. Accounted'
    <2>1. PICK c : Ledger(levels', count', added', c)
      BY <1>2, <1>3
    <2> QED
      BY <1>2, <2>1, AccountedAfter
  <1>5. Settled(levels)'
    BY <1>2, <1>3 DEF Settled
  <1>6. added' \in [Value -> Nat] /\ \A w \in Value : added'[w] <= count'
    BY <1>1, <1>2 DEF Raised
  <1>7. count' \in 0..MaxCount
    BY <1>1, <1>2, CapacityAssumption
  <1> QED
    BY <1>1, <1>2, <1>4, <1>5, <1>6, <1>7 DEF KllInv

\* A sketch is read back whole, or not at all.
LEMMA ReloadKept ==
    ASSUME KllInv, Reload
    PROVE  UNCHANGED vars
  <1>1. IsLevels(levels) /\ UNCHANGED <<capacity, count, added>>
    BY DEF KllInv, Settled, Reload
  <1>2. DOMAIN levels = 1..Len(levels) /\ Len(levels) \in Nat /\ levels \in Seq(Seq(Value))
    BY <1>1, LevelsShape DEF IsLevels
  <1>3. PICK n \in 0..Len(levels) :
           /\ n = Len(levels)
           /\ levels' = [m \in DOMAIN levels |-> IF m <= n THEN levels[m] ELSE <<>>]
    BY DEF Reload, Whole
  <1>4. levels' = [m \in 1..Len(levels) |-> levels[m]]
    BY <1>2, <1>3
  <1>5. levels = [m \in 1..Len(levels) |-> levels[m]]
    BY <1>2
  <1> QED
    BY <1>1, <1>4, <1>5 DEF vars

LEMMA StillKll ==
    ASSUME KllInv, UNCHANGED vars
    PROVE  KllInv'
  <1>1. PICK c : Ledger(levels, count, added, c)
    BY DEF KllInv, Accounted
  <1>2. capacity' = capacity /\ levels' = levels /\ count' = count /\ added' = added
    BY DEF vars
  <1>3. Accounted'
    BY <1>1, <1>2, AccountedAfter
  <1>4. Settled(levels)'
    BY <1>2 DEF KllInv, Settled
  <1> QED
    BY <1>2, <1>3, <1>4 DEF KllInv

LEMMA NextKll == KllInv /\ [Next]_vars => KllInv'
  <1> SUFFICES ASSUME KllInv, [Next]_vars PROVE KllInv'
    OBVIOUS
  <1>1. ASSUME NEW v \in Value, Add(v) PROVE KllInv'
    BY <1>1, AddKll
  <1>2. CASE AddNonFinite
    BY <1>2, StillKll DEF AddNonFinite
  <1>3. CASE Reload
    BY <1>3, ReloadKept, StillKll
  <1>4. CASE UNCHANGED vars
    BY <1>4, StillKll
  <1> QED
    BY <1>1, <1>2, <1>3, <1>4 DEF Next

LEMMA SpecKll == Spec => []KllInv
  BY InitKll, NextKll, PTL DEF Spec

-----------------------------------------------------------------------------
(* Type *)

LEMMA KllType == KllInv => TypeOK
  <1> SUFFICES ASSUME KllInv PROVE TypeOK
    OBVIOUS
  <1>1. levels \in Seq(Seq(Value)) /\ levels # <<>>
        /\ \A n \in DOMAIN levels : Len(levels[n]) <= capacity
    BY DEF KllInv, Settled, IsLevels
  <1>2. added \in [Value -> 0..MaxCount]
    BY CapacityAssumption DEF KllInv
  <1> QED
    BY <1>1, <1>2 DEF KllInv, TypeOK

\* In every state no level of a sketch holds more than its capacity, however
\* far the compactions of an add cascade (KllSketch::add, compact_level).
THEOREM SpecTypeOK == Spec => []TypeOK
  BY SpecKll, KllType, PTL

-----------------------------------------------------------------------------
(* Weights and ranks *)

LEMMA WeightOfIs ==
    ASSUME KllInv, NEW vs
    PROVE  /\ WeightOf(vs) = WeightUpTo(levels, Len(levels), vs)
           /\ WeightOf(vs) \in Nat
  <1>1. IsLevels(levels)
    BY DEF KllInv, Settled
  <1>2. DOMAIN levels = 1..Len(levels) /\ Len(levels) \in Nat \ {0}
    BY <1>1, LevelsShape
  <1>3. WeightOf(vs) = WeightUpTo(levels, Len(levels), vs)
    BY <1>2 DEF WeightOf, WeightUpTo, LevelWeights
  <1> QED
    BY <1>1, <1>2, <1>3, LevelWeightsSummable

\* No weight is lost in a cascade of compactions, nor when a sketch is read
\* back: the weights of what is kept add up to the number of values added
\* (compact_level, load_kll_entry).
THEOREM SpecWeightKept == Spec => []WeightKept
  <1>1. ASSUME KllInv PROVE WeightKept
    <2>1. WeightUpTo(levels, Len(levels), Value) = count
      BY <1>1 DEF KllInv, Accounted, Ledger
    <2> QED
      BY <1>1, <2>1, WeightOfIs DEF WeightKept
  <1> QED
    BY <1>1, SpecKll, PTL

LEMMA AtMostQuotient ==
    ASSUME NEW N \in Nat, NEW D \in Nat \ {0}, NEW k \in Nat, k * D <= N
    PROVE  N \div D \in Nat /\ k <= N \div D
  <1> DEFINE q == N \div D
             r == N % D
  <1>1. N = D * q + r /\ r \in Nat /\ r < D /\ q \in Nat
    OBVIOUS
  <1> HIDE DEF q, r
  <1>2. ASSUME k >= q + 1 PROVE FALSE
    <2>1. PICK j \in Nat : k = q + 1 + j
      <3>1. k - (q + 1) \in Nat /\ k = q + 1 + (k - (q + 1))
        BY <1>1, <1>2
      <3> QED
        BY <3>1
    <2>2. k * D = D * q + D + j * D
      BY <1>1, <2>1
    <2>3. j * D \in Nat /\ D * q \in Nat
      BY <1>1, <2>1
    <2> QED
      BY <1>1, <2>2, <2>3
  <1> QED
    BY <1>1, <1>2 DEF q

\* A level of weight w was compacted at most so often as count can pay for,
\* with w * Consumed for each time.
LEMMA RankErrorIs ==
    ASSUME KllInv, NEW c, Ledger(levels, count, added, c)
    PROVE  /\ ErrorUpTo(c, Len(levels) - 1) \in Nat /\ RankError \in Nat
           /\ ErrorUpTo(c, Len(levels) - 1) <= RankError
  <1> DEFINE k == Len(levels) - 1
             S == 1..k
             f == Costs(c, k)
             e == [n \in S |-> Weight[n] * (count \div (Weight[n] * Consumed))]
  <1>1. IsLevels(levels) /\ count \in Nat /\ capacity \in Capacities
    BY CapacityAssumption DEF KllInv, Settled
  <1>2. Len(levels) \in Nat \ {0} /\ k \in Nat /\ S \subseteq 1..Len(levels) /\ S \subseteq Nat \ {0}
    BY <1>1, LevelsShape
  <1>3. c \in [Nat \ {0} -> Nat]
    BY DEF Ledger
  <1>4. ASSUME NEW n \in S
        PROVE  /\ f[n] \in Nat /\ e[n] \in Nat /\ f[n] <= e[n]
    <2>1. /\ c[n] \in Nat /\ Weight[n] \in Nat \ {0} /\ Consumed \in Nat \ {0}
          /\ WeightUpTo(levels, n, Value) \in Nat
          /\ c[n] * (Weight[n] * Consumed) + WeightUpTo(levels, n, Value) <= count
      <3>1. n \in Nat \ {0} /\ n \in 1..Len(levels) /\ n \in 0..Len(levels)
        BY <1>2
      <3> QED
        BY <1>1, <1>3, <3>1, WeightLaws, ConsumedType, LevelWeightsSummable DEF Ledger
    <2> DEFINE W == Weight[n]
               D == W * Consumed
               q == count \div D
    <2>2. D \in Nat \ {0}
      BY <2>1
    <2>3. W \in Nat /\ c[n] \in Nat
      BY <2>1
    <2>4. f[n] = W * c[n] /\ e[n] = W * q
      BY DEF Costs
    <2>5. c[n] * D \in Nat /\ c[n] * D <= count
      <3> DEFINE a == c[n] * D
                 y == WeightUpTo(levels, n, Value)
      <3>1. a + y <= count /\ y \in Nat
        BY <2>1
      <3>2. a \in Nat
        <4> HIDE DEF D
        <4> QED
          BY <2>2, <2>3
      <3> HIDE DEF a, y
      <3>3. a <= count
        BY <1>1, <3>1, <3>2
      <3> QED
        BY <3>2, <3>3 DEF a
    <2> HIDE DEF W, D
    <2>6. q \in Nat /\ c[n] <= q
      BY <1>1, <2>2, <2>3, <2>5, AtMostQuotient
    <2> HIDE DEF q, f, e
    <2>7. W * c[n] <= W * q /\ W * c[n] \in Nat /\ W * q \in Nat
      BY <2>3, <2>6
    <2> QED
      BY <2>4, <2>7
  <1>5. IsFiniteSet(S) /\ DOMAIN f = S /\ DOMAIN e = S
    BY <1>2, FS_Interval DEF Costs
  <1>6. f = [n \in S |-> f[n]] /\ e = [n \in S |-> e[n]]
    BY DEF Costs
  <1>7. RankError = SumFunction(e) /\ ErrorUpTo(c, k) = SumFunction(f)
    BY DEF RankError, ErrorUpTo
  <1> HIDE DEF f, e, S
  <1>8. f \in [S -> Nat] /\ e \in [S -> Nat]
    BY <1>4, <1>6
  <1>9. SumFunction(f) <= SumFunction(e)
    BY <1>4, <1>5, <1>8, SumMonotone
  <1>10. SumFunction(e) \in Nat /\ SumFunction(f) \in Nat
    <2>1. Summable(e) /\ Summable(f)
      BY <1>5, <1>8 DEF Summable
    <2> QED
      BY <2>1, SumSplit DEF Splits
  <1> QED
    BY <1>7, <1>9, <1>10

\* The weight of the kept values in vs is the number of added ones in vs, up
\* to the error.
LEMMA WeightClose ==
    ASSUME KllInv, NEW vs \in Initial
    PROVE  /\ WeightOf(vs) \in Nat /\ AddedOf(vs) \in Nat /\ RankError \in Nat
           /\ WeightOf(vs) - AddedOf(vs) \in -RankError..RankError
  <1>1. PICK c : Ledger(levels, count, added, c)
    BY DEF KllInv, Accounted
  <1> DEFINE x == WeightOf(vs)
             y == AddedOf(vs)
             e == ErrorUpTo(c, Len(levels) - 1)
             r == RankError
  <1>2. x \in Nat /\ x = WeightUpTo(levels, Len(levels), vs)
    BY WeightOfIs
  <1>3. y \in Nat /\ y = SumOn(added, vs)
    <2>1. vs \in SUBSET Value /\ added \in [Value -> Nat]
      BY ValueInitial DEF KllInv
    <2> QED
      BY <2>1, SumOnType DEF SumOn, AddedOf
  <1>4. e \in Nat /\ r \in Nat /\ e <= r
    BY <1>1, RankErrorIs
  <1>5. Near(x, y, e)
    BY <1>1, <1>2, <1>3 DEF Ledger
  <1> HIDE DEF x, y, e, r
  <1>6. x - y \in -r..r
    BY <1>2, <1>3, <1>4, <1>5 DEF Near
  <1> QED
    BY <1>2, <1>3, <1>4, <1>6 DEF x, y, r

LEMMA Initials ==
    ASSUME NEW v \in Value
    PROVE  UpTo(v) \in Initial /\ {w \in Value : w < v} \in Initial
  <1>1. Value \subseteq Int
    BY ValueAssumption
  <1> DEFINE below == {w \in Value : w < v}
  <1>2. \A x \in UpTo(v) : UpTo(x) \subseteq UpTo(v)
    <2>1. ASSUME NEW x \in UpTo(v), NEW y \in UpTo(x) PROVE y \in UpTo(v)
      <3>1. x \in Int /\ y \in Int /\ v \in Int /\ x <= v /\ y <= x /\ y \in Value
        BY <1>1 DEF UpTo
      <3> QED
        BY <3>1 DEF UpTo
    <2> QED
      BY <2>1
  <1>3. \A x \in below : UpTo(x) \subseteq below
    <2>1. ASSUME NEW x \in below, NEW y \in UpTo(x) PROVE y \in below
      <3>1. x \in Int /\ y \in Int /\ v \in Int /\ x < v /\ y <= x /\ y \in Value
        BY <1>1 DEF UpTo
      <3> QED
        BY <3>1
    <2> QED
      BY <2>1
  <1>4. UpTo(v) \in SUBSET Value /\ {w \in Value : w < v} \in SUBSET Value
    BY DEF UpTo
  <1> QED
    BY ONLY <1>2, <1>3, <1>4 DEF Initial

\* However unluckily the offsets fall, the rank of a value among the kept
\* ones differs from its true rank by at most what the compactions account
\* for (compact_level, quantile).
THEOREM SpecRanksClose == Spec => []RanksClose
  <1>1. ASSUME KllInv PROVE RanksClose
    <2>1. ASSUME NEW x \in Value
          PROVE  LET below == {v \in Value : v < x}
                 IN  WeightOf(below) - AddedOf(below) \in -RankError..RankError
      BY <1>1, Initials, WeightClose
    <2> QED
      BY <2>1 DEF RanksClose
  <1> QED
    BY <1>1, SpecKll, PTL

-----------------------------------------------------------------------------
(* Quartiles *)

LEMMA HeldShape ==
    ASSUME KllInv
    PROVE  /\ Held \in SUBSET Value
           /\ \A n \in DOMAIN levels : \A i \in DOMAIN levels[n] : levels[n][i] \in Held
           /\ \A v \in Held : added[v] > 0
  <1>1. IsLevels(levels)
    BY DEF KllInv, Settled
  <1>2. \A n \in DOMAIN levels : levels[n] \in Seq(Value)
    BY <1>1, LevelsShape
  <1>3. \A n \in DOMAIN levels : Range(levels[n]) \subseteq Value
    BY <1>2, FiniteRange
  <1>4. \A n \in DOMAIN levels : \A v \in Range(levels[n]) : added[v] > 0
    BY DEF KllInv, Accounted, Ledger
  <1> QED
    BY <1>3, <1>4 DEF Held, Range

\* Only what is kept has weight.
LEMMA WeightOfHeld ==
    ASSUME KllInv, NEW vs, NEW ws, \A v \in Held : v \in vs <=> v \in ws
    PROVE  WeightOf(vs) = WeightOf(ws)
  <1>1. ASSUME NEW n \in DOMAIN levels
        PROVE  Occurrences(levels[n], vs) = Occurrences(levels[n], ws)
    BY HeldShape DEF Occurrences
  <1> QED
    BY <1>1 DEF WeightOf

LEMMA WeightOfNone ==
    ASSUME KllInv, NEW vs, \A v \in Held : v \notin vs
    PROVE  WeightOf(vs) = 0
  <1> DEFINE L == Len(levels)
             f == LevelWeights(levels, L, vs)
  <1>1. IsLevels(levels)
    BY DEF KllInv, Settled
  <1>2. L \in Nat \ {0} /\ DOMAIN levels = 1..L
    BY <1>1, LevelsShape
  <1>3. ASSUME NEW n \in 1..L PROVE f[n] = 0
    <2>1. {i \in DOMAIN levels[n] : levels[n][i] \in vs} = {}
      BY <1>2, HeldShape
    <2>2. Occurrences(levels[n], vs) = 0
      BY <2>1, FS_EmptySet DEF Occurrences
    <2>3. n \in Nat \ {0} /\ Weight[n] \in Nat
      <3>1. n \in Nat \ {0}
        BY <1>2
      <3> QED
        BY <3>1, WeightLaws
    <2> QED
      BY <2>2, <2>3 DEF LevelWeights
  <1>4. Summable(f) /\ DOMAIN f = 1..L
    BY <1>1, <1>2, LevelWeightsSummable
  <1> HIDE DEF f
  <1>5. SumFunction(f) = 0
    BY <1>3, <1>4, SumZero DEF Summable
  <1> QED
    BY <1>5, WeightOfIs DEF f, WeightUpTo

LEMMA WeightOfAll ==
    ASSUME KllInv
    PROVE  WeightOf(Value) = count
  BY WeightOfIs DEF KllInv, Accounted, Ledger

LEMMA RankType ==
    ASSUME KllInv, count > 0, NEW quarters \in 1..3
    PROVE  TargetRank(quarters) \in Nat /\ TargetRank(quarters) < count
  <1>1. count \in Nat /\ count >= 1
    BY CapacityAssumption DEF KllInv
  <1>2. quarters \in {1, 2, 3}
    OBVIOUS
  <1>3. CASE quarters = 1
    BY <1>1, <1>3 DEF TargetRank
  <1>4. CASE quarters = 2
    BY <1>1, <1>4 DEF TargetRank
  <1>5. CASE quarters = 3
    BY <1>1, <1>5 DEF TargetRank
  <1> QED
    BY <1>2, <1>3, <1>4, <1>5

\* The scan of quantile ends at a kept value, the first one with which more
\* than rank of the weight has been passed.
LEMMA QuantileIs ==
    ASSUME KllInv, count > 0, NEW quarters \in 1..3
    PROVE  LET v == Quantile(quarters)
               rank == TargetRank(quarters)
           IN  /\ v \in Held
               /\ WeightOf({w \in Value : w < v}) <= rank
               /\ rank < WeightOf(UpTo(v))
  <1> DEFINE rank == TargetRank(quarters)
             hit == {v \in Held : Reached(v, rank)}
             v == Quantile(quarters)
             below == {w \in Value : w < v}
             H == {w \in Held : w < v}
  <1>1. rank \in Nat /\ rank < count
    BY RankType
  <1>2. Held \in SUBSET Value /\ Value \subseteq Int
    BY HeldShape, ValueAssumption
  <1> HIDE DEF rank
  <1>3. Held # {}
    <2>1. Held = {} => WeightOf(Value) = 0
      BY WeightOfNone
    <2> QED
      BY <2>1, WeightOfAll
  <1>4. Max(Held) \in hit
    <2> DEFINE m == Max(Held)
    <2>1. m \in Held /\ \A w \in Held : w <= m
      BY <1>2, <1>3, Extremes
    <2> HIDE DEF m
    <2>2. \A w \in Held : w \in UpTo(m) <=> w \in Value
      BY <1>2, <2>1 DEF UpTo
    <2>3. WeightOf(UpTo(m)) = count
      BY <2>2, WeightOfHeld, WeightOfAll
    <2>4. Reached(m, rank)
      BY <1>1, <2>3 DEF Reached
    <2> QED
      BY <2>1, <2>4 DEF m
  <1>5. v = Min(hit)
    BY <1>4 DEF Quantile, rank
  <1>6. v \in hit /\ \A w \in hit : v <= w
    <2>1. hit \in SUBSET Value /\ hit # {}
      BY <1>2, <1>4
    <2> HIDE DEF hit
    <2> QED
      BY <1>5, <2>1, Extremes
  <1> HIDE DEF v
  <1>7. v \in Held /\ v \in Value /\ v \in Int /\ WeightOf(UpTo(v)) > rank
    BY <1>2, <1>6 DEF Reached
  <1>8. WeightOf(below) <= rank
    <2>1. CASE H = {}
      <3>1. WeightOf(below) = 0
        BY <2>1, WeightOfNone
      <3> QED
        BY <1>1, <3>1
    <2>2. CASE H # {}
      <3> DEFINE u == Max(H)
      <3>1. H \in SUBSET Value
        BY <1>2
      <3>2. u \in H /\ \A w \in H : w <= u
        <4> HIDE DEF H
        <4> QED
          BY <2>2, <3>1, Extremes
      <3> HIDE DEF u
      <3>3. u \in Held /\ u \in Int /\ u < v
        BY <1>2, <3>2
      <3>4. u \notin hit
        BY <1>6, <1>7, <3>3
      <3>5. ~(WeightOf(UpTo(u)) > rank)
        BY <3>3, <3>4 DEF Reached
      <3>6. \A w \in Held : w \in UpTo(u) <=> w \in below
        <4>1. ASSUME NEW w \in Held PROVE w \in UpTo(u) <=> w \in below
          <5>1. w \in Value /\ w \in Int
            BY <1>2
          <5>2. w < v => w <= u
            BY <3>2
          <5> QED
            BY <1>7, <3>3, <5>1, <5>2 DEF UpTo
        <4> QED
          BY <4>1
      <3>7. WeightOf(UpTo(u)) = WeightOf(below) /\ WeightOf(UpTo(u)) \in Nat
        BY <3>6, WeightOfHeld, WeightOfIs
      <3> QED
        BY <1>1, <3>5, <3>7
    <2> QED
      BY <2>1, <2>2
  <1> QED
    BY <1>7, <1>8 DEF v, rank

\* A quartile is a value that was added, and its true ranks are as close to
\* the asked one as the compactions allow (quantile).
THEOREM SpecQuartilesClose == Spec => []QuartilesClose
  <1>1. ASSUME KllInv PROVE QuartilesClose
    <2>1. ASSUME count > 0, NEW quarters \in 1..3
          PROVE  LET v == Quantile(quarters)
                     rank == TargetRank(quarters)
                 IN  /\ added[v] > 0
                     /\ AddedOf({w \in Value : w < v}) - RankError <= rank
                     /\ rank < AddedOf(UpTo(v)) + RankError
      <3> DEFINE v == Quantile(quarters)
                 rank == TargetRank(quarters)
                 below == {w \in Value : w < v}
      <3>1. v \in Held /\ WeightOf(below) <= rank /\ rank < WeightOf(UpTo(v))
        BY <1>1, <2>1, QuantileIs
      <3>2. added[v] > 0 /\ v \in Value
        BY <1>1, <3>1, HeldShape
      <3>3. rank \in Nat
        BY <1>1, <2>1, RankType
      <3> HIDE DEF v, rank
      <3>4. below \in Initial /\ UpTo(v) \in Initial
        BY <3>2, Initials
      <3> HIDE DEF below
      <3>5. /\ WeightOf(below) \in Nat /\ AddedOf(below) \in Nat /\ RankError \in Nat
            /\ WeightOf(below) - AddedOf(below) \in -RankError..RankError
        BY <1>1, <3>4, WeightClose
      <3>6. /\ WeightOf(UpTo(v)) \in Nat /\ AddedOf(UpTo(v)) \in Nat
            /\ WeightOf(UpTo(v)) - AddedOf(UpTo(v)) \in -RankError..RankError
        BY <1>1, <3>4, WeightClose
      <3>7. AddedOf(below) - RankError <= rank
        BY <3>1, <3>3, <3>5
      <3>8. rank < AddedOf(UpTo(v)) + RankError
        BY <3>1, <3>3, <3>5, <3>6
      <3> QED
        BY <3>2, <3>7, <3>8 DEF v, rank, below
    <2> QED
      BY <2>1 DEF QuartilesClose
  <1> QED
    BY <1>1, SpecKll, PTL

-----------------------------------------------------------------------------
(* The end of a cascade *)

\* CompactLevel calls compact_level at most once for each level that there
\* was.  That is enough: a level that a cascade makes anew never overflows,
\* so whatever is added, some outcome exists (KllSketch::add, compact_level).
THEOREM SpecCascadeEnds ==
    Spec => [](\A v \in Value : CompactLevel([levels EXCEPT ![1] = Append(@, v)]) # {})
  <1>1. ASSUME KllInv, NEW v \in Value PROVE CompactLevel(Entered(levels, v)) # {}
    <2> DEFINE es == Entered(levels, v)
               B == Raised(added, v)
    <2>1. /\ capacity \in Capacities /\ count \in Nat /\ added \in [Value -> Nat]
          /\ Settled(levels) /\ \E c : Ledger(levels, count, added, c)
      BY <1>1, CapacityAssumption DEF KllInv, Accounted
    <2>2. IsLevels(es) /\ Along(es, es, 0, count + 1, B)
      BY <2>1, CascadeBegins
    <2>3. B \in [Value -> Nat] /\ count + 1 \in Nat
      BY <2>1 DEF Raised
    <2> HIDE DEF es, B
    <2>4. Len(es) \in Nat
      BY <2>2, LevelsShape
    <2>5. SUFFICES ASSUME CompactLevel(es) = {} PROVE FALSE
      BY DEF es
    <2>6. \A k \in 0..Len(es) : \A l \in Cascade(es)[k] : Overfull(l, k + 1)
      <3>1. UNION {{l \in Cascade(es)[k] : ~Overfull(l, k + 1)} : k \in 0..Len(es)} = {}
        BY <2>2, <2>5, CascadeIs
      <3>2. ASSUME NEW k \in 0..Len(es), NEW l \in Cascade(es)[k], ~Overfull(l, k + 1)
            PROVE  FALSE
        <4>1. l \in {m \in Cascade(es)[k] : ~Overfull(m, k + 1)}
          BY <3>2
        <4> QED
          BY <3>1, <4>1
      <3> QED
        BY <3>2
    <2> DEFINE Empty == {k \in 0..Len(es) : Cascade(es)[k] = {}}
    <2>7. ASSUME Empty # {} PROVE FALSE
      <3>1. PICK k \in Empty : \A j \in Empty : k <= j
        <4>1. Empty \in SUBSET Nat
          BY <2>4
        <4> HIDE DEF Empty
        <4> QED
          BY <2>7, <4>1, HasLeast
      <3>2. k \in 0..Len(es) /\ CascadeStep(Cascade(es), es, k) = {}
        BY <2>2, <3>1, CascadeIs
      <3>3. k # 0
        BY <3>2 DEF CascadeStep
      <3>4. k - 1 \in 0..Len(es) /\ ~(k <= k - 1) /\ k - 1 + 1 = k
        BY <2>4, <3>2, <3>3
      <3>5. PICK l : l \in Cascade(es)[k - 1]
        BY <3>1, <3>4
      <3>6. Overfull(l, k)
        BY <2>6, <3>4, <3>5
      <3>7. Compacted(l, k, 0) \in CascadeStep(Cascade(es), es, k)
        BY <3>3, <3>5, <3>6 DEF CascadeStep
      <3> QED
        BY <3>2, <3>7
    <2>8. Len(es) \in 0..Len(es)
      BY <2>4
    <2>9. PICK l : l \in Cascade(es)[Len(es)]
      BY <2>7, <2>8
    <2>10. Along(es, l, Len(es), count + 1, B)
      BY <2>1, <2>2, <2>3, <2>8, <2>9, AlongCascade
    <2>11. /\ Len(l[Len(es) + 1]) <= capacity /\ Len(l[Len(es) + 1]) \in Nat
           /\ capacity \in Nat
      BY <2>1, <2>10, LevelsShape, ConsumedType DEF Along
    <2>12. ~(Len(l[Len(es) + 1]) > capacity)
      BY <2>11
    <2>13. Overfull(l, Len(es) + 1)
      BY <2>6, <2>8, <2>9
    <2> QED
      BY <2>12, <2>13 DEF Overfull
  <1>2. KllInv => \A v \in Value : CompactLevel([levels EXCEPT ![1] = Append(@, v)]) # {}
    BY <1>1 DEF Entered
  <1> QED
    BY <1>2, SpecKll, PTL
=============================================================================
