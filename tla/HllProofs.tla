------------------------------ MODULE HllProofs ------------------------------
(***************************************************************************)
(* An entry with partitions is one HyperLogLog sketch, whatever the sizes, *)
(* the hashes and the order in which they come.                            *)
(***************************************************************************)
EXTENDS PartitionedHll, WellFoundedInduction, TLAPS

-----------------------------------------------------------------------------
(* Greatest elements *)

LEMMA HasGreatest ==
    ASSUME NEW b \in Nat, NEW S \in SUBSET (0..b), S # {}
    PROVE  \E x \in S : \A y \in S : y <= x
  <1> DEFINE R == OpToRel(<, Nat)
             T == {b - x : x \in S}
  <1>1. IsWellFoundedOn(R, Nat)
    BY NatLessThanWellFounded
  <1> HIDE DEF R
  <1>2. \A x \in S : x \in Nat /\ b - x \in Nat
    OBVIOUS
  <1>3. T \subseteq Nat /\ T # {}
    BY <1>2, Zenon
  <1>4. PICK t \in T : \A y \in T : <<y, t>> \notin R
    BY <1>1, <1>3, WFMin
  <1>5. \A y \in T : ~(y < t)
    BY <1>3, <1>4 DEF R, OpToRel
  <1>6. PICK x \in S : t = b - x
    OBVIOUS
  <1>7. \A y \in S : ~(b - y < b - x)
    BY <1>5, <1>6
  <1> QED
    BY <1>2, <1>7

LEMMA MaxGreatest ==
    ASSUME NEW b \in Nat, NEW S \in SUBSET (0..b), S # {}
    PROVE  Max(S) \in S /\ \A y \in S : y <= Max(S)
  BY HasGreatest DEF Max

LEMMA MaxUnique ==
    ASSUME NEW S \in SUBSET Int, NEW m \in S, \A y \in S : y <= m
    PROVE  Max(S) = m
  <1>1. m >= m /\ \A y \in S : m >= y
    OBVIOUS
  <1>2. Max(S) \in S /\ \A y \in S : Max(S) >= y
    BY <1>1 DEF Max
  <1>3. Max(S) \in Int /\ m \in Int /\ Max(S) >= m /\ m >= Max(S)
    BY <1>2
  <1> QED
    BY <1>3

-----------------------------------------------------------------------------
(* Powers and division *)

\* Induction up to b, over a set.
LEMMA UpTo ==
    ASSUME NEW b \in Nat, NEW S, 0 \in S,
           \A n \in 0..b - 1 : n \in S => n + 1 \in S
    PROVE  0..b \subseteq S
  <1> DEFINE R == OpToRel(<, Nat)
             T == {n \in 0..b : n \notin S}
  <1>1. IsWellFoundedOn(R, Nat)
    BY NatLessThanWellFounded
  <1> HIDE DEF R
  <1>2. ASSUME T # {} PROVE FALSE
    <2>1. T \subseteq Nat
      OBVIOUS
    <2> HIDE DEF T
    <2>2. PICK t \in T : \A y \in T : <<y, t>> \notin R
      BY <1>1, <1>2, <2>1, WFMin
    <2> USE DEF T
    <2>3. \A y \in T : ~(y < t)
      BY <2>1, <2>2 DEF R, OpToRel
    <2>4. t \in 1..b /\ t - 1 \in 0..b - 1
      OBVIOUS
    <2>5. t - 1 \in S
      BY <2>3, <2>4
    <2>6. (t - 1) + 1 \in S
      BY <2>4, <2>5
    <2> QED
      BY <2>4, <2>6
  <1> QED
    BY <1>2

LEMMA PowerPositive ==
    \A n \in 0..Bits : 2^n \in Nat /\ 1 <= 2^n
  <1> DEFINE S == {n \in 0..Bits : 2^n \in Nat /\ 1 <= 2^n}
  <1>1. 0 \in S
    BY PowerAssumption, PrecisionAssumption
  <1>2. \A n \in 0..Bits - 1 : n \in S => n + 1 \in S
    BY PowerAssumption, PrecisionAssumption
  <1> HIDE DEF S
  <1>3. 0..Bits \subseteq S
    BY <1>1, <1>2, UpTo, PrecisionAssumption
  <1> QED
    BY <1>3 DEF S

LEMMA PowerOfSum ==
    ASSUME NEW a \in 0..Bits, NEW b \in 0..Bits - a
    PROVE  2^(a + b) = 2^a * 2^b
  <1> DEFINE top == Bits - a
             S == {n \in 0..top : 2^(a + n) = 2^a * 2^n}
  <1>0. a \in Nat /\ top \in Nat /\ Bits \in Nat
    BY PrecisionAssumption
  <1>1. 0 \in S
    BY <1>0, PowerAssumption, PowerPositive
  <1>2. ASSUME NEW n \in 0..top - 1, n \in S
        PROVE  n + 1 \in S
    <2>1. n \in 0..Bits - 1 /\ a + n \in 0..Bits - 1 /\ a \in 0..Bits
      BY <1>0
    <2>2. /\ 2^n \in Nat /\ 2^a \in Nat /\ 2^(a + n) \in Nat
          /\ 2^(n + 1) = 2 * 2^n /\ 2^((a + n) + 1) = 2 * 2^(a + n)
      BY <2>1, PowerAssumption, PowerPositive
    <2>3. 2 * (2^a * 2^n) = 2^a * (2 * 2^n)
      BY <2>2
    <2>4. a + (n + 1) = (a + n) + 1
      BY <2>1
    <2>5. 2^(a + n) = 2^a * 2^n
      BY <1>2
    <2>6. 2^(a + (n + 1)) = 2^a * 2^(n + 1)
      BY <2>2, <2>3, <2>4, <2>5
    <2> QED
      BY <1>0, <2>6
  <1> HIDE DEF S
  <1>3. 0..top \subseteq S
    BY <1>0, <1>1, <1>2, UpTo
  <1> QED
    BY <1>0, <1>3 DEF S

LEMMA PowerGrows ==
    ASSUME NEW a \in 0..Bits, NEW b \in a..Bits
    PROVE  2^a <= 2^b
  <1>0. a \in Nat /\ b \in Nat /\ Bits \in Nat
    BY PrecisionAssumption
  <1> DEFINE d == b - a
  <1>1. d \in 0..Bits - a /\ d \in 0..Bits /\ a + d = b
    BY <1>0
  <1>2. 2^b = 2^a * 2^d
    BY <1>1, PowerOfSum
  <1>3. 2^a \in Nat /\ 2^d \in Nat /\ 1 <= 2^d
    BY <1>1, PowerPositive
  <1> HIDE DEF d
  <1>4. \A x \in Nat, y \in Nat : 1 <= y => x <= x * y
    <2> TAKE x \in Nat, y \in Nat
    <2>1. PICK z \in Int : z = y - 1
      OBVIOUS
    <2>2. x * y = x * z + x
      BY <2>1
    <2>3. 1 <= y => z \in Nat
      BY <2>1
    <2>4. z \in Nat => x * z \in Nat
      OBVIOUS
    <2> QED
      BY <2>2, <2>3, <2>4
  <1> QED
    BY <1>2, <1>3, <1>4

LEMMA Division ==
    ASSUME NEW x \in Nat, NEW d \in Nat, 1 <= d
    PROVE  /\ x \div d \in Nat /\ x % d \in 0..d - 1
           /\ x = d * (x \div d) + (x % d)
  OBVIOUS

LEMMA Quotient ==
    ASSUME NEW q \in Nat, NEW d \in Nat, NEW b \in Nat, NEW r \in Nat,
           d * q + r < d * b
    PROVE  q < b
  <1>1. SUFFICES ASSUME b <= q PROVE FALSE
    OBVIOUS
  <1>2. PICK e \in Nat : q = b + e
    BY <1>1
  <1>3. d * q = d * b + d * e
    BY <1>2
  <1>4. d * e \in Nat /\ d * b \in Nat
    OBVIOUS
  <1> QED
    BY <1>3, <1>4

LEMMA Remainder ==
    ASSUME NEW q \in Nat, NEW d \in Nat, NEW r \in 0..d - 1
    PROVE  (d * q + r) % d = r
  <1> DEFINE x == d * q + r
             e == x \div d
             m == x % d
  <1>1. x \in Nat /\ 1 <= d
    OBVIOUS
  <1>2. e \in Nat /\ m \in 0..d - 1 /\ x = d * e + m
    BY <1>1, Division
  <1>3. d * q + r = d * e + m
    BY <1>2
  <1> HIDE DEF e, m, x
  <1>4. d * q < d * (e + 1) /\ d * e < d * (q + 1)
    <2>1. d * (e + 1) = d * e + d /\ d * (q + 1) = d * q + d
      BY <1>2
    <2>2. d * q \in Nat /\ d * e \in Nat
      BY <1>2
    <2> QED
      BY <1>2, <1>3, <2>1, <2>2
  <1>5. q < e + 1
    <2>1. d * q + 0 < d * (e + 1) /\ e + 1 \in Nat
      BY <1>2, <1>4
    <2> QED
      BY <2>1, Quotient
  <1>6. e < q + 1
    <2>1. d * e + 0 < d * (q + 1)
      BY <1>2, <1>4
    <2> QED
      BY <1>2, <2>1, Quotient
  <1>7. e = q
    BY <1>2, <1>5, <1>6
  <1>8. d * q \in Nat
    OBVIOUS
  <1> QED
    BY <1>2, <1>3, <1>7, <1>8 DEF m, x

-----------------------------------------------------------------------------
(* The rank of a hash *)

\* The first 1 of a number, if there is one, is where its powers of two
\* say.
LEMMA FirstOne ==
    ASSUME NEW n \in 0..Bits - 1, NEW x \in Nat,
           2^(Bits - 1 - n) <= x, x < 2^(Bits - n)
    PROVE  Single!LeadingZeros(x) = n
  <1>0. n \in Nat /\ Bits \in Nat
    BY PrecisionAssumption
  <1> DEFINE Here(m) == 2^(Bits - 1 - m) <= x /\ x < 2^(Bits - m)
  <1>1. ASSUME NEW m \in 0..Bits - 1, NEW k \in 0..Bits - 1, Here(m), Here(k), m < k
        PROVE  FALSE
    <2>1. /\ Bits - k \in 0..Bits /\ Bits - 1 - m \in Bits - k..Bits
          /\ Bits - 1 - m \in 0..Bits
      BY <1>0, <1>1
    <2> DEFINE a == Bits - k
               c == Bits - 1 - m
    <2> HIDE DEF a, c
    <2>2. 2^a <= 2^c
      BY <2>1, PowerGrows DEF a, c
    <2>3. 2^a \in Nat /\ 2^c \in Nat
      BY <2>1, PowerPositive DEF a, c
    <2>4. 2^c <= x /\ x < 2^a
      BY <1>1 DEF a, c
    <2> QED
      BY <2>2, <2>3, <2>4
  <1>2. Here(n)
    OBVIOUS
  <1> HIDE DEF Here
  <1>3. \A m \in 0..Bits - 1 : Here(m) => m = n
    BY <1>0, <1>1, <1>2
  <1>4. Single!LeadingZeros(x) = CHOOSE m \in 0..Bits - 1 : Here(m)
    BY DEF Single!LeadingZeros, Here
  <1> QED
    BY <1>2, <1>3, <1>4

LEMMA LeastIs ==
    ASSUME NEW S \in SUBSET Int, NEW m \in S, \A y \in S : m <= y
    PROVE  Min(S) = m
  <1>1. Min(S) \in S /\ \A y \in S : Min(S) <= y
    BY DEF Min
  <1>2. Min(S) \in Int /\ m \in Int /\ Min(S) <= m /\ m <= Min(S)
    BY <1>1
  <1> QED
    BY <1>2

\* The bits of a hash below its index.
Low(h) == h % 2^(Bits - Precision)

\* A hash is its index and its low bits; the index is shifted out.
LEMMA HashParts ==
    ASSUME NEW h \in Hash
    PROVE  /\ Single!IndexOf(h) \in Single!Index
           /\ Low(h) \in 0..2^(Bits - Precision) - 1
           /\ Single!Remaining(h) = Low(h) * 2^Precision
  <1> DEFINE d == 2^(Bits - Precision)
             p == 2^Precision
             q == h \div d
             r == h % d
  <1>0. /\ Bits \in Nat /\ Precision \in 0..Bits /\ Bits - Precision \in 0..Bits
        /\ Precision \in 0..Bits - (Bits - Precision)
        /\ (Bits - Precision) + Precision = Bits
    BY PrecisionAssumption
  <1>1. d \in Nat /\ p \in Nat /\ 1 <= d /\ 1 <= p
    BY <1>0, PowerPositive
  <1>2. 2^Bits = d * p
    BY <1>0, PowerOfSum
  <1>3. h \in Nat /\ h < 2^Bits
    <2>1. 2^Bits \in Nat
      BY <1>0, PowerPositive
    <2> QED
      BY <2>1, HashAssumption
  <1>4. Single!IndexOf(h) = q /\ Low(h) = r /\ Single!Index = 0..p - 1
    BY DEF Single!IndexOf, Low, Single!Index
  <1>5. Single!Remaining(h) = (h * p) % (d * p)
    BY <1>2 DEF Single!Remaining
  <1> HIDE DEF d, p
  <1>6. q \in Nat /\ r \in 0..d - 1 /\ h = d * q + r
    BY <1>1, <1>3, Division
  <1> HIDE DEF q, r
  <1>7. q < p
    <2>1. d * q + r < d * p
      BY <1>2, <1>3, <1>6
    <2> QED
      BY <1>1, <1>6, <2>1, Quotient
  <1>8. h * p = (d * p) * q + r * p
    <2>1. h * p = (d * q + r) * p
      BY <1>6
    <2>2. \A a \in Nat : (a + r) * p = a * p + r * p
      BY <1>1, <1>6
    <2>3. (d * q) * p = (d * p) * q /\ d * q \in Nat
      BY <1>1, <1>6
    <2> QED
      BY <2>1, <2>2, <2>3
  <1>9. d * p \in Nat /\ r * p \in 0..d * p - 1
    <2>1. PICK e \in Nat : d = r + 1 + e
      <3>1. d - r - 1 \in Nat /\ d = r + 1 + (d - r - 1)
        BY <1>1, <1>6
      <3> QED
        BY <3>1
    <2>2. d * p = r * p + p + e * p
      BY <1>1, <1>6, <2>1
    <2>3. r * p \in Nat /\ e * p \in Nat /\ d * p \in Nat
      BY <1>1, <1>6, <2>1
    <2> QED
      BY <1>1, <2>2, <2>3
  <1>10. ((d * p) * q + r * p) % (d * p) = r * p
    BY <1>6, <1>9, Remainder
  <1> QED
    BY <1>1, <1>4, <1>5, <1>6, <1>7, <1>8, <1>10 DEF d, p

\* What HyperLogLog::rho counts from the shifted bits is the rank of the
\* hash by its definition.
LEMMA RhoIsRank ==
    ASSUME NEW h \in Hash
    PROVE  /\ RankOf(h) \in 1..Single!MaxRank
           /\ Single!Rho(Single!Remaining(h)) = RankOf(h)
  <1> DEFINE width == Bits - Precision
             low == Low(h)
             x == Single!Remaining(h)
             Places == {n \in 1..width : 2^(width - n) <= low}
  <1>0. /\ Bits \in Nat /\ Precision \in 1..Bits - 1 /\ width \in 1..Bits
        /\ width \in Nat /\ Precision \in Nat
        /\ Single!MaxRank = width + 1 /\ 2^Precision \in Nat /\ 1 <= 2^Precision
        /\ 2^width \in Nat
    BY PrecisionAssumption, PowerPositive DEF Single!MaxRank
  <1>1. low \in 0..2^width - 1 /\ x = low * 2^Precision
    BY HashParts
  <1>2. RankOf(h) = Min(Places \cup {width + 1})
    BY DEF RankOf, Low
  <1> HIDE DEF width, low, x
  <1>3. CASE low = 0
    <2>1. Places = {}
      <3> SUFFICES ASSUME NEW n \in 1..width, 2^(width - n) <= low PROVE FALSE
        OBVIOUS
      <3>1. width - n \in 0..Bits
        BY <1>0
      <3>2. 2^(width - n) \in Nat /\ 1 <= 2^(width - n)
        BY <3>1, PowerPositive
      <3> QED
        BY <1>3, <3>2
    <2>2. RankOf(h) = width + 1
      <3>1. Places \cup {width + 1} = {width + 1}
        BY <2>1
      <3> QED
        BY <1>0, <1>2, <3>1, LeastIs
    <2>3. x = 0
      BY <1>0, <1>1, <1>3
    <2> QED
      BY <1>0, <2>2, <2>3 DEF Single!Rho, x
  <1>4. CASE low # 0
    <2>0. low \in Nat /\ 1 <= low /\ low < 2^width
      BY <1>0, <1>1, <1>4
    <2>1. width \in Places
      BY <1>0, <2>0, PowerAssumption
    <2>2. PICK m \in Places : \A n \in Places : m <= n
      <3>0. \A n \in Places : width - n \in 0..width
        BY <1>0
      <3>1. {width - n : n \in Places} \in SUBSET (0..width) /\ {width - n : n \in Places} # {}
        BY <2>1, <3>0, Zenon
      <3>2. PICK y \in {width - n : n \in Places} : \A z \in {width - n : n \in Places} : z <= y
        BY <1>0, <3>1, HasGreatest
      <3>3. PICK m \in Places : y = width - m
        OBVIOUS
      <3>4. \A n \in Places : width - n <= width - m
        BY <3>2, <3>3
      <3> QED
        BY <1>0, <3>4
    <2>3. m \in 1..width /\ 2^(width - m) <= low
      OBVIOUS
    <2>4. low < 2^(width - m + 1)
      <3>1. CASE m = 1
        BY <1>0, <2>0, <3>1
      <3>2. CASE m # 1
        <4>1. m - 1 \in 1..width /\ m - 1 \notin Places /\ width - (m - 1) = width - m + 1
          BY <1>0, <2>2, <2>3, <3>2
        <4>2. ~(2^(width - m + 1) <= low)
          BY <4>1
        <4>3. width - m + 1 \in 0..Bits
          BY <1>0, <2>3
        <4>4. 2^(width - m + 1) \in Nat
          BY <4>3, PowerPositive
        <4> QED
          BY <2>0, <4>2, <4>4
      <3> QED
        BY <3>1, <3>2
    <2>5. RankOf(h) = m
      <3>1. Places \cup {width + 1} \in SUBSET Int /\ m \in Places \cup {width + 1}
        BY <1>0
      <3>2. \A y \in Places \cup {width + 1} : m <= y
        BY <1>0, <2>2, <2>3
      <3> QED
        BY <1>2, <3>1, <3>2, LeastIs
    <2>6. x \in Nat /\ 2^(Bits - 1 - (m - 1)) <= x /\ x < 2^(Bits - (m - 1))
      <3> DEFINE a == width - m
                 b == width - m + 1
                 p == 2^Precision
      <3>1. /\ a \in 0..Bits /\ Precision \in 0..Bits - a
            /\ b \in 0..Bits /\ Precision \in 0..Bits - b
            /\ Bits - 1 - (m - 1) = a + Precision
            /\ Bits - (m - 1) = b + Precision
        BY <1>0, <2>3 DEF width
      <3>2. 2^a \in Nat /\ 2^b \in Nat /\ 2^a <= low /\ low < 2^b
        BY <2>3, <2>4, <3>1, PowerPositive
      <3>3. 2^(a + Precision) = 2^a * p /\ 2^(b + Precision) = 2^b * p
        BY <3>1, PowerOfSum
      <3>4. p \in Nat /\ 1 <= p
        BY <1>0
      <3> HIDE DEF a, b, p
      <3>5. \A u \in Nat, v \in Nat : u <= v => u * p <= v * p
        <4> SUFFICES ASSUME NEW u \in Nat, NEW v \in Nat, u <= v
                     PROVE  u * p <= v * p
          OBVIOUS
        <4>1. PICK e \in Nat : v = u + e
          BY v - u \in Nat /\ v = u + (v - u)
        <4>2. v * p = u * p + e * p /\ e * p \in Nat /\ u * p \in Nat
          BY <3>4, <4>1
        <4> QED
          BY <4>2
      <3>6. 2^a * p <= low * p
        BY <2>0, <3>2, <3>5
      <3>7. low * p + p <= 2^b * p
        <4>1. low + 1 \in Nat /\ low + 1 <= 2^b
          BY <2>0, <3>2
        <4>2. (low + 1) * p <= 2^b * p
          BY <3>2, <3>5, <4>1
        <4>3. (low + 1) * p = low * p + p
          BY <2>0, <3>4
        <4> QED
          BY <4>2, <4>3
      <3>8. low * p \in Nat /\ 2^b * p \in Nat
        BY <2>0, <3>2, <3>4
      <3>9. x = low * p
        BY <1>1 DEF p
      <3> QED
        BY <3>1, <3>3, <3>4, <3>6, <3>7, <3>8, <3>9
    <2>7. Single!LeadingZeros(x) = m - 1
      <3>1. m - 1 \in 0..Bits - 1
        BY <1>0, <2>3
      <3> HIDE DEF x
      <3> QED
        BY <2>6, <3>1, FirstOne
    <2>8. x # 0
      <3>1. x \in Nat /\ 2^(Bits - 1 - (m - 1)) <= x /\ Bits - 1 - (m - 1) \in 0..Bits
        BY <1>0, <2>3, <2>6
      <3>2. 1 <= 2^(Bits - 1 - (m - 1)) /\ 2^(Bits - 1 - (m - 1)) \in Nat
        BY <3>1, PowerPositive
      <3> QED
        BY <3>1, <3>2
    <2>9. Single!Rho(x) = Single!Min({m, width + 1})
      BY <1>0, <2>3, <2>7, <2>8 DEF Single!Rho
    <2>10. Min({m, width + 1}) = m
      BY <1>0, <2>3, LeastIs
    <2>11. Single!Min({m, width + 1}) = Min({m, width + 1})
      BY DEF Single!Min, Min
    <2> QED
      BY <1>0, <2>3, <2>5, <2>9, <2>10, <2>11 DEF x
  <1> QED
    BY <1>3, <1>4

LEMMA RankBounds ==
    ASSUME NEW h \in Hash
    PROVE  /\ Single!IndexOf(h) \in Single!Index
           /\ Single!Rho(Single!Remaining(h)) \in 0..Single!MaxRank
  BY HashParts, RhoIsRank, PrecisionAssumption DEF Single!MaxRank

-----------------------------------------------------------------------------
(* Adding to one partition *)

LEMMA MaxRankNat == Single!MaxRank \in Nat
  BY PrecisionAssumption DEF Single!MaxRank

\* HyperLogLog::add raises one register and leaves the others.
LEMMA UpdatedRegisters ==
    ASSUME NEW regs \in Single!Registers, NEW h \in Hash
    PROVE  LET rank == Single!Rho(Single!Remaining(h))
               new == Single!Updated(regs, h)
           IN  /\ new \in Single!Registers
               /\ \A i \in Single!Index :
                    new[i] = IF i # Single!IndexOf(h) \/ regs[i] >= rank
                             THEN regs[i] ELSE rank
  <1> DEFINE i == Single!IndexOf(h)
             rank == Single!Rho(Single!Remaining(h))
             top == Max({regs[i], rank})
  <1>0. Single!Updated(regs, h) = [regs EXCEPT ![i] = top]
    BY DEF Single!Updated, Single!Max, Max
  <1>1. i \in Single!Index /\ rank \in 0..Single!MaxRank
    BY RankBounds
  <1>2. regs[i] \in 0..Single!MaxRank
    BY <1>1 DEF Single!Registers
  <1> HIDE DEF i, rank
  <1>3. top = IF regs[i] >= rank THEN regs[i] ELSE rank
    <2>1. CASE regs[i] >= rank
      <3>1. {regs[i], rank} \in SUBSET Int /\ regs[i] \in {regs[i], rank}
        BY <1>1, <1>2, MaxRankNat
      <3>2. \A y \in {regs[i], rank} : y <= regs[i]
        BY <1>2, <2>1, MaxRankNat
      <3>3. top = regs[i]
        BY <3>1, <3>2, MaxUnique
      <3> QED
        BY <2>1, <3>3
    <2>2. CASE ~(regs[i] >= rank)
      <3>1. {regs[i], rank} \in SUBSET Int /\ rank \in {regs[i], rank}
        BY <1>1, <1>2, MaxRankNat
      <3>2. \A y \in {regs[i], rank} : y <= rank
        BY <1>1, <1>2, <2>2, MaxRankNat
      <3>3. top = rank
        BY <3>1, <3>2, MaxUnique
      <3> QED
        BY <2>2, <3>3
    <2> QED
      BY <2>1, <2>2
  <1> HIDE DEF top
  <1> QED
    BY <1>0, <1>1, <1>2, <1>3 DEF Single!Registers, i, rank

-----------------------------------------------------------------------------
(* The invariant, and the merge *)

\* A list of partitions; MaxPartitions only bounds the model.
IsPartitions(ps) == ps \in Seq(Single!Registers) /\ ps # <<>>

LEMMA MergedAt ==
    ASSUME NEW ps, IsPartitions(ps)
    PROVE  /\ MergeOf(ps) \in Single!Registers
           /\ \A i \in Single!Index :
                /\ \E n \in DOMAIN ps : MergeOf(ps)[i] = ps[n][i]
                /\ \A n \in DOMAIN ps : ps[n][i] <= MergeOf(ps)[i]
  <1>1. 1 \in DOMAIN ps /\ \A n \in DOMAIN ps : ps[n] \in Single!Registers
    BY DEF IsPartitions
  <1>2. MergeOf(ps) = [i \in Single!Index |-> Max({ps[n][i] : n \in DOMAIN ps})]
    BY <1>1 DEF MergeOf, Single!Registers
  <1>3. ASSUME NEW i \in Single!Index
        PROVE  /\ \E n \in DOMAIN ps : MergeOf(ps)[i] = ps[n][i]
               /\ \A n \in DOMAIN ps : ps[n][i] <= MergeOf(ps)[i]
               /\ MergeOf(ps)[i] \in 0..Single!MaxRank
    <2> DEFINE S == {ps[n][i] : n \in DOMAIN ps}
    <2>1. S \in SUBSET (0..Single!MaxRank) /\ S # {}
      BY <1>1 DEF Single!Registers
    <2>2. MergeOf(ps)[i] = Max(S)
      BY <1>2
    <2>3. Max(S) \in S /\ \A y \in S : y <= Max(S)
      BY <2>1, MaxRankNat, MaxGreatest
    <2> QED
      BY <2>1, <2>2, <2>3
  <1> QED
    BY <1>2, <1>3 DEF Single!Registers

\* Two register arrays that bound each other are one.
LEMMA SameRegisters ==
    ASSUME NEW a \in Single!Registers, NEW b \in Single!Registers,
           \A i \in Single!Index : a[i] = b[i]
    PROVE  a = b
  BY DEF Single!Registers

PartitionsOK == IsPartitions(partitions)

LEMMA InitPartitions == Init => PartitionsOK /\ Merged = Single!Zero
  <1> SUFFICES ASSUME Init PROVE PartitionsOK /\ Merged = Single!Zero
    OBVIOUS
  <1>1. partitions = <<Single!Zero>>
    BY DEF Init
  <1>2. Single!Zero \in Single!Registers
    BY MaxRankNat DEF Single!Zero, Single!Registers
  <1>3. PartitionsOK
    BY <1>1, <1>2 DEF PartitionsOK, IsPartitions
  <1>4. \A i \in Single!Index : Merged[i] = 0
    <2> SUFFICES ASSUME NEW i \in Single!Index PROVE Merged[i] = 0
      OBVIOUS
    <2>1. PICK n \in DOMAIN partitions : Merged[i] = partitions[n][i]
      BY <1>3, MergedAt DEF PartitionsOK, Merged
    <2> QED
      BY <1>1, <2>1 DEF Single!Zero
  <1>5. Merged \in Single!Registers
    BY <1>3, MergedAt DEF PartitionsOK, Merged
  <1> QED
    BY <1>2, <1>3, <1>4, <1>5, SameRegisters DEF Single!Zero

\* What adding does to the list: one partition, the last or a new one, is
\* updated.
LEMMA AddPartition ==
    ASSUME PartitionsOK, NEW h \in Hash, Add(h)
    PROVE  /\ PartitionsOK'
           /\ \E last \in DOMAIN partitions', old \in Single!Registers :
                 /\ partitions'[last] = Single!Updated(old, h)
                 /\ DOMAIN partitions \subseteq DOMAIN partitions'
                 /\ \A n \in DOMAIN partitions' \ {last} :
                       n \in DOMAIN partitions /\ partitions'[n] = partitions[n]
                 /\ \/ last \in DOMAIN partitions /\ old = partitions[last]
                    \/ last \notin DOMAIN partitions /\ old = Single!Zero
  <1>1. /\ Single!Zero \in Single!Registers
        /\ \A regs \in Single!Registers : Single!Updated(regs, h) \in Single!Registers
    BY MaxRankNat, UpdatedRegisters DEF Single!Zero, Single!Registers
  <1>2. CASE partitions' = [partitions EXCEPT ![Len(partitions)] = Single!Updated(@, h)]
    <2> DEFINE last == Len(partitions)
    <2>1. last \in DOMAIN partitions /\ partitions[last] \in Single!Registers
      BY DEF PartitionsOK, IsPartitions
    <2>2. /\ DOMAIN partitions' = DOMAIN partitions
          /\ partitions'[last] = Single!Updated(partitions[last], h)
          /\ \A n \in DOMAIN partitions \ {last} : partitions'[n] = partitions[n]
      BY <1>2, <2>1
    <2>3. PartitionsOK'
      BY <1>1, <1>2, <2>1, <2>2 DEF PartitionsOK, IsPartitions
    <2> QED
      BY <2>1, <2>2, <2>3
  <1>3. CASE partitions' = [Started EXCEPT ![Len(Started)] = Single!Updated(@, h)]
    <2> DEFINE last == Len(Started)
    <2>1. /\ Started \in Seq(Single!Registers) /\ last = Len(partitions) + 1
          /\ Started[last] = Single!Zero
          /\ \A n \in DOMAIN partitions : Started[n] = partitions[n]
      BY <1>1 DEF Started, PartitionsOK, IsPartitions
    <2>2. /\ DOMAIN partitions' = 1..last
          /\ partitions'[last] = Single!Updated(Single!Zero, h)
          /\ \A n \in DOMAIN partitions : partitions'[n] = partitions[n]
          /\ DOMAIN partitions = 1..last - 1 /\ last \in Nat \ {0}
      BY <1>3, <2>1 DEF PartitionsOK, IsPartitions
    <2>3. PartitionsOK'
      BY <1>1, <1>3, <2>1, <2>2 DEF PartitionsOK, IsPartitions
    <2> QED
      BY <1>1, <2>2, <2>3
  <1> QED
    BY <1>2, <1>3 DEF Add

\* The merge cannot tell which partition a value was added to.
LEMMA AddMerged ==
    ASSUME PartitionsOK, NEW h \in Hash, Add(h)
    PROVE  Merged' = Single!Updated(Merged, h)
  <1> DEFINE rank == Single!Rho(Single!Remaining(h))
             old == MergeOf(partitions)
             new == MergeOf(partitions')
  <1>1. IsPartitions(partitions) /\ IsPartitions(partitions')
    BY AddPartition DEF PartitionsOK
  <1>2. PICK last \in DOMAIN partitions', regs \in Single!Registers :
            /\ partitions'[last] = Single!Updated(regs, h)
            /\ DOMAIN partitions \subseteq DOMAIN partitions'
            /\ \A n \in DOMAIN partitions' \ {last} :
                  n \in DOMAIN partitions /\ partitions'[n] = partitions[n]
            /\ \/ last \in DOMAIN partitions /\ regs = partitions[last]
               \/ last \notin DOMAIN partitions /\ regs = Single!Zero
    BY AddPartition
  <1>3. /\ old \in Single!Registers
        /\ \A i \in Single!Index :
             /\ \E n \in DOMAIN partitions : old[i] = partitions[n][i]
             /\ \A n \in DOMAIN partitions : partitions[n][i] <= old[i]
    BY <1>1, MergedAt
  <1>4. /\ new \in Single!Registers
        /\ \A i \in Single!Index :
             /\ \E n \in DOMAIN partitions' : new[i] = partitions'[n][i]
             /\ \A n \in DOMAIN partitions' : partitions'[n][i] <= new[i]
    BY <1>1, MergedAt
  <1> HIDE DEF old, new
  <1>5. /\ Single!Updated(old, h) \in Single!Registers
        /\ \A i \in Single!Index :
             Single!Updated(old, h)[i] =
                IF i # Single!IndexOf(h) \/ old[i] >= rank THEN old[i] ELSE rank
    BY <1>3, UpdatedRegisters
  <1>6. \A i \in Single!Index :
           Single!Updated(regs, h)[i] =
              IF i # Single!IndexOf(h) \/ regs[i] >= rank THEN regs[i] ELSE rank
    BY UpdatedRegisters
  <1>7. rank \in 0..Single!MaxRank
    BY RankBounds
  <1> HIDE DEF rank
  <1>8. ASSUME NEW i \in Single!Index
        PROVE  new[i] = Single!Updated(old, h)[i]
    <2>1. /\ old[i] \in Nat /\ new[i] \in Nat /\ rank \in Nat /\ regs[i] \in Nat
          /\ \A n \in DOMAIN partitions : partitions[n][i] \in Nat
      BY <1>1, <1>3, <1>4, <1>7, MaxRankNat DEF Single!Registers, IsPartitions
    <2>2. regs[i] <= old[i]
      BY <1>2, <1>3, <2>1 DEF Single!Zero
    <2> DEFINE top == IF i # Single!IndexOf(h) \/ old[i] >= rank THEN old[i] ELSE rank
    <2>3. new[i] <= top
      <3>1. PICK n \in DOMAIN partitions' : new[i] = partitions'[n][i]
        BY <1>4
      <3>2. CASE n = last
        BY <1>2, <1>6, <2>1, <2>2, <3>1, <3>2
      <3>3. CASE n # last
        BY <1>2, <1>3, <2>1, <3>1, <3>3
      <3> QED
        BY <3>2, <3>3
    <2>4. old[i] <= new[i]
      <3>1. PICK n \in DOMAIN partitions : old[i] = partitions[n][i]
        BY <1>3
      <3>2. CASE n = last
        BY <1>2, <1>4, <1>6, <2>1, <3>1, <3>2
      <3>3. CASE n # last
        BY <1>2, <1>4, <3>1, <3>3
      <3> QED
        BY <3>2, <3>3
    <2>5. i = Single!IndexOf(h) => rank <= new[i]
      BY <1>2, <1>4, <1>6, <2>1
    <2> QED
      BY <1>5, <2>1, <2>3, <2>4, <2>5
  <1> QED
    BY <1>4, <1>5, <1>8, SameRegisters DEF Merged, old, new

\* A sequence that is cut behind its last element is whole.
LEMMA SubSeqFull ==
    ASSUME NEW S, NEW s \in Seq(S)
    PROVE  SubSeq(s, 1, Len(s)) = s
  OBVIOUS

LEMMA NextPartitions ==
    PartitionsOK /\ [Next]_vars => PartitionsOK' /\ [Single!Next]_Merged
  <1> SUFFICES ASSUME PartitionsOK, [Next]_vars
               PROVE  PartitionsOK' /\ [Single!Next]_Merged
    OBVIOUS
  <1>1. CASE UNCHANGED vars
    BY <1>1 DEF vars, PartitionsOK, Merged
  <1>2. ASSUME NEW h \in Hash, Add(h)
        PROVE  PartitionsOK' /\ [Single!Next]_Merged
    BY <1>2, AddPartition, AddMerged DEF Single!Next, Single!Add
  <1>3. ASSUME Reload
        PROVE  UNCHANGED <<partitions, active, added>>
    <2>1. partitions' = SubSeq(partitions, 1, Len(partitions))
      BY <1>3 DEF Reload, Whole
    <2>2. partitions \in Seq(Single!Registers)
      BY DEF PartitionsOK, IsPartitions
    <2>3. partitions' = partitions
      BY <2>1, <2>2, SubSeqFull
    <2> QED
      BY <1>3, <2>3 DEF Reload
  <1>4. CASE Reload
    BY <1>3, <1>4 DEF PartitionsOK, Merged
  <1> QED
    BY <1>1, <1>2, <1>4 DEF Next

-----------------------------------------------------------------------------
\* Cutting an entry into partitions and merging them for an estimate is the
\* same as one sketch of everything (collect_hll_value,
\* add_inserted_values_to_hll_cache, estimate_partitioned_hll).
THEOREM SpecImplementsSingle == Spec => ImplementsSingle
  <1>1. Init => Single!Init
    BY InitPartitions DEF Single!Init
  <1> QED
    BY <1>1, InitPartitions, NextPartitions, PTL
    DEF Spec, ImplementsSingle, Single!Spec

-----------------------------------------------------------------------------
(* What the registers hold *)

\* A register bounds the ranks of its hashes, and is 0 or one of them.
Exact(i) ==
    /\ \A h \in added : Single!IndexOf(h) = i => RankOf(h) <= Merged[i]
    /\ \/ Merged[i] = 0
       \/ \E h \in added : Single!IndexOf(h) = i /\ Merged[i] = RankOf(h)

HllInv ==
    /\ TypeOK
    /\ \A i \in Single!Index : Exact(i)

LEMMA TypedPartitions ==
    TypeOK => PartitionsOK /\ Merged \in Single!Registers
  <1> SUFFICES ASSUME TypeOK PROVE PartitionsOK /\ Merged \in Single!Registers
    OBVIOUS
  <1>1. PartitionsOK
    BY DEF TypeOK, PartitionsOK, IsPartitions
  <1> QED
    BY <1>1, MergedAt DEF PartitionsOK, Merged

LEMMA InitHll == Init => HllInv
  <1> SUFFICES ASSUME Init PROVE HllInv
    OBVIOUS
  <1>1. TypeOK
    BY InitPartitions, PartitionAssumption DEF Init, TypeOK, PartitionsOK, IsPartitions
  <1>2. ASSUME NEW i \in Single!Index PROVE Exact(i)
    BY InitPartitions DEF Init, Exact, Single!Zero
  <1> QED
    BY <1>1, <1>2 DEF HllInv

\* Every step keeps to the bounds of an entry.
LEMMA NextType ==
    ASSUME TypeOK, [Next]_vars
    PROVE  TypeOK'
  <1>0. PartitionsOK /\ PartitionsOK'
    BY TypedPartitions, NextPartitions
  <1>1. CASE UNCHANGED vars
    BY <1>1 DEF vars, TypeOK
  <1>2. ASSUME NEW h \in Hash, Add(h)
        PROVE  TypeOK'
    <2>1. added' \subseteq Hash
      BY <1>2 DEF Add, TypeOK
    <2>2. CASE ~Full /\ active' = active + 1
               /\ partitions' = [partitions EXCEPT ![Len(partitions)] = Single!Updated(@, h)]
      <3>1. Len(partitions') = Len(partitions)
        BY <2>2, <1>0 DEF PartitionsOK, IsPartitions
      <3>2. active' \in 0..PartitionRows
        BY <2>2, PartitionAssumption DEF TypeOK, Full
      <3> QED
        BY <1>0, <2>1, <3>1, <3>2 DEF TypeOK, PartitionsOK, IsPartitions
    <2>3. CASE Full /\ Len(partitions) < MaxPartitions /\ active' = 1
               /\ partitions' = [Started EXCEPT ![Len(Started)] = Single!Updated(@, h)]
      <3>1. Single!Zero \in Single!Registers
        BY MaxRankNat DEF Single!Zero, Single!Registers
      <3>2. Len(partitions') = Len(partitions) + 1
        BY <2>3, <1>0, <3>1 DEF PartitionsOK, IsPartitions, Started
      <3>3. active' \in 0..PartitionRows
        BY <2>3, PartitionAssumption
      <3>4. Len(partitions') \in 1..MaxPartitions
        BY <2>3, <3>2, PartitionAssumption DEF TypeOK
      <3> QED
        BY <1>0, <2>1, <3>3, <3>4 DEF TypeOK, PartitionsOK, IsPartitions
    <2> QED
      BY <1>2, <2>2, <2>3 DEF Add
  <1>3. CASE Reload
    BY <1>0, <1>3, SubSeqFull DEF Reload, Whole, TypeOK, PartitionsOK, IsPartitions
  <1> QED
    BY <1>1, <1>2, <1>3 DEF Next

LEMMA NextHll ==
    ASSUME HllInv, [Next]_vars
    PROVE  HllInv'
  <1>1. TypeOK'
    BY NextType DEF HllInv
  <1>2. PartitionsOK /\ Merged \in Single!Registers
    BY TypedPartitions DEF HllInv
  <1>3. CASE UNCHANGED vars
    BY <1>1, <1>3 DEF vars, HllInv, Exact, Merged
  <1>4. ASSUME NEW h \in Hash, Add(h), NEW i \in Single!Index
        PROVE  Exact(i)'
    <2> DEFINE old == Merged[i]
               new == Merged'[i]
               rank == RankOf(h)
    <2>1. Merged' = Single!Updated(Merged, h)
      BY <1>2, <1>4, AddMerged
    <2>2. rank \in 1..Single!MaxRank /\ Single!Rho(Single!Remaining(h)) = rank
      BY RhoIsRank
    <2>3. new = IF i # Single!IndexOf(h) \/ old >= rank THEN old ELSE rank
      BY <1>2, <2>1, <2>2, UpdatedRegisters
    <2>4. added' = added \cup {h}
      BY <1>4 DEF Add
    <2>5. old \in Nat /\ rank \in Nat /\ \A g \in added : RankOf(g) \in Nat
      BY <1>2, <2>2, RhoIsRank, MaxRankNat DEF Single!Registers, HllInv, TypeOK
    <2>6. Exact(i)
      BY DEF HllInv
    <2> HIDE DEF rank
    <2>7. ASSUME NEW g \in added', Single!IndexOf(g) = i
          PROVE  RankOf(g) <= new
      <3>1. CASE g \in added
        BY <2>3, <2>5, <2>6, <2>7, <3>1 DEF Exact
      <3>2. CASE g = h
        BY <2>3, <2>5, <2>7, <3>2 DEF rank
      <3> QED
        BY <2>4, <3>1, <3>2
    <2>8. new = 0 \/ \E g \in added' : Single!IndexOf(g) = i /\ new = RankOf(g)
      <3>1. CASE i # Single!IndexOf(h) \/ old >= rank
        BY <2>3, <2>4, <2>6, <3>1 DEF Exact
      <3>2. CASE i = Single!IndexOf(h) /\ ~(old >= rank)
        BY <2>3, <2>4, <3>2 DEF rank
      <3> QED
        BY <3>1, <3>2
    <2> QED
      BY <2>7, <2>8 DEF Exact
  <1>5. CASE Reload
    <2>1. partitions' = partitions /\ added' = added
      <3>1. partitions' = SubSeq(partitions, 1, Len(partitions))
        BY <1>5 DEF Reload, Whole
      <3>2. partitions \in Seq(Single!Registers)
        BY DEF HllInv, TypeOK
      <3> QED
        BY <1>5, <3>1, <3>2, SubSeqFull DEF Reload
    <2> QED
      BY <1>1, <2>1 DEF HllInv, Exact, Merged
  <1> QED
    BY <1>1, <1>3, <1>4, <1>5 DEF Next, HllInv

LEMMA HllExact == HllInv => RegistersExact
  <1> SUFFICES ASSUME HllInv, NEW i \in Single!Index
               PROVE  Merged[i] = Max({0} \cup
                        {RankOf(h) : h \in {h \in added : Single!IndexOf(h) = i}})
    BY DEF RegistersExact
  <1> DEFINE S == {0} \cup {RankOf(h) : h \in {h \in added : Single!IndexOf(h) = i}}
  <1>1. Merged[i] \in Nat
    BY TypedPartitions, MaxRankNat DEF HllInv, Single!Registers
  <1>2. \A h \in added : RankOf(h) \in Nat
    BY RhoIsRank, MaxRankNat DEF HllInv, TypeOK
  <1>3. Exact(i)
    BY DEF HllInv
  <1>4. S \in SUBSET Int /\ Merged[i] \in S /\ \A y \in S : y <= Merged[i]
    BY <1>1, <1>2, <1>3 DEF Exact
  <1> HIDE DEF S
  <1>5. Max(S) = Merged[i]
    BY <1>4, MaxUnique
  <1> QED
    BY <1>5 DEF S

\* The number of partitions and of rows in the last one stay what
\* collect_hll_value keeps them to, and the registers what their width
\* allows.
THEOREM SpecTypeOK == Spec => []TypeOK
  BY InitHll, NextType, PTL DEF Spec, HllInv

\* Whatever the order and the repetition of the values and wherever an entry
\* is cut into partitions, its merge holds for every register the greatest
\* rank among the values that were added (HyperLogLog::add, rho, merge,
\* estimate_partitioned_hll).
THEOREM SpecRegistersExact == Spec => []RegistersExact
  <1>1. HllInv /\ [Next]_vars => HllInv'
    BY NextHll
  <1> QED
    BY InitHll, <1>1, HllExact, PTL DEF Spec
=============================================================================
