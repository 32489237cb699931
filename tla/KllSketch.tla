------------------------------ MODULE KllSketch ------------------------------
(***************************************************************************)
(* One KLL sketch (src/kll_sketch.cpp): levels of values, a value of level *)
(* n standing for 2^(n - 1) added ones, and the compactions that cascade   *)
(* through them while a value is added.  Levels are numbered from 1 here.  *)
(***************************************************************************)
EXTENDS Integers, Sequences, FiniteSetsExt, Functions

CONSTANTS
    Value,      \* the finite numbers that are added
    Capacities, \* values capacity_ may have
    MaxCount    \* bound of the model: how many values are added

ASSUME ValueAssumption == Value \subseteq Int /\ IsFiniteSet(Value)
ASSUME CapacityAssumption == Capacities \subseteq Nat \ {0} /\ MaxCount \in Nat

VARIABLES
    capacity,   \* KllSketch::capacity_
    levels,     \* KllSketch::levels_
    count,      \* KllSketch::count_
    added       \* how often each value was added; not in the code

vars == <<capacity, levels, count, added>>

TypeOK ==
    /\ capacity \in Capacities
    /\ levels \in Seq(Seq(Value)) /\ levels # <<>>
    /\ \A n \in DOMAIN levels : Len(levels[n]) <= capacity
    /\ count \in 0..MaxCount
    /\ added \in [Value -> 0..MaxCount]

Init ==
    /\ capacity \in Capacities
    /\ levels = << <<>> >>
    /\ count = 0
    /\ added = [v \in Value |-> 0]

-----------------------------------------------------------------------------
(* Compaction *)

UpTo(v) == {w \in Value : w <= v}

\* How many of the values are in vs.
Occurrences(values, vs) == Cardinality({i \in DOMAIN values : values[i] \in vs})

\* Mutant: the values are left in the order in which they came.
Sorted_Not(values) == values

\* std::sort: the kth value is the least one that k values do not exceed.
Sorted(values) ==
    [k \in 1..Len(values) |->
        Min({v \in Range(values) : Occurrences(values, UpTo(v)) >= k})]

\* How many values of a level are compacted: all, or all but the largest.
Paired(values) == Len(values) - (Len(values) % 2)

\* Mutant: the odd value is lost.
Retained_None(values) == <<>>

\* What stays on the level.
Retained(values) == SubSeq(Sorted(values), Paired(values) + 1, Len(values))

\* Every second value moves up a level, from the first or the second on.
Promoted(values, offset) ==
    [i \in 1..Paired(values) \div 2 |-> Sorted(values)[2 * i - 1 + offset]]

\* ensure_level
Ensured(ls, n) == IF n \in DOMAIN ls THEN ls ELSE Append(ls, <<>>)

Compacted(ls, n, offset) ==
    [Ensured(ls, n + 1) EXCEPT
        ![n] = Retained(ls[n]),
        ![n + 1] = @ \o Promoted(ls[n], offset)]

\* Mutant: a level is compacted one value too late.
Overfull_Late(ls, n) == Len(ls[n]) > capacity + 1

Overfull(ls, n) == Len(ls[n]) > capacity

\* compact_level of the lowest level if it overflows, and of each level above
\* it that overflows in turn: the outcomes for all random offsets, where
\* compacted[n] are the levels there may be after n calls.
CompactLevel(ls) ==
    LET compacted[n \in 0..Len(ls)] ==
            IF n = 0 THEN {ls}
            ELSE {Compacted(l, n, offset) :
                    l \in {m \in compacted[n - 1] : Overfull(m, n)},
                    offset \in {0, 1}}
    IN  UNION {{l \in compacted[n] : ~Overfull(l, n + 1)} : n \in 0..Len(ls)}

-----------------------------------------------------------------------------
(* Operations *)

\* KllSketch::add of a finite number
Add(v) ==
    /\ count < MaxCount
    /\ levels' \in CompactLevel([levels EXCEPT ![1] = Append(@, v)])
    /\ count' = count + 1
    /\ added' = [added EXCEPT ![v] = @ + 1]
    /\ UNCHANGED capacity

\* An infinity or a NaN, which strtod also accepts, is ignored.
AddNonFinite == UNCHANGED vars

\* Mutant: that a size could not be read is not noticed; it stays 0.
Whole_Any(n) == TRUE

\* load_kll_entry has read as many levels as the file announces.
Whole(n) == n = Len(levels)

\* The sketch is saved and loaded.  A file that a crash has cut behind n
\* levels is refused, and a new sketch is built.  The random generator starts
\* anew, but its choices are free here anyway.
Reload ==
    /\ \E n \in 0..Len(levels) :
          /\ Whole(n)
          /\ levels' = [m \in DOMAIN levels |-> IF m <= n THEN levels[m] ELSE <<>>]
    /\ UNCHANGED <<capacity, count, added>>

Next == (\E v \in Value : Add(v)) \/ AddNonFinite \/ Reload

Spec == Init /\ [][Next]_vars

-----------------------------------------------------------------------------
(* quantile *)

\* 1 << level.  (The code has no weights above 2^62; a level that high is
\* reached after 2^62 values.)
Weight[n \in Nat \ {0}] == IF n = 1 THEN 1 ELSE 2 * Weight[n - 1]

\* The weight of the kept values that are in vs.
WeightOf(vs) ==
    SumFunction([n \in DOMAIN levels |->
        Weight[n] * Occurrences(levels[n], vs)])

Held == UNION {Range(levels[n]) : n \in DOMAIN levels}

\* The probability is a number of quarters.
TargetRank(quarters) == (quarters * (count - 1) + 3) \div 4

\* Mutant: the scan stops one short.
Reached_Early(v, rank) == WeightOf(UpTo(v)) >= rank

\* Whether the scan in ascending order has passed the rank at v.
Reached(v, rank) == WeightOf(UpTo(v)) > rank

\* KllSketch::quantile of a sketch that is not empty
Quantile(quarters) ==
    LET hit == {v \in Held : Reached(v, TargetRank(quarters))}
    IN  IF hit = {} THEN Max(Held) ELSE Min(hit)

-----------------------------------------------------------------------------
(* Properties *)

AddedOf(vs) == SumFunction([v \in vs |-> added[v]])

\* However far a compaction cascades, the weights of what is kept add up to
\* the number of values added, or quantile would look for its rank in vain.
WeightKept == WeightOf(Value) = count

\* One compaction moves a rank by at most the weight of its level, and it
\* consumes at least this many values of that level.
Consumed == capacity + 1 - ((capacity + 1) % 2)

RankError ==
    SumFunction([n \in 1..Len(levels) - 1 |->
                    Weight[n] * (count \div (Weight[n] * Consumed))])

\* The rank of every value among the kept ones is its true rank up to the
\* error that the compactions account for, whatever the random offsets and
\* whichever values a level kept back before.
RanksClose ==
    \A x \in Value :
        LET below == {v \in Value : v < x}
        IN  WeightOf(below) - AddedOf(below) \in -RankError..RankError

\* A quartile is an added value whose true ranks come as close to the asked
\* one; it is exact while nothing has been compacted.
QuartilesClose ==
    count > 0 =>
        \A quarters \in 1..3 :
            LET v == Quantile(quarters)
                rank == TargetRank(quarters)
            IN  /\ added[v] > 0
                /\ AddedOf({w \in Value : w < v}) - RankError <= rank
                /\ rank < AddedOf(UpTo(v)) + RankError
=============================================================================
