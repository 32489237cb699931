------------------------------ MODULE Frequency ------------------------------
(***************************************************************************)
(* One frequency sketch: a Count-Min sketch and a Space-Saving summary     *)
(* (src/frequency_sketch.cpp) that are fed the same values, saved and      *)
(* loaded together.  APPROX_FREQ reads the former, APPROX_TOP_K the latter.*)
(***************************************************************************)
EXTENDS Integers, FiniteSets, FiniteSetsExt, Functions

CONSTANTS
    Value,          \* texts, numbered in their order
    Depth, Width,   \* rows and columns of the Count-Min sketch
    TopCapacities,  \* values top_capacity may have; APPROX_FREQ makes it 0
    MaxLength       \* bound of the model: how many values are added

ASSUME ValueAssumption == Value \subseteq Int
\* Only finitely many different values can have been added.
ASSUME FiniteAssumption == IsFiniteSet(Value)
ASSUME SizeAssumption == Depth \in Nat \ {0} /\ Width \in Nat \ {0}
ASSUME TopCapacitiesAssumption == TopCapacities \subseteq Nat
ASSUME MaxLengthAssumption == MaxLength \in Nat

VARIABLES
    hash,         \* the column of a value in each row, as the seed decides
    topCapacity,  \* FrequencyCacheEntry::top_capacity
    counters,     \* CountMinSketch::counters_
    items,        \* SpaceSavingTopK::counters_
    truth         \* how often each value was added; not in the code

vars == <<hash, topCapacity, counters, items, truth>>

CountRow == 1..Depth
Counter == [estimate: Nat, error: Nat]

\* SpaceSavingTopK::capacity_
Capacity == IF topCapacity = 0 THEN 1 ELSE topCapacity

TypeOK ==
    /\ hash \in [Value -> [CountRow -> 0..Width - 1]]
    /\ topCapacity \in TopCapacities
    /\ counters \in [CountRow -> [0..Width - 1 -> Nat]]
    /\ items = [v \in DOMAIN items |-> items[v]]
    /\ DOMAIN items \subseteq Value
    /\ \A v \in DOMAIN items : items[v] \in Counter
    /\ IsFiniteSet(DOMAIN items) /\ Cardinality(DOMAIN items) <= Capacity
    /\ truth \in [Value -> Nat]

Init ==
    /\ hash \in [Value -> [CountRow -> 0..Width - 1]]
    /\ topCapacity \in TopCapacities
    /\ counters = [row \in CountRow |-> [column \in 0..Width - 1 |-> 0]]
    /\ items = [v \in {} |-> 0]
    /\ truth = [v \in Value |-> 0]

-----------------------------------------------------------------------------
(* Adding a value *)

\* Mutant: every row uses the column of the first one.
Counted_OneHash(v) ==
    [row \in CountRow |-> [counters[row] EXCEPT ![hash[v][1]] = @ + 1]]

\* CountMinSketch::add
Counted(v) ==
    [row \in CountRow |-> [counters[row] EXCEPT ![hash[v][row]] = @ + 1]]

\* Mutant: one value too many is taken in.
HasRoom_OffByOne == Cardinality(DOMAIN items) <= Capacity

HasRoom == Cardinality(DOMAIN items) < Capacity

\* Mutant: any item makes room.
Smallest_Any == DOMAIN items

\* The items that std::min_element may find.
Smallest ==
    {m \in DOMAIN items :
        \A w \in DOMAIN items : items[m].estimate <= items[w].estimate}

With(its, v, counter) ==
    [w \in DOMAIN its \cup {v} |-> IF w = v THEN counter ELSE its[w]]

\* Mutant: the newcomer starts without an error.
Replaced_NoError(m, v) ==
    With(Restrict(items, DOMAIN items \ {m}), v,
         [estimate |-> items[m].estimate + 1, error |-> 0])

\* v takes the place of m and inherits its estimate.
Replaced(m, v) ==
    With(Restrict(items, DOMAIN items \ {m}), v,
         [estimate |-> items[m].estimate + 1, error |-> items[m].estimate])

\* SpaceSavingTopK::add
SpaceSave(v) ==
    \/ /\ v \in DOMAIN items
       /\ items' = [items EXCEPT ![v].estimate = @ + 1]
    \/ /\ v \notin DOMAIN items /\ HasRoom
       /\ items' = With(items, v, [estimate |-> 1, error |-> 0])
    \/ /\ v \notin DOMAIN items /\ ~HasRoom
       /\ \E m \in Smallest : items' = Replaced(m, v)

Length == SumFunction(truth)

\* add_value_to_frequency_entry and collect_frequency_value
Add(v) ==
    /\ Length < MaxLength
    /\ counters' = Counted(v)
    /\ SpaceSave(v)
    /\ truth' = [truth EXCEPT ![v] = @ + 1]
    /\ UNCHANGED <<hash, topCapacity>>

-----------------------------------------------------------------------------
(* Reading, saving and loading *)

\* What the sketch answers for v: CountMinSketch::estimate.
Estimate(v) == Min({counters[row][hash[v][row]] : row \in CountRow})

\* The order of rows in the result of top_k.
Before(w, v) ==
    \/ items[w].estimate > items[v].estimate
    \/ items[w].estimate = items[v].estimate /\ w < v

Ahead(v) == {w \in DOMAIN items : Before(w, v)}

\* SpaceSavingTopK::top_k: the values of the first k rows.
TopK(k) == {v \in DOMAIN items : Cardinality(Ahead(v)) < k}

\* Mutant: the last item is not written.
Saved_AllButOne == Restrict(items, TopK(topCapacity - 1))

\* save_frequency_entry writes the first topCapacity items.
Saved == Restrict(items, TopK(topCapacity))

\* Mutant: what has been read before the end of a cut file is taken.
Whole_Any(k) == TRUE

\* load_frequency_entry has read as many items as the file announces.
Whole(k) == Restrict(items, TopK(k)) = Saved

\* The sketch is saved, and loaded by a later handle with the same seed.  The
\* file may have been cut in a crash, here behind its first k items; then
\* load_frequency_entry refuses it, and a new sketch is built.
Reload ==
    /\ \E k \in 0..topCapacity :
          Whole(k) /\ items' = Restrict(items, TopK(k))
    /\ UNCHANGED <<hash, topCapacity, counters, truth>>

Next == (\E v \in Value : Add(v)) \/ Reload

Spec == Init /\ [][Next]_vars

-----------------------------------------------------------------------------
(* Properties.  A summary of capacity 0, which an APPROX_FREQ query makes,  *)
(* loses its items when it is saved; skdb_exec never asks it for any.       *)

\* APPROX_FREQ never answers less than the true count, whichever values
\* share a counter.
NeverUnder == \A v \in Value : Estimate(v) >= truth[v]

\* The error of a row of APPROX_TOP_K is one: the value was added at most
\* as often as the estimate says and at least estimate - error times, across
\* any number of evictions, returns and reloads.
ErrorBounds ==
    topCapacity > 0 =>
        \A v \in DOMAIN items :
            /\ truth[v] <= items[v].estimate
            /\ items[v].estimate - items[v].error <= truth[v]

\* What top_k(k) leaves out was added at most as often as the estimate of
\* any row it returns, and never if it returns fewer than k rows.
NothingMissed ==
    \A k \in 1..topCapacity, v \in Value :
        v \notin TopK(k) =>
            /\ \A w \in TopK(k) : truth[v] <= items[w].estimate
            /\ Cardinality(TopK(k)) < k => truth[v] = 0

\* A value that makes up more than 1 / capacity of all is among the items,
\* and no error is larger than that share, as compute_top_capacity needs for
\* its capacity of 1 / epsilon.
HeavyHitters ==
    topCapacity > 0 =>
        /\ \A v \in Value : truth[v] * Capacity > Length => v \in DOMAIN items
        /\ \A v \in DOMAIN items : items[v].error * Capacity <= Length
=============================================================================
