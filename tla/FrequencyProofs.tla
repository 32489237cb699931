--------------------------- MODULE FrequencyProofs ---------------------------
(***************************************************************************)
(* What a frequency sketch guarantees, for every hash function, size and   *)
(* stream of values: APPROX_FREQ never under-estimates, the error column   *)
(* of APPROX_TOP_K is a true bound, and its rows miss nothing.             *)
(***************************************************************************)
EXTENDS Frequency, SumLaws

\* Every counter of a value counts each of its additions.
Counts == \A v \in Value, row \in CountRow : counters[row][hash[v][row]] >= truth[v]

\* A value that is no item was not added more often than any item is
\* estimated, and was never added if there is room for it: what makes the
\* error bounds survive an eviction.
Untracked ==
    topCapacity > 0 =>
        \A v \in Value \ DOMAIN items :
            /\ \A w \in DOMAIN items : truth[v] <= items[w].estimate
            /\ HasRoom => truth[v] = 0

FrequencyInv == TypeOK /\ Counts /\ ErrorBounds /\ Untracked

-----------------------------------------------------------------------------
(* The order of top_k *)

LEMMA CapacityPositive == TypeOK => Capacity \in Nat \ {0}
  BY TopCapacitiesAssumption DEF TypeOK, Capacity

LEMMA AheadFinite ==
    ASSUME TypeOK, NEW v \in DOMAIN items
    PROVE  /\ IsFiniteSet(Ahead(v)) /\ Cardinality(Ahead(v)) \in Nat
           /\ Cardinality(Ahead(v)) < Cardinality(DOMAIN items)
  <1>1. Ahead(v) \in SUBSET (DOMAIN items \ {v})
    BY ValueAssumption DEF Ahead, Before, TypeOK, Counter
  <1>2. /\ IsFiniteSet(DOMAIN items \ {v})
        /\ Cardinality(DOMAIN items \ {v}) = Cardinality(DOMAIN items) - 1
        /\ Cardinality(DOMAIN items) \in Nat
    BY FS_RemoveElement, FS_CardinalityType DEF TypeOK
  <1>3. IsFiniteSet(Ahead(v)) /\ Cardinality(Ahead(v)) <= Cardinality(DOMAIN items \ {v})
    BY <1>1, <1>2, FS_Subset
  <1> QED
    BY <1>2, <1>3, FS_CardinalityType

\* Fewer items are ahead of an item that is itself ahead.
LEMMA AheadGrows ==
    ASSUME TypeOK, NEW v \in DOMAIN items, NEW w \in Ahead(v)
    PROVE  Cardinality(Ahead(w)) < Cardinality(Ahead(v))
  <1>1. w \in DOMAIN items /\ Before(w, v)
    BY DEF Ahead
  <1>2. Ahead(w) \in SUBSET (Ahead(v) \ {w})
    BY <1>1, ValueAssumption DEF Ahead, Before, TypeOK, Counter
  <1>3. /\ IsFiniteSet(Ahead(v) \ {w})
        /\ Cardinality(Ahead(v) \ {w}) = Cardinality(Ahead(v)) - 1
        /\ Cardinality(Ahead(v)) \in Nat
    BY FS_RemoveElement, AheadFinite
  <1>4. Cardinality(Ahead(w)) <= Cardinality(Ahead(v) \ {w})
    BY <1>2, <1>3, FS_Subset
  <1> QED
    BY <1>1, <1>3, <1>4, AheadFinite

\* top_k(k) returns every item if there are at most k.
LEMMA TopKAll ==
    ASSUME TypeOK, NEW k \in Nat, Cardinality(DOMAIN items) <= k
    PROVE  TopK(k) = DOMAIN items
  <1>1. \A v \in DOMAIN items : Cardinality(Ahead(v)) < k
    BY AheadFinite, FS_CardinalityType DEF TypeOK
  <1> QED
    BY <1>1 DEF TopK

\* An item that top_k(k) leaves out has no larger estimate than one it
\* returns.
LEMMA TopKLargest ==
    ASSUME TypeOK, NEW k \in Nat, NEW v \in DOMAIN items \ TopK(k), NEW w \in TopK(k)
    PROVE  items[v].estimate <= items[w].estimate
  <1>1. w \in DOMAIN items /\ Cardinality(Ahead(w)) < k
    BY DEF TopK
  <1>2. ~(Cardinality(Ahead(v)) < k)
    BY DEF TopK
  <1>3. v \notin Ahead(w)
    BY <1>1, <1>2, AheadGrows, AheadFinite
  <1> QED
    BY <1>1, <1>3 DEF Ahead, Before, TypeOK, Counter

\* If top_k(k) returns fewer than k rows, it returns every item.
LEMMA TopKShort ==
    ASSUME TypeOK, NEW k \in Nat, Cardinality(TopK(k)) < k
    PROVE  TopK(k) = DOMAIN items
  <1> DEFINE rest == DOMAIN items \ TopK(k)
             places == {Cardinality(Ahead(u)) : u \in rest}
  <1> SUFFICES ASSUME rest # {} PROVE FALSE
    BY DEF TopK
  <1>1. places \in SUBSET Nat /\ places # {}
    BY AheadFinite
  <1>2. PICK v \in rest : \A u \in rest : Cardinality(Ahead(v)) <= Cardinality(Ahead(u))
    <2>1. PICK n \in places : \A p \in places : n <= p
      BY <1>1, HasLeast
    <2> QED
      BY <2>1
  <1>3. \A w \in Ahead(v) : w \in TopK(k)
    <2> SUFFICES ASSUME NEW w \in Ahead(v), w \notin TopK(k) PROVE FALSE
      OBVIOUS
    <2>1. w \in rest
      BY DEF Ahead
    <2>2. Cardinality(Ahead(w)) < Cardinality(Ahead(v))
      BY <1>2, AheadGrows
    <2> QED
      BY <1>2, <2>1, <2>2, AheadFinite
  <1>4. IsFiniteSet(TopK(k)) /\ Cardinality(TopK(k)) \in Nat
    BY FS_Subset, FS_CardinalityType DEF TopK, TypeOK
  <1>5. Cardinality(Ahead(v)) <= Cardinality(TopK(k))
    BY <1>3, <1>4, FS_Subset
  <1>6. Cardinality(Ahead(v)) < k
    BY <1>4, <1>5, AheadFinite
  <1> QED
    BY <1>6 DEF TopK

-----------------------------------------------------------------------------
(* The invariant *)

LEMMA InitFrequency == Init => FrequencyInv
  <1> SUFFICES ASSUME Init PROVE FrequencyInv
    OBVIOUS
  <1>1. DOMAIN items = {} /\ items = [v \in DOMAIN items |-> items[v]]
    BY DEF Init
  <1>2. TypeOK
    BY <1>1, FS_EmptySet, SizeAssumption, TopCapacitiesAssumption
    DEF Init, TypeOK, Capacity
  <1>3. Counts
    BY SizeAssumption DEF Init, Counts, CountRow
  <1> QED
    BY <1>1, <1>2, <1>3 DEF FrequencyInv, ErrorBounds, Untracked, Init

\* CountMinSketch::add counts v in one counter of every row, and all other
\* counters stay.
LEMMA AddCounts ==
    ASSUME FrequencyInv, NEW v \in Value, Add(v)
    PROVE  /\ counters' \in [CountRow -> [0..Width - 1 -> Nat]]
           /\ truth' \in [Value -> Nat]
           /\ Counts'
  <1>1. /\ counters' = Counted(v) /\ truth' = [truth EXCEPT ![v] = @ + 1]
        /\ hash' = hash
    BY DEF Add
  <1>2. /\ counters \in [CountRow -> [0..Width - 1 -> Nat]]
        /\ truth \in [Value -> Nat] /\ Counts
        /\ \A w \in Value, row \in CountRow : hash[w][row] \in 0..Width - 1
    BY DEF FrequencyInv, TypeOK
  <1>3. counters' \in [CountRow -> [0..Width - 1 -> Nat]] /\ truth' \in [Value -> Nat]
    <2>1. ASSUME NEW row \in CountRow
          PROVE  [counters[row] EXCEPT ![hash[v][row]] = @ + 1] \in [0..Width - 1 -> Nat]
      <3>1. counters[row] \in [0..Width - 1 -> Nat] /\ hash[v][row] \in 0..Width - 1
        BY <1>2
      <3>2. \A f \in [0..Width - 1 -> Nat], c \in 0..Width - 1 :
               [f EXCEPT ![c] = @ + 1] \in [0..Width - 1 -> Nat]
        OBVIOUS
      <3> QED
        BY <3>1, <3>2
    <2>2. truth' \in [Value -> Nat]
      BY <1>1, <1>2
    <2> QED
      BY <1>1, <2>1, <2>2 DEF Counted
  <1>4. ASSUME NEW w \in Value, NEW row \in CountRow
        PROVE  counters'[row][hash'[w][row]] >= truth'[w]
    <2>1. counters[row] \in [0..Width - 1 -> Nat] /\ hash[w][row] \in 0..Width - 1
      BY <1>2
    <2>2. counters[row][hash[w][row]] >= truth[w]
      BY <1>2 DEF Counts
    <2>3. counters'[row] = [counters[row] EXCEPT ![hash[v][row]] = @ + 1]
      BY <1>1 DEF Counted
    <2>4. CASE w = v
      BY <1>1, <1>2, <2>1, <2>2, <2>3, <2>4
    <2>5. CASE w # v
      BY <1>1, <1>2, <2>1, <2>2, <2>3, <2>5
    <2> QED
      BY <2>4, <2>5
  <1> QED
    BY <1>3, <1>4 DEF Counts

\* What a step has to leave in the items, for the rest of the invariant.
ItemsOK(its, cnt) ==
    /\ its = [v \in DOMAIN its |-> its[v]]
    /\ DOMAIN its \subseteq Value
    /\ \A v \in DOMAIN its : its[v] \in Counter
    /\ IsFiniteSet(DOMAIN its) /\ Cardinality(DOMAIN its) <= Capacity
    /\ topCapacity > 0 =>
          /\ \A v \in DOMAIN its : /\ cnt[v] <= its[v].estimate
                                   /\ its[v].estimate - its[v].error <= cnt[v]
          /\ \A v \in Value \ DOMAIN its :
                /\ \A w \in DOMAIN its : cnt[v] <= its[w].estimate
                /\ Cardinality(DOMAIN its) < Capacity => cnt[v] = 0

\* The item that is there gets one more.
LEMMA AddTracked ==
    ASSUME FrequencyInv, NEW v \in DOMAIN items,
           items' = [items EXCEPT ![v].estimate = @ + 1]
    PROVE  ItemsOK(items', [truth EXCEPT ![v] = @ + 1])
  <1>1. /\ DOMAIN items' = DOMAIN items
        /\ items'[v] = [items[v] EXCEPT !.estimate = @ + 1]
        /\ \A w \in DOMAIN items \ {v} : items'[w] = items[w]
    BY DEF FrequencyInv, TypeOK
  <1>2. /\ v \in Value /\ truth \in [Value -> Nat]
        /\ \A w \in DOMAIN items : items[w] \in Counter
        /\ DOMAIN items \subseteq Value
    BY DEF FrequencyInv, TypeOK
  <1>3. \A w \in DOMAIN items :
           items'[w].estimate >= items[w].estimate /\ items'[w] \in Counter
    BY <1>1, <1>2 DEF Counter
  <1>4. items'[v].estimate = items[v].estimate + 1 /\ items'[v].error = items[v].error
    BY <1>1, <1>2 DEF Counter
  <1>5. items' = [w \in DOMAIN items' |-> items'[w]]
    BY DEF FrequencyInv, TypeOK
  <1>6. IsFiniteSet(DOMAIN items) /\ Cardinality(DOMAIN items) <= Capacity
    BY DEF FrequencyInv, TypeOK
  <1>7. ASSUME topCapacity > 0, NEW w \in DOMAIN items
        PROVE  /\ [truth EXCEPT ![v] = @ + 1][w] <= items'[w].estimate
               /\ items'[w].estimate - items'[w].error <= [truth EXCEPT ![v] = @ + 1][w]
    <2>1. truth[w] <= items[w].estimate /\ items[w].estimate - items[w].error <= truth[w]
      BY <1>7 DEF FrequencyInv, ErrorBounds
    <2>2. CASE w = v
      BY <1>2, <1>4, <2>1, <2>2 DEF Counter
    <2>3. CASE w # v
      BY <1>1, <1>2, <2>1, <2>3
    <2> QED
      BY <2>2, <2>3
  <1>8. ASSUME topCapacity > 0, NEW u \in Value \ DOMAIN items
        PROVE  /\ \A w \in DOMAIN items :
                     [truth EXCEPT ![v] = @ + 1][u] <= items'[w].estimate
               /\ Cardinality(DOMAIN items) < Capacity =>
                     [truth EXCEPT ![v] = @ + 1][u] = 0
    <2>1. /\ \A w \in DOMAIN items : truth[u] <= items[w].estimate
          /\ HasRoom => truth[u] = 0
      BY <1>8 DEF FrequencyInv, Untracked
    <2>2. [truth EXCEPT ![v] = @ + 1][u] = truth[u] /\ truth[u] \in Nat
      BY <1>2
    <2> QED
      BY <1>2, <1>3, <2>1, <2>2 DEF HasRoom, Counter
  <1> QED
    BY <1>1, <1>2, <1>3, <1>5, <1>6, <1>7, <1>8 DEF ItemsOK

\* A value that is taken in where there is room.
LEMMA AddNew ==
    ASSUME FrequencyInv, NEW v \in Value \ DOMAIN items, HasRoom,
           items' = With(items, v, [estimate |-> 1, error |-> 0])
    PROVE  ItemsOK(items', [truth EXCEPT ![v] = @ + 1])
  <1> DEFINE cnt == [truth EXCEPT ![v] = @ + 1]
  <1>1. /\ truth \in [Value -> Nat] /\ cnt[v] = truth[v] + 1
        /\ \A w \in Value \ {v} : cnt[w] = truth[w]
        /\ DOMAIN items \subseteq Value
        /\ \A w \in DOMAIN items : items[w] \in Counter
    BY DEF FrequencyInv, TypeOK
  <1>2. /\ DOMAIN items' = DOMAIN items \cup {v}
        /\ items'[v] = [estimate |-> 1, error |-> 0]
        /\ \A w \in DOMAIN items : items'[w] = items[w]
        /\ items' = [w \in DOMAIN items' |-> items'[w]]
    BY DEF With
  <1>3. /\ IsFiniteSet(DOMAIN items') /\ Cardinality(DOMAIN items') <= Capacity
        /\ Cardinality(DOMAIN items) < Capacity
    <2>1. /\ IsFiniteSet(DOMAIN items) /\ Cardinality(DOMAIN items) \in Nat
          /\ Cardinality(DOMAIN items) < Capacity
          /\ Capacity \in Nat
      BY FS_CardinalityType, CapacityPositive DEF FrequencyInv, TypeOK, HasRoom
    <2>2. /\ IsFiniteSet(DOMAIN items \cup {v})
          /\ Cardinality(DOMAIN items \cup {v}) = Cardinality(DOMAIN items) + 1
      BY <2>1, FS_AddElement
    <2> QED
      BY <1>2, <2>1, <2>2
  <1>4. \A w \in DOMAIN items' : items'[w] \in Counter
    BY <1>1, <1>2 DEF Counter
  <1>5. ASSUME topCapacity > 0
        PROVE  /\ \A w \in DOMAIN items' : /\ cnt[w] <= items'[w].estimate
                                           /\ items'[w].estimate - items'[w].error <= cnt[w]
               /\ \A u \in Value \ DOMAIN items' :
                     /\ \A w \in DOMAIN items' : cnt[u] <= items'[w].estimate
                     /\ cnt[u] = 0
    <2>1. \A u \in Value \ DOMAIN items : truth[u] = 0
      BY <1>5 DEF FrequencyInv, Untracked
    <2>2. \A w \in DOMAIN items : /\ truth[w] <= items[w].estimate
                                  /\ items[w].estimate - items[w].error <= truth[w]
      BY <1>5 DEF FrequencyInv, ErrorBounds
    <2> HIDE DEF cnt
    <2>3. cnt[v] = 1
      BY <1>1, <2>1
    <2> QED
      BY <1>1, <1>2, <1>4, <2>1, <2>2, <2>3 DEF Counter
  <1> QED
    BY <1>1, <1>2, <1>3, <1>4, <1>5 DEF ItemsOK

\* An eviction: the newcomer may have been there before, but not more often
\* than the item it replaces is estimated, and the same then holds for that
\* item and every other that is still there.
LEMMA AddEvicting ==
    ASSUME FrequencyInv, NEW v \in Value \ DOMAIN items, ~HasRoom,
           NEW m \in Smallest, items' = Replaced(m, v)
    PROVE  ItemsOK(items', [truth EXCEPT ![v] = @ + 1])
  <1> DEFINE cnt == [truth EXCEPT ![v] = @ + 1]
  <1>1. /\ truth \in [Value -> Nat] /\ cnt[v] = truth[v] + 1
        /\ \A w \in Value \ {v} : cnt[w] = truth[w]
        /\ DOMAIN items \subseteq Value
        /\ \A w \in DOMAIN items : items[w] \in Counter
    BY DEF FrequencyInv, TypeOK
  <1>2. /\ m \in DOMAIN items
        /\ \A w \in DOMAIN items : items[m].estimate <= items[w].estimate
    BY DEF Smallest
  <1>3. /\ DOMAIN items' = (DOMAIN items \ {m}) \cup {v}
        /\ items'[v] = [estimate |-> items[m].estimate + 1, error |-> items[m].estimate]
        /\ \A w \in DOMAIN items \ {m} : items'[w] = items[w]
        /\ items' = [w \in DOMAIN items' |-> items'[w]]
    BY DEF Replaced, With, Restrict
  <1>4. /\ IsFiniteSet(DOMAIN items')
        /\ Cardinality(DOMAIN items') = Cardinality(DOMAIN items)
        /\ Cardinality(DOMAIN items) <= Capacity
        /\ ~(Cardinality(DOMAIN items) < Capacity)
    <2>1. IsFiniteSet(DOMAIN items) /\ Cardinality(DOMAIN items) \in Nat
          /\ Cardinality(DOMAIN items) <= Capacity
      BY FS_CardinalityType DEF FrequencyInv, TypeOK
    <2>2. /\ IsFiniteSet(DOMAIN items \ {m})
          /\ Cardinality(DOMAIN items \ {m}) = Cardinality(DOMAIN items) - 1
      BY <1>2, <2>1, FS_RemoveElement
    <2>3. v \notin DOMAIN items \ {m}
      OBVIOUS
    <2>4. /\ IsFiniteSet((DOMAIN items \ {m}) \cup {v})
          /\ Cardinality((DOMAIN items \ {m}) \cup {v}) = Cardinality(DOMAIN items \ {m}) + 1
      BY <2>2, <2>3, FS_AddElement
    <2> QED
      BY <1>3, <2>1, <2>2, <2>4 DEF HasRoom
  <1>5. \A w \in DOMAIN items' : items'[w] \in Counter
    BY <1>1, <1>2, <1>3 DEF Counter
  <1>6. ASSUME topCapacity > 0
        PROVE  /\ \A w \in DOMAIN items' : /\ cnt[w] <= items'[w].estimate
                                           /\ items'[w].estimate - items'[w].error <= cnt[w]
               /\ \A u \in Value \ DOMAIN items' :
                     \A w \in DOMAIN items' : cnt[u] <= items'[w].estimate
    <2>1. \A u \in Value \ DOMAIN items, w \in DOMAIN items :
             truth[u] <= items[w].estimate
      BY <1>6 DEF FrequencyInv, Untracked
    <2>2. \A w \in DOMAIN items : /\ truth[w] <= items[w].estimate
                                  /\ items[w].estimate - items[w].error <= truth[w]
      BY <1>6 DEF FrequencyInv, ErrorBounds
    <2> HIDE DEF cnt
    <2>3. /\ cnt[v] <= items'[v].estimate
          /\ items'[v].estimate - items'[v].error <= cnt[v]
      BY <1>1, <1>2, <1>3, <2>1 DEF Counter
    <2>4. \A w \in DOMAIN items \ {m} : /\ cnt[w] <= items'[w].estimate
                                        /\ items'[w].estimate - items'[w].error <= cnt[w]
      BY <1>1, <1>3, <2>2
    <2>5. \A u \in Value \ DOMAIN items' : cnt[u] <= items[m].estimate
      BY <1>1, <1>2, <1>3, <2>1, <2>2
    <2>6. \A w \in DOMAIN items' : items[m].estimate <= items'[w].estimate
      BY <1>1, <1>2, <1>3 DEF Counter
    <2>7. \A u \in Value : cnt[u] \in Nat
      BY <1>1
    <2>8. items[m].estimate \in Nat /\ \A w \in DOMAIN items' : items'[w].estimate \in Nat
      BY <1>1, <1>2, <1>5 DEF Counter
    <2>9. \A u \in Value \ DOMAIN items', w \in DOMAIN items' : cnt[u] <= items'[w].estimate
      BY <2>5, <2>6, <2>7, <2>8
    <2> QED
      BY <1>3, <2>3, <2>4, <2>9
  <1> QED
    BY <1>1, <1>2, <1>3, <1>4, <1>5, <1>6 DEF ItemsOK

LEMMA AddFrequency ==
    ASSUME FrequencyInv, NEW v \in Value, Add(v)
    PROVE  FrequencyInv'
  <1>1. /\ SpaceSave(v) /\ truth' = [truth EXCEPT ![v] = @ + 1]
        /\ hash' = hash /\ topCapacity' = topCapacity
    BY DEF Add
  <1>2. ItemsOK(items', truth')
    BY <1>1, AddTracked, AddNew, AddEvicting DEF SpaceSave
  <1>3. /\ counters' \in [CountRow -> [0..Width - 1 -> Nat]]
        /\ truth' \in [Value -> Nat] /\ Counts'
    BY AddCounts
  <1> QED
    BY <1>1, <1>2, <1>3
    DEF ItemsOK, FrequencyInv, TypeOK, ErrorBounds, Untracked, HasRoom, Capacity

\* Saving and loading loses no item of a sketch that is asked for items.
LEMMA ReloadKeeps ==
    ASSUME FrequencyInv, Reload
    PROVE  /\ items' = Saved /\ UNCHANGED <<hash, topCapacity, counters, truth>>
           /\ topCapacity > 0 => items' = items
  <1>1. items' = Saved /\ UNCHANGED <<hash, topCapacity, counters, truth>>
    <2>1. PICK k \in 0..topCapacity : Whole(k) /\ items' = Restrict(items, TopK(k))
      BY Zenon DEF Reload
    <2>2. items' = Saved
      BY <2>1, Zenon DEF Whole
    <2>3. UNCHANGED <<hash, topCapacity, counters, truth>>
      BY Zenon DEF Reload
    <2> QED
      BY <2>2, <2>3
  <1>2. topCapacity \in Nat
    BY TopCapacitiesAssumption DEF FrequencyInv, TypeOK
  <1>3. ASSUME topCapacity > 0 PROVE items' = items
    <2>1. Cardinality(DOMAIN items) <= topCapacity
      BY <1>2, <1>3 DEF FrequencyInv, TypeOK, Capacity
    <2>2. TopK(topCapacity) = DOMAIN items
      BY <1>2, <2>1, TopKAll DEF FrequencyInv
    <2> QED
      BY <1>1, <2>2 DEF Saved, Restrict, FrequencyInv, TypeOK
  <1> QED
    BY <1>1, <1>3

LEMMA ReloadFrequency ==
    ASSUME FrequencyInv, Reload
    PROVE  FrequencyInv'
  <1>1. items' = Saved /\ UNCHANGED <<hash, topCapacity, counters, truth>>
    BY ReloadKeeps
  <1>2. topCapacity \in Nat
    BY TopCapacitiesAssumption DEF FrequencyInv, TypeOK
  <1>3. TopK(topCapacity) \subseteq DOMAIN items
    BY DEF TopK
  <1>4. topCapacity > 0 => items' = items
    BY ReloadKeeps
  <1>5. /\ items' = [v \in DOMAIN items' |-> items'[v]]
        /\ DOMAIN items' \subseteq DOMAIN items
        /\ \A v \in DOMAIN items' : items'[v] = items[v]
    BY <1>1, <1>3 DEF Saved, Restrict
  <1>6. IsFiniteSet(DOMAIN items') /\ Cardinality(DOMAIN items') <= Capacity
    <2>1. /\ IsFiniteSet(DOMAIN items) /\ Cardinality(DOMAIN items) <= Capacity
          /\ Cardinality(DOMAIN items) \in Nat
      BY FS_CardinalityType DEF FrequencyInv, TypeOK
    <2>2. /\ IsFiniteSet(DOMAIN items')
          /\ Cardinality(DOMAIN items') <= Cardinality(DOMAIN items)
          /\ Cardinality(DOMAIN items') \in Nat
      BY <1>5, <2>1, FS_Subset, FS_CardinalityType
    <2> QED
      BY <2>1, <2>2, CapacityPositive DEF FrequencyInv
  <1>7. TypeOK' /\ Counts'
    BY <1>1, <1>5, <1>6 DEF FrequencyInv, TypeOK, Counts, Capacity
  <1>8. (ErrorBounds /\ Untracked)'
    BY <1>1, <1>4 DEF FrequencyInv, ErrorBounds, Untracked, HasRoom, Capacity
  <1> QED
    BY <1>7, <1>8 DEF FrequencyInv

LEMMA NextFrequency == FrequencyInv /\ [Next]_vars => FrequencyInv'
  <1> SUFFICES ASSUME FrequencyInv, [Next]_vars PROVE FrequencyInv'
    OBVIOUS
  <1>1. CASE UNCHANGED vars
    BY <1>1 DEF vars, FrequencyInv, TypeOK, Counts, ErrorBounds, Untracked,
                HasRoom, Capacity
  <1>2. CASE Next
    BY <1>2, AddFrequency, ReloadFrequency DEF Next
  <1> QED
    BY <1>1, <1>2

-----------------------------------------------------------------------------
(* The estimates add up *)

Estimated(its) == [w \in DOMAIN its |-> its[w].estimate]

\* An eviction hands the estimate of the item that goes to the newcomer, so
\* that every addition is in one estimate; and an error was the smallest of
\* Capacity estimates.
HeavyInv ==
    /\ FrequencyInv
    /\ topCapacity > 0 =>
          /\ SumFunction(Estimated(items)) = Length
          /\ \A v \in DOMAIN items : items[v].error * Capacity <= Length

LEMMA EstimatedType ==
    ASSUME NEW its, IsFiniteSet(DOMAIN its), \A w \in DOMAIN its : its[w] \in Counter
    PROVE  /\ Estimated(its) \in [DOMAIN its -> Nat]
           /\ SumFunction(Estimated(its)) \in Nat
  <1>1. Estimated(its) \in [DOMAIN its -> Nat]
    BY DEF Estimated, Counter
  <1>2. PICK g : Sums(g, Estimated(its), DOMAIN its)
                 /\ SumFunction(Estimated(its)) = g[DOMAIN its]
    BY <1>1, SumOf
  <1>3. DOMAIN its \in SUBSET DOMAIN its
    OBVIOUS
  <1> QED
    BY <1>1, <1>2, <1>3 DEF Sums

\* The sum of nothing.
LEMMA SumOfZeros ==
    ASSUME NEW S, IsFiniteSet(S), NEW f \in [S -> Nat], \A x \in S : f[x] = 0
    PROVE  SumFunction(f) = 0
  <1>1. PICK g : Sums(g, f, S) /\ SumFunction(f) = g[S]
    BY SumOf
  <1> DEFINE Bad == {s \in SUBSET S : ~(g[s] = 0)}
  <1>2. ASSUME Bad # {} PROVE FALSE
    <2>0. Bad \in SUBSET (SUBSET S)
      OBVIOUS
    <2> HIDE DEF Bad
    <2>1. PICK s \in Bad : \A t \in Bad : Cardinality(s) <= Cardinality(t)
      BY <1>2, <2>0, Sizes
    <2>2. s \in SUBSET S /\ ~(g[s] = 0)
      BY DEF Bad
    <2>3. s # {}
      BY <1>1, <2>2 DEF Sums
    <2>4. PICK x \in s : TRUE
      BY <2>3
    <2>5. /\ s \ {x} \in SUBSET S /\ Cardinality(s) \in Nat
          /\ Cardinality(s \ {x}) = Cardinality(s) - 1
      BY <2>2, <2>4, Smaller
    <2>6. s \ {x} \notin Bad
      BY <2>1, <2>5
    <2>7. g[s] = f[x] + g[s \ {x}] /\ f[x] = 0
      BY <1>1, <2>2, <2>4 DEF Sums
    <2> QED
      BY <2>2, <2>5, <2>6, <2>7 DEF Bad
  <1>3. S \in SUBSET S
    OBVIOUS
  <1> QED
    BY <1>1, <1>2, <1>3

LEMMA InitHeavy == Init => HeavyInv
  <1> SUFFICES ASSUME Init PROVE HeavyInv
    OBVIOUS
  <1>1. FrequencyInv
    BY InitFrequency
  <1>2. DOMAIN items = {}
    BY DEF Init
  <1>3. Length = 0
    <2>1. truth \in [Value -> Nat] /\ \A v \in Value : truth[v] = 0
      BY DEF Init
    <2> QED
      BY <2>1, SumOfZeros, FiniteAssumption DEF Length
  <1>4. SumFunction(Estimated(items)) = 0
    <2>1. Estimated(items) \in [{} -> Nat] /\ IsFiniteSet({})
      BY <1>2, FS_EmptySet DEF Estimated
    <2> QED
      BY <2>1, SumOfZeros
  <1> QED
    BY <1>1, <1>2, <1>3, <1>4 DEF HeavyInv

LEMMA LengthGrows ==
    ASSUME FrequencyInv, NEW v \in Value, truth' = [truth EXCEPT ![v] = @ + 1]
    PROVE  Length \in Nat /\ Length' = Length + 1
  <1> DEFINE f == truth
             e == [truth EXCEPT ![v] = @ + 1]
  <1>1. /\ v \in DOMAIN f /\ v \in DOMAIN e /\ DOMAIN f \ {v} = DOMAIN e \ {v}
        /\ \A w \in DOMAIN f \ {v} : f[w] = e[w]
        /\ e[v] = f[v] + 1
    BY DEF FrequencyInv, TypeOK
  <1>2. Summable(f) /\ Summable(e)
    BY FiniteAssumption DEF FrequencyInv, TypeOK, Summable
  <1>3. SumFunction(f) = Length /\ SumFunction(e) = Length'
    BY Zenon DEF Length
  <1> HIDE DEF f, e
  <1>4. /\ SumFunction(f) \in Nat /\ f[v] \in Nat
        /\ SumFunction(e) = SumFunction(f) - f[v] + e[v]
    BY <1>1, <1>2, SumSwaps
  <1> QED
    BY <1>1, <1>3, <1>4

\* Whatever SpaceSavingTopK::add does, the estimates grow by one in all.
LEMMA EstimatesGrow ==
    ASSUME FrequencyInv, FrequencyInv', NEW v \in Value, SpaceSave(v)
    PROVE  SumFunction(Estimated(items')) = SumFunction(Estimated(items)) + 1
  <1> DEFINE f == Estimated(items)
             e == Estimated(items')
  <1>1. /\ DOMAIN f = DOMAIN items /\ \A w \in DOMAIN f : f[w] = items[w].estimate
        /\ DOMAIN e = DOMAIN items' /\ \A w \in DOMAIN e : e[w] = items'[w].estimate
    BY DEF Estimated
  <1>2. Summable(f) /\ Summable(e)
    BY <1>1, EstimatedType DEF FrequencyInv, TypeOK, Summable
  <1>3. \A w \in DOMAIN items : items[w] \in Counter
    BY DEF FrequencyInv, TypeOK
  <1> HIDE DEF f, e
  <1>4. CASE v \in DOMAIN items /\ items' = [items EXCEPT ![v].estimate = @ + 1]
    <2>1. /\ DOMAIN items' = DOMAIN items
          /\ \A w \in DOMAIN items \ {v} : items'[w] = items[w]
          /\ items'[v] = [items[v] EXCEPT !.estimate = @ + 1]
      BY <1>4 DEF FrequencyInv, TypeOK
    <2>2. items'[v].estimate = items[v].estimate + 1
      BY <1>3, <1>4, <2>1 DEF Counter
    <2>3. /\ v \in DOMAIN f /\ v \in DOMAIN e /\ DOMAIN f \ {v} = DOMAIN e \ {v}
          /\ \A w \in DOMAIN f \ {v} : f[w] = e[w]
          /\ e[v] = f[v] + 1
      BY <1>1, <1>4, <2>1, <2>2
    <2>4. /\ SumFunction(f) \in Nat /\ f[v] \in Nat
          /\ SumFunction(e) = SumFunction(f) - f[v] + e[v]
      BY <1>2, <2>3, SumSwaps
    <2> QED
      BY <2>3, <2>4 DEF f, e
  <1>5. CASE v \notin DOMAIN items /\ items' = With(items, v, [estimate |-> 1, error |-> 0])
    <2>1. /\ DOMAIN items' = DOMAIN items \cup {v} /\ items'[v].estimate = 1
          /\ \A w \in DOMAIN items : items'[w] = items[w]
      BY <1>5 DEF With
    <2>2. /\ v \in DOMAIN e /\ DOMAIN e \ {v} = DOMAIN f
          /\ e[v] = 1 /\ \A w \in DOMAIN f : f[w] = e[w]
      BY <1>1, <1>5, <2>1
    <2>3. SumFunction(e) = SumFunction(f) + e[v]
      BY <1>2, <2>2, SumAdds
    <2> QED
      BY <2>2, <2>3 DEF f, e
  <1>6. ASSUME v \notin DOMAIN items, NEW m \in Smallest, items' = Replaced(m, v)
        PROVE  SumFunction(e) = SumFunction(f) + 1
    <2>1. /\ m \in DOMAIN items /\ DOMAIN items' = (DOMAIN items \ {m}) \cup {v}
          /\ \A w \in DOMAIN items \ {m} : items'[w] = items[w]
          /\ items'[v].estimate = items[m].estimate + 1
      BY <1>6 DEF Smallest, Replaced, With, Restrict
    <2>2. /\ m \in DOMAIN f /\ v \in DOMAIN e /\ DOMAIN f \ {m} = DOMAIN e \ {v}
          /\ \A w \in DOMAIN f \ {m} : f[w] = e[w]
          /\ e[v] = f[m] + 1
      BY <1>1, <1>6, <2>1
    <2>3. /\ SumFunction(f) \in Nat /\ f[m] \in Nat
          /\ SumFunction(e) = SumFunction(f) - f[m] + e[v]
      BY <1>2, <2>2, SumSwaps
    <2> QED
      BY <2>2, <2>3
  <1> QED
    BY <1>4, <1>5, <1>6 DEF SpaceSave, f, e

\* The smallest of Capacity estimates is at most their share of all.
LEMMA SmallestShare ==
    ASSUME HeavyInv, topCapacity > 0, ~HasRoom, NEW n \in Nat,
           \A w \in DOMAIN items : n <= items[w].estimate
    PROVE  n * Capacity <= Length
  <1>1. /\ IsFiniteSet(DOMAIN items) /\ Cardinality(DOMAIN items) = Capacity
        /\ \A w \in DOMAIN items : items[w] \in Counter
    BY FS_CardinalityType, CapacityPositive DEF HeavyInv, FrequencyInv, TypeOK, HasRoom
  <1>2. /\ Estimated(items) \in [DOMAIN items -> Nat]
        /\ \A w \in DOMAIN items : n <= Estimated(items)[w]
    BY <1>1, EstimatedType DEF Estimated
  <1>3. n * Cardinality(DOMAIN items) <= SumFunction(Estimated(items))
    BY <1>1, <1>2, SumAtLeast
  <1> QED
    BY <1>1, <1>3 DEF HeavyInv

LEMMA AddHeavy ==
    ASSUME HeavyInv, NEW v \in Value, Add(v)
    PROVE  HeavyInv'
  <1>1. FrequencyInv /\ FrequencyInv'
    BY AddFrequency DEF HeavyInv
  <1>2. /\ SpaceSave(v) /\ truth' = [truth EXCEPT ![v] = @ + 1]
        /\ topCapacity' = topCapacity /\ Capacity' = Capacity
    BY DEF Add, Capacity
  <1>3. Length \in Nat /\ Length' = Length + 1
    BY <1>1, <1>2, LengthGrows
  <1> SUFFICES ASSUME topCapacity > 0
               PROVE  /\ SumFunction(Estimated(items')) = Length'
                      /\ \A w \in DOMAIN items' : items'[w].error * Capacity <= Length'
    BY <1>1, <1>2 DEF HeavyInv
  <1>4. SumFunction(Estimated(items')) = Length'
    BY <1>1, <1>2, <1>3, EstimatesGrow DEF HeavyInv
  <1>5. /\ Capacity \in Nat /\ \A w \in DOMAIN items : items[w] \in Counter
        /\ items = [w \in DOMAIN items |-> items[w]]
    BY <1>1, CapacityPositive DEF FrequencyInv, TypeOK
  <1>6. ASSUME NEW e \in Nat, e * Capacity <= Length
        PROVE  e * Capacity <= Length'
    <2>1. e * Capacity \in Nat
      BY <1>5
    <2> QED
      BY <1>3, <1>6, <2>1
  <1>7. \A w \in DOMAIN items : items[w].error \in Nat /\ items[w].error * Capacity <= Length'
    BY <1>5, <1>6 DEF HeavyInv, Counter
  <1>8. ASSUME NEW w \in DOMAIN items'
        PROVE  items'[w].error * Capacity <= Length'
    <2>1. CASE v \in DOMAIN items /\ items' = [items EXCEPT ![v].estimate = @ + 1]
      <3>1. w \in DOMAIN items /\ items'[w].error = items[w].error
        BY <1>5, <2>1 DEF Counter
      <3> QED
        BY <1>7, <3>1
    <2>2. CASE items' = With(items, v, [estimate |-> 1, error |-> 0])
      <3>1. CASE w = v
        <4>1. items'[w].error = 0 /\ 0 * Capacity = 0
          BY <1>5, <2>2, <3>1 DEF With
        <4> QED
          BY <1>3, <4>1
      <3>2. CASE w # v
        <4>1. w \in DOMAIN items /\ items'[w] = items[w]
          BY <2>2, <3>2 DEF With
        <4> QED
          BY <1>7, <4>1
      <3> QED
        BY <3>1, <3>2
    <2>3. ASSUME ~HasRoom, NEW m \in Smallest, items' = Replaced(m, v)
          PROVE  items'[w].error * Capacity <= Length'
      <3>1. CASE w = v
        <4>1. /\ items'[w].error = items[m].estimate /\ items[m].estimate \in Nat
              /\ \A u \in DOMAIN items : items[m].estimate <= items[u].estimate
          BY <1>5, <2>3, <3>1 DEF Replaced, With, Smallest, Counter
        <4>2. items[m].estimate * Capacity <= Length
          BY <2>3, <4>1, SmallestShare
        <4> QED
          BY <1>6, <4>1, <4>2
      <3>2. CASE w # v
        <4>1. w \in DOMAIN items /\ items'[w] = items[w]
          BY <2>3, <3>2 DEF Replaced, With, Restrict
        <4> QED
          BY <1>7, <4>1
      <3> QED
        BY <3>1, <3>2
    <2> QED
      BY <1>2, <2>1, <2>2, <2>3 DEF SpaceSave
  <1> QED
    BY <1>4, <1>8

LEMMA NextHeavy ==
    ASSUME HeavyInv, [Next]_vars
    PROVE  HeavyInv'
  <1>1. FrequencyInv'
    BY NextFrequency DEF HeavyInv
  <1>2. CASE UNCHANGED vars
    BY <1>1, <1>2 DEF vars, HeavyInv, Length, Capacity
  <1>3. CASE \E v \in Value : Add(v)
    BY <1>3, AddHeavy
  <1>4. CASE Reload
    <2>1. UNCHANGED <<topCapacity, truth>> /\ Length' = Length /\ Capacity' = Capacity
      BY <1>4, Zenon DEF Reload, Length, Capacity
    <2>2. topCapacity > 0 => items' = items
      BY <1>4, ReloadKeeps DEF HeavyInv
    <2> QED
      BY <1>1, <2>1, <2>2 DEF HeavyInv
  <1> QED
    BY <1>2, <1>3, <1>4 DEF Next

-----------------------------------------------------------------------------
(* The theorems *)

LEMMA SpecFrequencyInv == Spec => []FrequencyInv
  BY InitFrequency, NextFrequency, PTL DEF Spec

\* The counters, and the summary's size: it never holds more than capacity
\* items, whatever is evicted and reloaded (SpaceSavingTopK::add).
THEOREM SpecTypeOK == Spec => []TypeOK
  <1>1. FrequencyInv => TypeOK
    BY DEF FrequencyInv
  <1> QED
    BY <1>1, SpecFrequencyInv, PTL

\* APPROX_FREQ never under-estimates, for every hash function
\* (CountMinSketch::add and estimate).
THEOREM SpecNeverUnder == Spec => []NeverUnder
  <1>1. FrequencyInv => NeverUnder
    <2> SUFFICES ASSUME FrequencyInv, NEW v \in Value
                 PROVE  Estimate(v) >= truth[v]
      BY DEF NeverUnder
    <2> DEFINE reads == {counters[row][hash[v][row]] : row \in CountRow}
    <2>1. 1 \in CountRow
      BY SizeAssumption DEF CountRow
    <2>2. \A row \in CountRow : counters[row][hash[v][row]] \in Nat
      <3> SUFFICES ASSUME NEW row \in CountRow
                   PROVE  counters[row][hash[v][row]] \in Nat
        OBVIOUS
      <3>1. counters[row] \in [0..Width - 1 -> Nat] /\ hash[v][row] \in 0..Width - 1
        BY DEF FrequencyInv, TypeOK
      <3> QED
        BY <3>1
    <2>3. reads \in SUBSET Nat /\ reads # {}
      BY <2>1, <2>2
    <2>4. truth[v] \in Nat /\ \A n \in reads : n >= truth[v]
      BY DEF FrequencyInv, TypeOK, Counts
    <2> QED
      BY <2>3, <2>4, MinBound DEF Estimate
  <1> QED
    BY <1>1, SpecFrequencyInv, PTL

\* The error column of APPROX_TOP_K is a bound, for every capacity, every
\* choice among smallest items and every stream (SpaceSavingTopK::add).
THEOREM SpecErrorBounds == Spec => []ErrorBounds
  <1>1. FrequencyInv => ErrorBounds
    BY DEF FrequencyInv
  <1> QED
    BY <1>1, SpecFrequencyInv, PTL

\* What APPROX_TOP_K leaves out is no more frequent than the estimate of
\* anything it returns (SpaceSavingTopK::top_k).
THEOREM SpecNothingMissed == Spec => []NothingMissed
  <1>1. FrequencyInv => NothingMissed
    <2> SUFFICES ASSUME FrequencyInv, NEW k \in 1..topCapacity,
                        NEW v \in Value \ TopK(k)
                 PROVE  /\ \A w \in TopK(k) : truth[v] <= items[w].estimate
                        /\ Cardinality(TopK(k)) < k => truth[v] = 0
      BY DEF NothingMissed
    <2>1. /\ TypeOK /\ topCapacity \in Nat /\ topCapacity > 0 /\ k \in Nat
          /\ Capacity = topCapacity /\ k <= Capacity /\ truth[v] \in Nat
      BY TopCapacitiesAssumption DEF FrequencyInv, TypeOK, Capacity
    <2>2. TopK(k) \subseteq DOMAIN items
      BY DEF TopK
    <2>3. CASE v \in DOMAIN items
      <3>1. \A w \in TopK(k) : items[v].estimate <= items[w].estimate
        BY <2>1, <2>3, TopKLargest
      <3>2. truth[v] <= items[v].estimate
        BY <2>1, <2>3 DEF FrequencyInv, ErrorBounds
      <3>3. ~(Cardinality(TopK(k)) < k)
        BY <2>1, <2>3, TopKShort
      <3> QED
        BY <2>1, <2>2, <2>3, <3>1, <3>2, <3>3 DEF TypeOK, Counter
    <2>4. CASE v \notin DOMAIN items
      <3>1. /\ \A w \in DOMAIN items : truth[v] <= items[w].estimate
            /\ HasRoom => truth[v] = 0
        BY <2>1, <2>4 DEF FrequencyInv, Untracked
      <3>2. Cardinality(TopK(k)) < k => HasRoom
        <4> SUFFICES ASSUME Cardinality(TopK(k)) < k PROVE HasRoom
          OBVIOUS
        <4>1. TopK(k) = DOMAIN items
          BY <2>1, TopKShort
        <4>2. Cardinality(DOMAIN items) \in Nat
          BY <2>1, FS_CardinalityType DEF TypeOK
        <4> QED
          BY <2>1, <4>1, <4>2 DEF HasRoom
      <3> QED
        BY <2>2, <3>1, <3>2
    <2> QED
      BY <2>3, <2>4
  <1> QED
    BY <1>1, SpecFrequencyInv, PTL

\* A value with more than its share of all is among the items, and no error
\* exceeds that share, for every capacity and stream (SpaceSavingTopK::add,
\* compute_top_capacity).
THEOREM SpecHeavyHitters == Spec => []HeavyHitters
  <1>1. HeavyInv => HeavyHitters
    <2> SUFFICES ASSUME HeavyInv, topCapacity > 0, NEW v \in Value \ DOMAIN items
                 PROVE  ~(truth[v] * Capacity > Length)
      BY DEF HeavyHitters, HeavyInv
    <2>1. FrequencyInv /\ truth[v] \in Nat /\ Capacity \in Nat
      BY CapacityPositive DEF HeavyInv, FrequencyInv, TypeOK
    <2>2. Length \in Nat
      <3>1. truth \in [Value -> Nat]
        BY <2>1 DEF FrequencyInv, TypeOK
      <3>2. PICK g : Sums(g, truth, Value) /\ SumFunction(truth) = g[Value]
        BY <3>1, SumOf, FiniteAssumption
      <3>3. Value \in SUBSET Value
        OBVIOUS
      <3> QED
        BY <3>2, <3>3 DEF Length, Sums
    <2>3. truth[v] * Capacity <= Length
      <3>1. CASE HasRoom
        <4>1. truth[v] = 0
          BY <2>1, <3>1 DEF FrequencyInv, Untracked
        <4>2. 0 * Capacity = 0
          BY <2>1
        <4> QED
          BY <2>2, <4>1, <4>2
      <3>2. CASE ~HasRoom
        <4>1. \A w \in DOMAIN items : truth[v] <= items[w].estimate
          BY <2>1 DEF FrequencyInv, Untracked
        <4> QED
          BY <2>1, <3>2, <4>1, SmallestShare
      <3> QED
        BY <3>1, <3>2
    <2>4. truth[v] * Capacity \in Nat
      BY <2>1
    <2> QED
      BY <2>2, <2>3, <2>4
  <1>2. HeavyInv /\ [Next]_vars => HeavyInv'
    BY NextHeavy
  <1> QED
    BY <1>1, InitHeavy, <1>2, PTL DEF Spec
=============================================================================
