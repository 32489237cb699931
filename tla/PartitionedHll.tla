--------------------------- MODULE PartitionedHll ---------------------------
(***************************************************************************)
(* A cached HyperLogLog entry (HllCacheEntry in src/sketchydb.cpp): a list *)
(* of sketches of which the last one takes values until it has had its     *)
(* number of rows, and all of which are merged for an estimate.            *)
(***************************************************************************)
EXTENDS Integers, Sequences, FiniteSetsExt

CONSTANTS
    Bits, Precision, Hash,  \* as in HyperLogLog
    PartitionRows,          \* kPartitionTargetRows
    MaxPartitions           \* bound of the model

ASSUME PrecisionAssumption == Bits \in Nat /\ Precision \in 1..Bits - 1
ASSUME HashAssumption == Hash \subseteq 0..2^Bits - 1
ASSUME PartitionAssumption ==
    PartitionRows \in Nat \ {0} /\ MaxPartitions \in Nat \ {0}

VARIABLES
    partitions,     \* HllCacheEntry::partitions
    active,         \* HllCacheEntry::active_partition_rows
    added           \* the hashes that were added; not in the code

vars == <<partitions, active, added>>

\* Mutant: the merge leaves out the first of several partitions.
MergeOf_Rest(ps) ==
    [i \in DOMAIN ps[1] |-> Max({ps[n][i] : n \in Min({2, Len(ps)})..Len(ps)})]

\* estimate_partitioned_hll and HyperLogLog::merge
MergeOf(ps) == [i \in DOMAIN ps[1] |-> Max({ps[n][i] : n \in DOMAIN ps})]

Merged == MergeOf(partitions)

\* The one sketch that the entry stands for.
Single == INSTANCE HyperLogLog WITH registers <- Merged

\* Powers are what they should be; the provers know no laws of ^.
ASSUME PowerAssumption ==
    2^0 = 1 /\ \A n \in 0..Bits - 1 : 2^n \in Nat /\ 2^(n + 1) = 2 * 2^n

TypeOK ==
    /\ partitions \in Seq(Single!Registers)
    /\ Len(partitions) \in 1..MaxPartitions
    /\ active \in 0..PartitionRows
    /\ added \subseteq Hash

Init ==
    /\ partitions = <<Single!Zero>>
    /\ active = 0
    /\ added = {}

\* Mutant: a full partition is replaced and not kept.
Started_Over == <<Single!Zero>>

Started == Append(partitions, Single!Zero)

\* Mutant: a partition takes one row too many.
Full_Late == active > PartitionRows

Full == active >= PartitionRows

\* collect_hll_value, and every row that an INSERT streams: a new partition
\* if the last one is full, and the value into the last one.
Add(h) ==
    /\ \/ /\ ~Full
          /\ partitions' = [partitions EXCEPT ![Len(partitions)] =
                                Single!Updated(@, h)]
          /\ active' = active + 1
       \/ /\ Full
          /\ Len(partitions) < MaxPartitions
          /\ partitions' = [Started EXCEPT ![Len(Started)] = Single!Updated(@, h)]
          /\ active' = 1
    /\ added' = added \cup {h}

\* Mutant: a file that ends before its last partition is taken.
Whole_Any(n) == n > 0

\* load_hll_entry has read as many partitions as the file announces.
Whole(n) == n = Len(partitions)

\* The entry is saved and loaded.  A file that a crash has cut behind n
\* partitions is refused, and the entry built anew.
Reload ==
    /\ \E n \in 0..Len(partitions) :
          Whole(n) /\ partitions' = SubSeq(partitions, 1, n)
    /\ UNCHANGED <<active, added>>

Next == (\E h \in Hash : Add(h)) \/ Reload

Spec == Init /\ [][Next]_vars

-----------------------------------------------------------------------------
(* Properties *)

\* The rank of a hash by its definition: the place of the first 1 among the
\* bits below the index, or one more than there are bits.
RankOf(h) ==
    LET width == Bits - Precision
        low == h % 2^width
    IN  Min({n \in 1..width : 2^(width - n) <= low} \cup {width + 1})

\* The merged registers are those of the set of values that were added:
\* neither order nor repetition nor the cut into partitions leaves a trace.
RegistersExact ==
    \A i \in Single!Index :
        Merged[i] = Max({0} \cup {RankOf(h) : h \in {h \in added : Single!IndexOf(h) = i}})

\* An entry with its partitions behaves as one HyperLogLog sketch.
ImplementsSingle == Single!Spec
=============================================================================
