-------------------------- MODULE MCPartitionedHll --------------------------
(***************************************************************************)
(* PartitionedHll for TLC: hashes of six bits, of which two select a       *)
(* register; every rank from the first bit to none, and partitions that    *)
(* are full after two rows.                                                *)
(***************************************************************************)
EXTENDS PartitionedHll

SomeHashes == {0, 1, 2, 5, 8, 15, 16, 31, 47, 48, 63}
=============================================================================
