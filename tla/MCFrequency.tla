---------------------------- MODULE MCFrequency ----------------------------
(***************************************************************************)
(* Frequency for TLC: four values in a sketch of two rows of two counters, *)
(* under every hash function, with no, one or two items.                   *)
(***************************************************************************)
EXTENDS Frequency

FourValues == 1..4
UpToTwo == 0..2
=============================================================================
