---------------------------- MODULE MCKllSketch ----------------------------
(***************************************************************************)
(* KllSketch for TLC: levels of three values, which overflow with an even  *)
(* number, and of four, which overflow with an odd one; the stream is long *)
(* enough for compactions to cascade through three levels.                 *)
(***************************************************************************)
EXTENDS KllSketch

ThreeValues == 1..3
ThreeOrFour == {3, 4}
=============================================================================
