------------------------------- MODULE Totals -------------------------------
(***************************************************************************)
(* What a loop that adds up tokens arrives at (_pack of manager.py and of  *)
(* chunking.py).                                                           *)
(***************************************************************************)
EXTENDS Integers, Sequences, SequencesExt

Total(counts) == FoldLeft(LAMBDA a, b : a + b, 0, counts)
=============================================================================
