----------------------------- MODULE MCQoutfifo -----------------------------
(***************************************************************************)
(* Instances of AhcQoutfifo for TLC.  The ring is two groups of four, the  *)
(* smallest that wraps from one group into another.                        *)
(***************************************************************************)
EXTENDS AhcQoutfifo, TLC

TagSymmetry == Permutations(Tags)
=============================================================================
