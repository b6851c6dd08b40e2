---------------------------- MODULE MCIosRunner ----------------------------
(***************************************************************************)
(* IosRunner on a small instance: two workers are enough for a run to      *)
(* overlap with the next one; two ports let both of them listen.           *)
(***************************************************************************)
EXTENDS IosRunner, TLC

CONSTANTS w1, w2

Symmetry == Permutations({w1, w2})
=============================================================================
