------------------------------ MODULE MCTimers ------------------------------
(* Small instances of Timers for TLC. *)
EXTENDS Timers, TLC

Few == [duration : {0, 1}, omit : {0, 1}, stats : {0, 1, 2}, reporter : {0, 1}]
CellSymmetry == Permutations(Cells)
=============================================================================
