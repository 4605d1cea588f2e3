------------------------------- MODULE MCGilCells ------------------------------
(* Instances of GilCells for TLC. *)
EXTENDS GilCells, TLC

CellSymmetry == Permutations(Threads) \cup Permutations(Cells)
================================================================================
