--------------------------- MODULE MCRegistration ---------------------------
(* A small instance of Registration for TLC. *)
EXTENDS Registration, TLC

(* Cells are interchangeable. *)
CellSymmetry == Permutations(Cells)
=============================================================================
