----------------------------- MODULE MCCellBinding -----------------------------
(* Symmetric view models and cells for CellBinding.                        *)
EXTENDS CellBinding, TLC

(* View models and cells are told apart by nothing but their names.        *)
Symmetry == Permutations(VMs) \cup Permutations(Cells)
=============================================================================
