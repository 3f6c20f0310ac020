--------------------------- MODULE MCSDCellHeights ---------------------------
EXTENDS SDCellAutoHeightManager, TLC

(* Rows are only compared.                                                  *)
RowSymmetry == Permutations(Rows)
=============================================================================
