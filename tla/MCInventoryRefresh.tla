------------------------- MODULE MCInventoryRefresh -------------------------
(* Small instances of InventoryRefresh for TLC.                            *)
EXTENDS InventoryRefresh, TLC

JobSymmetry == Permutations(Jobs)
=============================================================================
