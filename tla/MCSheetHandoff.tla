--------------------------- MODULE MCSheetHandoff ---------------------------
(* SheetHandoff on a small instance for TLC. *)
EXTENDS SheetHandoff, TLC

(* Operations are told apart by nothing but their identity. *)
OpSymmetry == Permutations(OpIds)
=============================================================================
