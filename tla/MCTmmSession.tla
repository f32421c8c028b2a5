----------------------------- MODULE MCTmmSession ------------------------------
(***************************************************************************)
(* TmmSession for TLC: one stack and the null handle, two materials,       *)
(* arrays of two elements and stacks of up to three layers, so that a      *)
(* stack outgrows the arrays made for it. The materials are symmetric.     *)
(***************************************************************************)
EXTENDS TmmSession, TLC

MCSymmetry == Permutations(Layer)
================================================================================
