---------------------------- MODULE MCFortranStack -----------------------------
(***************************************************************************)
(* FortranStack for TLC: two variables and three objects, so that one      *)
(* variable can create again while another holds a copy; a size_t of three *)
(* bits. Variables and objects are symmetric.                              *)
(***************************************************************************)
EXTENDS FortranStack, TLC

MCSymmetry == Permutations(Var) \cup Permutations(Object)
================================================================================
