----------------------------- MODULE MCCSharpStack -----------------------------
(***************************************************************************)
(* CSharpStack for TLC: three threads, so that one may use the stack while *)
(* two dispose of it. The threads are symmetric.                           *)
(***************************************************************************)
EXTENDS CSharpStack, TLC

MCSymmetry == Permutations(Thread)
================================================================================
