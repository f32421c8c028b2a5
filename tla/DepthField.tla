------------------------------- MODULE DepthField -------------------------------
(***************************************************************************)
(* The field at a depth inside the stack, computed in two ways.            *)
(*                                                                         *)
(* Example 1, which exists in four languages, builds the list of the       *)
(* amplitudes in every layer from the transmitted wave backwards, and then *)
(* looks the layer of each depth up in it.  The C ABI also has a helper,   *)
(* optics_tmm_compute_forward_backward_at_depth, that does all of it.      *)
(*                                                                         *)
(* Interface matrix a lies between layers a and a + 1, counted from zero.  *)
(* A product of interface matrices applied to the transmitted wave is the  *)
(* sequence of their numbers, so that two products are equal for arbitrary *)
(* matrices exactly when the sequences are.                                *)
(***************************************************************************)
EXTENDS Integers, Sequences

CONSTANT MaxLayers   \* the largest stack

ASSUME MaxLayersAssumption == MaxLayers \in Nat /\ MaxLayers >= 2

Example == {"c", "csharp", "fortran", "matlab"}
Program == Example \cup {"helper"}

VARIABLES prog,     \* the program that runs
          n,        \* layers in its stack
          target,   \* the layer its depth lies in, counted from zero
          pc,       \* "start", "loop" or "done"
          i,        \* the loop variable, in the program's own counting
          list,     \* vw_list, by the program's own row numbers
          result    \* what the program computed and from which layer's data

vars == <<prog, n, target, pc, i, list, result>>

Matrix == 0 .. MaxLayers
\* The contents of a row nobody has written: no stack has this interface.
Garbage == <<MaxLayers>>

\* The amplitudes in layer a: matrices a, a + 1, ..., n - 2 on the transmitted wave.
Suffix(a) == [k \in 1 .. n - 1 - a |-> a + k - 1]

(***************************************************************************)
(* How each language counts.                                               *)
(***************************************************************************)
\* The first row of an array of the program.
Base(p) == IF p \in {"fortran", "matlab"} THEN 1 ELSE 0

\* Mutant: the Fortran wrapper returns the C index.
FoundIndexRaw(p, layer) == layer

\* find_in_structure as the program's binding returns it.
FoundIndex(p, layer) == IF p = "fortran" THEN layer + 1 ELSE layer

\* The C index the binding derives from the index the program passes.
CIndex(p, id) == IF p = "fortran" THEN id - 1 ELSE id

\* The row of dir and vw_list the program reads for a found index.
Row(p, id) == IF p = "matlab" THEN id + 1 ELSE id

\* The layer whose refractive index goes into the Poynting vector: the found
\* one, but the MATLAB example writes the number of its second layer instead.
PoyntingLayer(p, id) == IF p = "matlab" THEN 1 ELSE CIndex(p, id)

(***************************************************************************)
(* Example 1.                                                              *)
(***************************************************************************)
ListStart ==
  /\ prog \in Example /\ pc = "start"
  /\ list' = [list EXCEPT ![n - 1 + Base(prog)] = <<>>]
  /\ i' = n - 2 + Base(prog)
  /\ pc' = "loop"
  /\ UNCHANGED <<prog, n, target, result>>

\* Mutant: the loop runs one row too far.
MoreRowsOneTooMany(p, row) == row >= Base(p) - 1

MoreRows(p, row) == row >= Base(p)

\* Mutant: the recurrence reads the row it writes.
ListRowInPlace ==
  /\ prog \in Example /\ pc = "loop" /\ MoreRows(prog, i)
  /\ list' = [list EXCEPT ![i] = <<i - Base(prog)>> \o list[i]]
  /\ i' = i - 1
  /\ UNCHANGED <<prog, n, target, pc, result>>

ListRow ==
  /\ prog \in Example /\ pc = "loop" /\ MoreRows(prog, i)
  /\ list' = [list EXCEPT ![i] = <<i - Base(prog)>> \o list[i + 1]]
  /\ i' = i - 1
  /\ UNCHANGED <<prog, n, target, pc, result>>

\* The body of the depth loop, for a depth in layer `target'.
Evaluate ==
  /\ prog \in Example /\ pc = "loop" /\ ~MoreRows(prog, i)
  /\ LET id == FoundIndex(prog, target) IN
       result' = [word     |-> list[Row(prog, id)],
                  phase    |-> CIndex(prog, id),
                  angle    |-> Row(prog, id) - Base(prog),
                  poynting |-> PoyntingLayer(prog, id),
                  absorbed |-> CIndex(prog, id)]
  /\ pc' = "done"
  /\ UNCHANGED <<prog, n, target, i, list>>

(***************************************************************************)
(* optics_tmm_compute_forward_backward_at_depth.  It keeps one vector, in  *)
(* row 0 of the model's list, and multiplies all the matrices into it.     *)
(***************************************************************************)
HelperStart ==
  /\ prog = "helper" /\ pc = "start"
  /\ list' = [list EXCEPT ![0] = <<>>]
  /\ i' = n - 2
  /\ pc' = "loop"
  /\ UNCHANGED <<prog, n, target, result>>

\* Mutant: the loop leaves the first interface out.
HelperMoreSkipsFirst(k) == k > 0

HelperMore(k) == k >= 0

HelperStep ==
  /\ prog = "helper" /\ pc = "loop" /\ HelperMore(i)
  /\ list' = [list EXCEPT ![0] = <<i>> \o list[0]]
  /\ i' = i - 1
  /\ UNCHANGED <<prog, n, target, pc, result>>

\* The phase of the found layer is applied to what the loop left.
HelperPhase ==
  /\ prog = "helper" /\ pc = "loop" /\ ~HelperMore(i)
  /\ result' = [word |-> list[0], phase |-> target, angle |-> target,
                poynting |-> target, absorbed |-> target]
  /\ pc' = "done"
  /\ UNCHANGED <<prog, n, target, i, list>>

Done == pc = "done" /\ UNCHANGED vars

NoResult == [word |-> Garbage, phase |-> 0, angle |-> 0, poynting |-> 0, absorbed |-> 0]

Init == /\ prog \in Program
        /\ n \in 2 .. MaxLayers
        /\ target \in 0 .. n - 1
        /\ pc = "start" /\ i = 0
        /\ list = [row \in 0 .. MaxLayers |-> Garbage]
        /\ result = NoResult

Next == ListStart \/ ListRow \/ Evaluate \/ HelperStart \/ HelperStep \/ HelperPhase \/ Done

Spec == Init /\ [][Next]_vars
--------------------------------------------------------------------------------
(***************************************************************************)
(* Properties.                                                             *)
(***************************************************************************)
\* Every variable has the shape the programs give it, and the loop variable
\* never leaves the rows of the list by more than the final decrement.
TypeOK ==
  /\ prog \in Program /\ n \in 2 .. MaxLayers /\ target \in 0 .. n - 1
  /\ pc \in {"start", "loop", "done"}
  /\ i \in -1 .. MaxLayers
  /\ list \in [0 .. MaxLayers -> Seq(Matrix)]
  /\ result \in [word : Seq(Matrix), phase : Nat, angle : Nat, poynting : Nat,
                 absorbed : Nat]

\* The rows the list loop of Example 1 has reached hold the amplitudes of their
\* layers, in the languages that count rows from zero and from one alike.
ListIsSuffix ==
  prog \in Example /\ pc # "start" =>
    \A row \in i + 1 .. n - 1 + Base(prog) : list[row] = Suffix(row - Base(prog))

\* Example 1 evaluates every depth with the amplitudes, the phase, the angle and
\* the absorption of the layer the depth lies in: the index survives its way
\* through the binding, the arrays and back into the C ABI in every language.
FieldOfLayer ==
  prog \in Example /\ pc = "done" =>
    /\ result.word = Suffix(target)
    /\ result.phase = target /\ result.angle = target /\ result.absorbed = target

\* For a depth in the first layer the helper computes what Example 1 computes.
HelperAtSurface ==
  prog = "helper" /\ pc = "done" /\ target = 0 =>
    result.word = Suffix(0) /\ result.phase = 0

\* optics_tmm.h: "At a depth, compute forward/backward amplitudes and fields (Ex1
\* helper)": at every depth the helper computes what Example 1 computes.
HelperIsExample ==
  prog = "helper" /\ pc = "done" => result.word = Suffix(target)

\* README.md: the examples "share the same physics scenarios", and the first line of
\* ex_01_poynting_absorption.m: "Poynting vector and absorption vs depth".  In every
\* language the Poynting vector uses the index of the depth's layer.
PoyntingOfLayer ==
  prog \in Example /\ pc = "done" => result.poynting = target

(***************************************************************************)
(* The inductive invariant: where the loop variable is, and what the rows  *)
(* it passed hold.                                                         *)
(***************************************************************************)
LoopInv ==
  prog \in Example /\ pc # "start" =>
    /\ i \in Base(prog) - 1 .. n - 2 + Base(prog)
    /\ pc = "done" => i = Base(prog) - 1

HelperInv ==
  prog = "helper" /\ pc # "start" =>
    /\ i \in -1 .. n - 2
    /\ list[0] = Suffix(i + 1)
    /\ pc = "done" => i = -1 /\ result.word = list[0] /\ result.phase = target

IInv == TypeOK /\ ListIsSuffix /\ LoopInv /\ HelperInv /\ FieldOfLayer
================================================================================
