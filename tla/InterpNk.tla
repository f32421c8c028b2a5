-------------------------------- MODULE InterpNk --------------------------------
(***************************************************************************)
(* interp_nk_quadratic: a refractive index between the samples of a table. *)
(* The function exists four times: in C (examples/c/common_example.h), in  *)
(* the C# and Fortran bindings and in MATLAB's Example 3.                  *)
(*                                                                         *)
(* `wl' are the wavelengths of the table.  What the arithmetic makes of    *)
(* the samples is left out; modelled is which samples enter it, counted    *)
(* from one: the first, the last, three neighbours, or the fallback.       *)
(***************************************************************************)
EXTENDS Integers, Sequences

\* Mutant: the loop tests two neighbours only.
WindowOfTwo(wl, x) == {i \in 2 .. Len(wl) - 1 : wl[i - 1] <= x /\ x <= wl[i]}

\* The samples whose two neighbours enclose x.
Window(wl, x) == {i \in 2 .. Len(wl) - 1 : wl[i - 1] <= x /\ x <= wl[i + 1]}

\* The loop leaves at the first of them.
IsFirst(i, S) == i \in S /\ \A j \in S : i <= j
First(S) == CHOOSE i \in S : IsFirst(i, S)

\* nk[n / 2] counts from zero, nk(n/2 + 1) and nk(round(end/2)) from one.
Middle(lang, n) == IF lang = "matlab" THEN (n + 1) \div 2 ELSE n \div 2 + 1

Inside(wl, x) == Len(wl) >= 3 /\ wl[1] < x /\ x < wl[Len(wl)]

\* The samples that enter the result.
Interp(lang, wl, x) ==
  IF Len(wl) < 3 \/ x <= wl[1] THEN {1}
  ELSE IF x >= wl[Len(wl)] THEN {Len(wl)}
  ELSE LET i == First(Window(wl, x)) IN
       IF Window(wl, x) = {} THEN {Middle(lang, Len(wl))} ELSE {i - 1, i, i + 1}

(***************************************************************************)
(* What a caller may expect.                                               *)
(***************************************************************************)
\* The samples a value between the ends comes from: three neighbours, the outer
\* ones on either side of x.
Encloses(samples, wl, x) ==
  \E i \in 2 .. Len(wl) - 1 :
    samples = {i - 1, i, i + 1} /\ wl[i - 1] <= x /\ x <= wl[i + 1]

Sorted(wl) == \A i, j \in 1 .. Len(wl) : i <= j => wl[i] <= wl[j]
================================================================================
