---------------------------- MODULE MCExampleSweep -----------------------------
(***************************************************************************)
(* ExampleSweep for TLC: three samples, two addresses for the stacks, so   *)
(* that a new stack may get the address of an old one, failures in two of  *)
(* the samples, two scripts in a MATLAB session, and the table of Example  *)
(* 3 in units of 50 nm.                                                    *)
(***************************************************************************)
EXTENDS ExampleSweep, TLC

MCSymmetry == Permutations(Object)
MCTable == <<4, 6, 8, 10, 15>>

\* A matrix, a number or an array of angles that came out of the gateway goes back
\* in as it was, and the scripts find its elements in their places.
GatewayAssumption ==
  LET Complex == (0 .. 1) \X (0 .. 1) IN
  /\ \A m \in [Rows -> [Rows -> Complex]] :
       /\ MatrixFromMx(MatrixToMx(m)) = m
       /\ \A r, c \in Rows : ScriptElement(MatrixToMx(m), r + 1, c + 1) = m[r][c]
  /\ \A n \in 0 .. 4 : \A angles \in [1 .. n -> Complex] :
       AnglesFromMx(AnglesToMx(angles), 3) = IF n > 3 THEN "error" ELSE angles

ASSUME GatewayChecked == GatewayAssumption
================================================================================
