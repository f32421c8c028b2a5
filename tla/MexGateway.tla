------------------------------- MODULE MexGateway -------------------------------
(***************************************************************************)
(* optics_tmm_mex (bindings/matlab): the one function through which MATLAB *)
(* reaches the C ABI.  It takes a command string and untyped arguments,    *)
(* checks how many there are (not for every command), and reads each as    *)
(* what the command expects in that place.                                 *)
(*                                                                         *)
(* The commands of the example programs are compared with what LayerStack  *)
(* and the scripts pass.  An argument is abstracted to its kind.           *)
(***************************************************************************)
EXTENDS Integers, Sequences

Command == {"create", "destroy", "add_layer", "propagate_direction", "last_matrix_s",
            "last_matrix_p", "interface_transfer_matrix_p", "apply_multilayer_effect",
            "get_structure_pos", "find_in_structure", "propagate_matrix_to_depth",
            "get_r_t_from_tmm", "get_r_t_power_s", "get_r_t_power_p",
            "get_unpolarized_r_t_power", "apply_spr_effect", "get_poynting_vector_p",
            "get_absorbed_energy_density_p", "ellipsometric_psi_delta"}

\* The fewest arguments a command accepts, the command string included, the kinds
\* it reads after the string, and how many results it has.
Takes(needs, kinds, outs) == [needs |-> needs, kinds |-> kinds, outs |-> outs]
Numbers4 == <<"number", "number", "number", "number">>
OfStack(kinds) == <<"stack">> \o kinds

\* ptr_from_mx and ptr_to_mx.
StackCommands ==
  [create |-> Takes(1, <<>>, 1),
   destroy |-> Takes(2, OfStack(<<>>), 0),
   add_layer |-> Takes(5, OfStack(<<"number", "number", "number">>), 0),
   propagate_direction |-> Takes(3, OfStack(<<"number">>), 1)]

\* angles_from_mx and matrix_to_mx.
MatrixCommands ==
  [last_matrix_s |-> Takes(4, OfStack(<<"angles", "number">>), 1),
   last_matrix_p |-> Takes(4, OfStack(<<"angles", "number">>), 1),
   interface_transfer_matrix_p |-> Takes(4, OfStack(<<"angles", "number">>), 1),
   apply_multilayer_effect |-> Takes(2, <<"cell">>, 1)]

\* get_structure_pos reads its argument without looking whether there is one.
DepthCommands ==
  [get_structure_pos |-> Takes(1, OfStack(<<>>), 1),
   find_in_structure |-> Takes(3, <<"positions", "number">>, 2),
   propagate_matrix_to_depth |->
     Takes(6, OfStack(<<"angles", "number", "number", "number">>), 1)]

\* So do get_r_t_from_tmm and apply_spr_effect.
NumberCommands ==
  [get_r_t_from_tmm |-> Takes(1, <<"matrix">>, 2),
   get_r_t_power_s |-> Takes(6, <<"matrix">> \o Numbers4, 2),
   get_r_t_power_p |-> Takes(6, <<"matrix">> \o Numbers4, 2),
   get_unpolarized_r_t_power |-> Takes(7, <<"matrix", "matrix">> \o Numbers4, 2),
   apply_spr_effect |-> Takes(1, <<"number", "number">>, 1)]

\* Mutant: the handle is read where the angles are.
FieldCommandsSwapped ==
  [get_poynting_vector_p |-> Takes(7, <<"number", "number">> \o Numbers4, 1),
   get_absorbed_energy_density_p |->
     Takes(7, <<"number", "number", "number", "stack", "angles", "number">>, 1),
   ellipsometric_psi_delta |-> Takes(4, OfStack(<<"number", "number">>), 2)]

FieldCommands ==
  [get_poynting_vector_p |-> Takes(7, <<"number", "number">> \o Numbers4, 1),
   get_absorbed_energy_density_p |->
     Takes(7, <<"number", "number", "number", "angles", "stack", "number">>, 1),
   ellipsometric_psi_delta |-> Takes(4, OfStack(<<"number", "number">>), 2)]

Gateway(cmd) ==
  IF cmd \in DOMAIN StackCommands THEN StackCommands[cmd]
  ELSE IF cmd \in DOMAIN MatrixCommands THEN MatrixCommands[cmd]
  ELSE IF cmd \in DOMAIN DepthCommands THEN DepthCommands[cmd]
  ELSE IF cmd \in DOMAIN NumberCommands THEN NumberCommands[cmd]
  ELSE FieldCommands[cmd]

\* What a caller passes after the command string, and how many results it wants.
Passes(kinds, wants) == [kinds |-> kinds, wants |-> wants]

\* LayerStack.m.
FromLayerStack ==
  [create |-> Passes(<<>>, 1),
   destroy |-> Passes(OfStack(<<>>), 0),
   add_layer |-> Passes(OfStack(<<"number", "number", "number">>), 0)]

\* Example 1.
FromDepthScript ==
  [interface_transfer_matrix_p |-> Passes(OfStack(<<"angles", "number">>), 1),
   apply_multilayer_effect |-> Passes(<<"cell">>, 1),
   get_r_t_from_tmm |-> Passes(<<"matrix">>, 2),
   get_structure_pos |-> Passes(OfStack(<<>>), 1),
   find_in_structure |-> Passes(<<"positions", "number">>, 2),
   propagate_matrix_to_depth |->
     Passes(OfStack(<<"angles", "number", "number", "number">>), 1),
   get_poynting_vector_p |-> Passes(<<"number", "number">> \o Numbers4, 1),
   get_absorbed_energy_density_p |->
     Passes(<<"number", "number", "number", "angles", "stack", "number">>, 1)]

\* Examples 2 to 5.
FromSweepScripts ==
  [propagate_direction |-> Passes(OfStack(<<"number">>), 1),
   last_matrix_s |-> Passes(OfStack(<<"angles", "number">>), 1),
   last_matrix_p |-> Passes(OfStack(<<"angles", "number">>), 1),
   get_r_t_power_s |-> Passes(<<"matrix">> \o Numbers4, 2),
   get_unpolarized_r_t_power |-> Passes(<<"matrix", "matrix">> \o Numbers4, 1),
   get_r_t_power_p |-> Passes(<<"matrix">> \o Numbers4, 2),
   apply_spr_effect |-> Passes(<<"number", "number">>, 1),
   ellipsometric_psi_delta |-> Passes(OfStack(<<"number", "number">>), 2)]

Passed(cmd) ==
  IF cmd \in DOMAIN FromLayerStack THEN FromLayerStack[cmd]
  ELSE IF cmd \in DOMAIN FromDepthScript THEN FromDepthScript[cmd]
  ELSE FromSweepScripts[cmd]

(***************************************************************************)
(* The arguments themselves.  A complex number is a pair, and a MATLAB     *)
(* array of numbers has an imaginary part only when it is complex.  MATLAB *)
(* stores a matrix by columns, the C ABI by rows; element (r, c) counted   *)
(* from one is M(r, c) in the scripts.                                     *)
(***************************************************************************)
Rows == 0 .. 1

MatrixToMx(m) == [k \in 0 .. 3 |-> m[k % 2][k \div 2]]
MatrixFromMx(a) == [r \in Rows |-> [c \in Rows |-> a[r + c * 2]]]
ScriptElement(a, r, c) == a[(c - 1) * 2 + (r - 1)]

ComplexFromMx(a) == IF a.complex THEN <<a.re, a.im>> ELSE <<a.re, 0>>
ComplexToMx(z) == [complex |-> TRUE, re |-> z[1], im |-> z[2]]

\* Angles travel through a local array of 16; more are an error.
AnglesFromMx(a, cap) == IF Len(a) > cap THEN "error" ELSE [k \in 1 .. Len(a) |-> ComplexFromMx(a[k])]
AnglesToMx(angles) == [k \in 1 .. Len(angles) |-> ComplexToMx(angles[k])]

(***************************************************************************)
(* What becomes of a call: rejected for its number of arguments, or for a  *)
(* result it does not have; led astray by an argument of another kind, or  *)
(* none; or passed on to the C ABI.                                        *)
(***************************************************************************)
Rejects(g, p) == Len(p.kinds) + 1 < g.needs \/ p.wants > g.outs

Understands(g, p) ==
  Len(g.kinds) <= Len(p.kinds) /\ \A k \in 1 .. Len(g.kinds) : g.kinds[k] = p.kinds[k]

Passage(g, p) ==
  IF Rejects(g, p) THEN "aborted" ELSE IF Understands(g, p) THEN "running" ELSE "undefined"
================================================================================
