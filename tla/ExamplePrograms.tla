---------------------------- MODULE ExamplePrograms ----------------------------
(***************************************************************************)
(* The five example programs in four languages (examples/c, csharp,        *)
(* fortran, matlab) as sequences of operations, for ExampleSweep to run.   *)
(*                                                                         *)
(* An operation [do, to, n, from] makes the call `do' of the C ABI, reads  *)
(* the variables `from' and writes the variable `to'.  `n' is the pass it  *)
(* belongs to: Example 2 makes two in each sample.  The variable "built"   *)
(* stands for the layers of the stack the program holds.                   *)
(***************************************************************************)
EXTENDS Integers, Sequences

Language == {"c", "csharp", "fortran", "matlab"}
Example == {"absorption", "reflection", "transmission", "ellipsometry", "resonance"}
Pass == {1, 2}

Variable == {"built", "nk", "layers", "dir", "tmm", "tmm_s", "tmm_p", "iface",
             "applied", "t", "list", "pos", "found", "phase", "power", "absorbed", "field"}

Op(do, to, n, from) == [do |-> do, to |-> to, n |-> n, from |-> from]

Create == Op("create", "built", 1, {})
AddLayers(from) == Op("add_layer", "built", 1, {"built"} \cup from)  \* all of them
GetLayers(from) == Op("get_layer", "layers", 1, {"built"} \cup from)
GetHandle == Op("getHandle", "none", 1, {})
Destroy == Op("destroy", "none", 1, {})
Interpolate == Op("interp_nk_quadratic", "nk", 1, {})
Direction(pass) == Op("propagate_direction", "dir", pass, {"built"})
LastS(v, pass) == Op("last_matrix_s", v, pass, {"built", "dir"})
LastP(v, pass) == Op("last_matrix_p", v, pass, {"built", "dir"})
Ellipsometric == Op("ellipsometric_psi_delta", "power", 1, {"built"})
Numbers(do, to, pass, from) == Op(do, to, pass, from)
Results(pass, from) == Op("store", "none", pass, from)
Store(pass) == Results(pass, {"power"})
Write(curves) == Op("write", "none", curves, {})

\* What comes before the sweep, one sample, and what comes after the sweep.
Program(before, sample, after) ==
  [before |-> before, sample |-> sample, after |-> after]

(***************************************************************************)
(* Example 1: the field at each depth.  `handle' is MATLAB's GetHandle.    *)
(***************************************************************************)
Amplitudes ==
  <<Direction(1),
    Op("interface_transfer_matrix_p", "iface", 1, {"built", "dir"}),
    Op("apply_multilayer_effect", "applied", 1, {"iface"}),
    Numbers("get_r_t_from_tmm", "t", 1, {"applied"}),
    Op("mat_vec", "list", 1, {"iface", "t"}),
    Op("get_structure_pos", "pos", 1, {"built"})>>

AtDepth ==
  <<Op("find_in_structure", "found", 1, {"pos"}),
    Op("propagate_matrix_to_depth", "phase", 1, {"built", "dir", "found"})>>

Poynting(given) == Numbers("get_poynting_vector_p", "power", 1,
                           {"dir", "found", "phase", "list"} \cup given)
Absorbed == Op("get_absorbed_energy_density_p", "absorbed", 1,
               {"built", "dir", "found", "phase", "list"})
Field == Numbers("get_e_field_p", "field", 1, {"dir", "found", "phase", "list"})

Evaluated ==
  AtDepth \o <<GetLayers({"found"}), Poynting({"layers"}), Absorbed, Field,
               Results(1, {"power", "absorbed", "field"})>>

AbsorptionC ==
  Program(<<Create, AddLayers({})>> \o Amplitudes, Evaluated, <<Write(2), Write(3), Destroy>>)
AbsorptionCSharp ==
  Program(<<Create, AddLayers({})>> \o Amplitudes, Evaluated, <<Write(2), Write(3), Destroy>>)
AbsorptionFortran ==
  Program(<<Create, AddLayers({})>> \o Amplitudes, Evaluated, <<Write(2), Write(3)>>)
AbsorptionMatlab ==
  Program(<<Create, AddLayers({}), GetHandle>> \o Amplitudes,
          AtDepth \o <<Poynting({}), Absorbed, Results(1, {"power", "absorbed"})>>,
          <<Write(2)>>)

(***************************************************************************)
(* Example 2: normal incidence into the variable `first', then 45 degrees; *)
(* `given' are the locals with the outer layers.                           *)
(***************************************************************************)
TwoAngles(first, given) ==
  <<Direction(1), LastS(first, 1),
    Numbers("get_r_t_power_s", "power", 1, {"dir", first} \cup given), Store(1),
    Direction(2), LastS("tmm_s", 2), LastP("tmm_p", 2),
    Numbers("get_unpolarized_r_t_power", "power", 2,
            {"dir", "tmm_s", "tmm_p"} \cup given), Store(2)>>

ReflectionC ==
  Program(<<Create, AddLayers({}), GetLayers({})>>, TwoAngles("tmm", {"layers"}),
          <<Write(2), Destroy>>)
ReflectionCSharp ==
  Program(<<Create, AddLayers({}), GetLayers({})>>, TwoAngles("tmm", {"layers"}),
          <<Write(2), Destroy>>)
ReflectionFortran ==
  Program(<<Create, AddLayers({}), GetLayers({})>>, TwoAngles("tmm_s", {"layers"}),
          <<Write(2)>>)
ReflectionMatlab ==
  Program(<<Create, AddLayers({}), GetHandle>>, TwoAngles("tmm_s", {}), <<Write(2)>>)

(***************************************************************************)
(* Example 3: a new stack in each sample, with a layer interpolated for    *)
(* its wavelength.                                                         *)
(***************************************************************************)
NewStack == <<Create, Interpolate, AddLayers({"nk"})>>
PowerS(given) ==
  <<Numbers("get_r_t_power_s", "power", 1, {"dir", "tmm"} \cup given), Store(1)>>
Transmitted == <<Direction(1), LastS("tmm", 1), GetLayers({})>> \o PowerS({"layers"})

\* Mutant: the stack of a sample is not destroyed.
TransmissionCLeaks == Program(<<>>, NewStack \o Transmitted, <<Write(1)>>)

TransmissionC == Program(<<>>, NewStack \o Transmitted \o <<Destroy>>, <<Write(1)>>)
TransmissionCSharp == Program(<<>>, NewStack \o Transmitted \o <<Destroy>>, <<Write(1)>>)
TransmissionFortran == Program(<<>>, NewStack \o Transmitted, <<Write(1)>>)

\* Mutant: the handle is not fetched again for the new stack.
TransmissionMatlabKeepsHandle ==
  Program(<<>>, NewStack \o <<Direction(1), LastS("tmm", 1)>> \o PowerS({}), <<Write(1)>>)

TransmissionMatlab ==
  Program(<<>>, NewStack \o <<GetHandle, Direction(1), LastS("tmm", 1)>> \o PowerS({}),
          <<Write(1)>>)

(***************************************************************************)
(* Example 4: a new stack in each sample, with a layer of its thickness.   *)
(***************************************************************************)
\* Mutant: the stack is made once, and each sample adds its layers to it.
EllipsometryCOneStack ==
  Program(<<Create>>, <<AddLayers({}), Ellipsometric, Store(1)>>, <<Write(2), Destroy>>)

EllipsometryC ==
  Program(<<Create>>, <<Destroy, Create, AddLayers({}), Ellipsometric, Store(1)>>,
          <<Write(2), Destroy>>)
EllipsometryCSharp ==
  Program(<<>>, <<Create, AddLayers({}), Ellipsometric, Store(1), Destroy>>, <<Write(2)>>)
EllipsometryFortran ==
  Program(<<Create>>, <<Destroy, Create, AddLayers({}), Ellipsometric, Store(1)>>,
          <<Write(2)>>)
EllipsometryMatlab ==
  Program(<<>>, <<Create, AddLayers({}), GetHandle, Ellipsometric, Store(1)>>, <<Write(2)>>)

(***************************************************************************)
(* Example 5: the outer angles are corrected before their use.             *)
(***************************************************************************)
OneAngle(given) ==
  <<Direction(1), Numbers("apply_spr_effect", "dir", 1, {"dir"} \cup given),
    LastP("tmm", 1),
    Numbers("get_r_t_power_p", "power", 1, {"dir", "tmm"} \cup given), Store(1)>>

ResonanceC ==
  Program(<<Create, AddLayers({}), GetLayers({})>>, OneAngle({"layers"}),
          <<Write(2), Destroy>>)
ResonanceCSharp ==
  Program(<<Create, AddLayers({}), GetLayers({})>>, OneAngle({"layers"}),
          <<Write(2), Destroy>>)
ResonanceFortran ==
  Program(<<Create, AddLayers({}), GetLayers({})>>, OneAngle({"layers"}), <<Write(2)>>)
ResonanceMatlab ==
  Program(<<Create, AddLayers({}), GetHandle>>, OneAngle({}), <<Write(2)>>)

Script(e, l) ==
  [absorption |-> [c |-> AbsorptionC, csharp |-> AbsorptionCSharp,
                   fortran |-> AbsorptionFortran, matlab |-> AbsorptionMatlab],
   reflection |-> [c |-> ReflectionC, csharp |-> ReflectionCSharp,
                   fortran |-> ReflectionFortran, matlab |-> ReflectionMatlab],
   transmission |-> [c |-> TransmissionC, csharp |-> TransmissionCSharp,
                     fortran |-> TransmissionFortran, matlab |-> TransmissionMatlab],
   ellipsometry |-> [c |-> EllipsometryC, csharp |-> EllipsometryCSharp,
                     fortran |-> EllipsometryFortran, matlab |-> EllipsometryMatlab],
   resonance |-> [c |-> ResonanceC, csharp |-> ResonanceCSharp,
                  fortran |-> ResonanceFortran, matlab |-> ResonanceMatlab]]
  [e][l]

\* The variables that are set before the loop and used inside it: what a C program
\* declares outside its loop, and the layers of the stack.
Outer(e) ==
  {"built"}
  \cup (IF e \in {"reflection", "resonance"} THEN {"layers"} ELSE {})
  \cup (IF e = "absorption" THEN {"dir", "iface", "applied", "t", "list", "pos"} ELSE {})

(***************************************************************************)
(* The CSV writers: how many separators they put into the header and into  *)
(* each row, for a number of curves next to the first column.              *)
(***************************************************************************)
CommasC(curves) == [header |-> curves, row |-> curves]
CommasCSharp(curves) == [header |-> curves, row |-> curves]
CommasMatlab(curves) == [header |-> curves, row |-> curves]

\* write_csv_2col writes its rows with the format '(ES23.15,ES23.15)'.
CommasFortran(curves) ==
  [header |-> curves, row |-> IF curves = 1 THEN 0 ELSE curves]

Commas(l, curves) ==
  [c |-> CommasC(curves), csharp |-> CommasCSharp(curves),
   fortran |-> CommasFortran(curves), matlab |-> CommasMatlab(curves)][l]
================================================================================
