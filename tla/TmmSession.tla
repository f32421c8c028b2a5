------------------------------- MODULE TmmSession -------------------------------
(***************************************************************************)
(* A client working with layer stacks through the TMM part of the C ABI    *)
(* (src/c/optics_tmm.cpp): the stack operations, the calls that fill a     *)
(* caller's array through an in/out element count, and the calls that      *)
(* combine arrays obtained earlier with the stack as it is by now.         *)
(*                                                                         *)
(* The numbers are abstracted to where they come from: an array remembers  *)
(* the stack it was computed from and the layers the stack had then, and   *)
(* matrices whether they are those of the interfaces or products of them.  *)
(*                                                                         *)
(* A call that reads outside a vector is undefined behaviour: the model    *)
(* records it in `last' and stops there.                                   *)
(***************************************************************************)
EXTENDS Integers, Sequences

CONSTANTS Stack,      \* the LayerStackImpl objects a run may create
          Layer,      \* the materials a layer may have
          Null,       \* the null handle
          Cap,        \* elements in each of the caller's arrays
          MaxLayers   \* bound on the layers of one stack, for model checking

ASSUME NullAssumption == Null \notin Stack
ASSUME SizeAssumption == Cap \in Nat \ {0} /\ MaxLayers \in Nat

VARIABLES phase,    \* of each stack: "unborn", "live" or "dead"
          layers,   \* LayerStackImpl::layers
          dir,      \* the caller's array of propagation angles
          mats,     \* the caller's array of interface matrices
          kind,     \* what the matrices in it are
          pos,      \* the caller's array of layer positions
          found,    \* the result of the latest find_in_structure
          last      \* the latest call: what, on which handle, with what status

vars == <<phase, layers, dir, mats, kind, pos, found, last>>

Source == [of : Stack \cup {Null}, snap : Seq(Layer)]
NoSource == [of |-> Null, snap |-> <<>>]

Handle == {s \in Stack : phase[s] = "live"} \cup {Null}

Done(op, h, st) == last' = [op |-> op, stack |-> h, status |-> st]
Defined == last.status # "UNDEFINED"

(***************************************************************************)
(* The caller's arrays.  `n' is the caller's count variable, passed by     *)
(* address; `src' is what the library last wrote into the array; `valid'   *)
(* says that the latest call on the array returned OK.  A caller sets the  *)
(* count to the full capacity before the call ("full"), as the bindings    *)
(* do, or leaves in it what the previous call left ("left"); the pointer   *)
(* to the array ("no array") or to the count ("no count") may be null.     *)
(***************************************************************************)
EmptyArray == [src |-> NoSource, n |-> Cap, valid |-> FALSE]

Argument == {"full", "left", "no array", "no count"}

Offered(array, a) == IF a = "full" THEN Cap ELSE array.n

\* Mutant: the comparison is off by one.
AcceptsOneMore(array, a, size) ==
  size <= Offered(array, a) + 1 /\ a \notin {"no array", "no count"}

\* require_buffer, then the null check: both reject with INVALID_ARG.
Accepts(array, a, size) ==
  size <= Offered(array, a) /\ a \notin {"no array", "no count"}

\* Mutant: the last index is returned in place of the count.
FilledLastIndex(array, a, source, size) ==
  [src |-> source, n |-> size - 1, valid |-> TRUE]

Filled(array, a, source, size) == [src |-> source, n |-> size, valid |-> TRUE]

Rejected(array, a) ==
  [src |-> array.src, n |-> Offered(array, a), valid |-> FALSE]

(***************************************************************************)
(* The layer stack.                                                        *)
(***************************************************************************)
Create(s) ==
  /\ phase[s] = "unborn"
  /\ phase' = [phase EXCEPT ![s] = "live"]
  /\ Done("create", s, "OK")
  /\ UNCHANGED <<layers, dir, mats, kind, pos, found>>

AddLayer(h, layer) ==
  /\ h # Null
  /\ Len(layers[h]) < MaxLayers
  /\ layers' = [layers EXCEPT ![h] = Append(@, layer)]
  /\ Done("add_layer", h, "OK")
  /\ UNCHANGED <<phase, dir, mats, kind, pos, found>>

AddLayerFails(h) ==
  /\ Done("add_layer", h, IF h = Null THEN "INVALID_ARG" ELSE "OUT_OF_MEMORY")
  /\ UNCHANGED <<phase, layers, dir, mats, kind, pos, found>>

\* Mutant: the last layer is rejected.
GetLayerButLast(h) ==
  /\ Done("get_layer", h, IF h # Null /\ found.index < Len(layers[h]) - 1
                          THEN "OK" ELSE "INVALID_ARG")
  /\ UNCHANGED <<phase, layers, dir, mats, kind, pos, found>>

\* The index is checked here, against the stack as it is by now.
GetLayer(h) ==
  /\ Done("get_layer", h, IF h # Null /\ found.index < Len(layers[h])
                          THEN "OK" ELSE "INVALID_ARG")
  /\ UNCHANGED <<phase, layers, dir, mats, kind, pos, found>>

Destroy(s) ==
  /\ phase[s] = "live"
  /\ phase' = [phase EXCEPT ![s] = "dead"]
  /\ Done("destroy", s, "OK")
  /\ UNCHANGED <<layers, dir, mats, kind, pos, found>>

(***************************************************************************)
(* The calls that fill an array.  Each works on a copy of the layers, and  *)
(* allocates all it needs before it writes the first element.              *)
(***************************************************************************)
DirectionAccepted(h, a) ==
  h # Null /\ layers[h] # <<>> /\ Accepts(dir, a, Len(layers[h]))

PropagateDirection(h, a) ==
  /\ \/ /\ DirectionAccepted(h, a)
        /\ dir' = Filled(dir, a, [of |-> h, snap |-> layers[h]], Len(layers[h]))
        /\ Done("propagate_direction", h, "OK")
     \/ /\ ~DirectionAccepted(h, a)
        /\ dir' = Rejected(dir, a)
        /\ Done("propagate_direction", h, "INVALID_ARG")
     \/ /\ h # Null
        /\ dir' = Rejected(dir, a)
        /\ Done("propagate_direction", h, "OUT_OF_MEMORY")
  /\ UNCHANGED <<phase, layers, mats, kind, pos, found>>

\* One matrix per interface, that is between neighbouring layers (external).
Interfaces(snap) == Len(snap) - 1

\* Mutant: the size check rejects only more angles than layers.
DirMatchesAtMost(h) == dir.n <= Len(layers[h])

\* The only thing checked of the angles is how many there are.
DirMatches(h) == dir.n = Len(layers[h])

MatricesAccepted(h, a) ==
  h # Null /\ DirMatches(h) /\ Accepts(mats, a, Interfaces(layers[h]))

\* The functions with_thickness return the products of the matrices before them.
Kind == {"interface", "product"}

InterfaceTransferMatrix(h, a) ==
  /\ \/ /\ MatricesAccepted(h, a)
        /\ mats' = Filled(mats, a, [of |-> h, snap |-> layers[h]], Interfaces(layers[h]))
        /\ kind' \in Kind
        /\ Done("interface_transfer_matrix", h, "OK")
     \/ /\ ~MatricesAccepted(h, a)
        /\ mats' = Rejected(mats, a) /\ UNCHANGED kind
        /\ Done("interface_transfer_matrix", h, "INVALID_ARG")
     \/ /\ h # Null
        /\ mats' = Rejected(mats, a) /\ UNCHANGED kind
        /\ Done("interface_transfer_matrix", h, "OUT_OF_MEMORY")
  /\ UNCHANGED <<phase, layers, dir, pos, found>>

\* Multiplying products once more gives neither.
Multiplied == CASE kind = "interface" -> "product"
                [] kind = "none" -> "none"
                [] OTHER -> "other"

\* A null array is accepted only with a count of zero.
NullMatrices(a) == a = "no array" /\ mats.n > 0

\* Mutant: the matrices are multiplied in the caller's array, not in a copy.
ApplyMultilayerEffectInPlace(a) ==
  /\ \/ /\ kind' = Multiplied
        /\ \E st \in {"OK", "OUT_OF_MEMORY"} : Done("apply_multilayer_effect", Null, st)
     \/ /\ NullMatrices(a)
        /\ Done("apply_multilayer_effect", Null, "INVALID_ARG")
        /\ UNCHANGED kind
  /\ UNCHANGED <<phase, layers, dir, mats, pos, found>>

\* The matrices the caller has are replaced by their products, from a copy. The
\* count is passed by value.
ApplyMultilayerEffect(a) ==
  /\ \/ /\ ~NullMatrices(a)
        /\ kind' = Multiplied
        /\ Done("apply_multilayer_effect", Null, "OK")
     \/ /\ NullMatrices(a)
        /\ Done("apply_multilayer_effect", Null, "INVALID_ARG")
        /\ UNCHANGED kind
     \/ /\ ~NullMatrices(a)
        /\ Done("apply_multilayer_effect", Null, "OUT_OF_MEMORY")
        /\ UNCHANGED kind
  /\ UNCHANGED <<phase, layers, dir, mats, pos, found>>

\* One position per layer (external); an empty stack has none, and is accepted.
PositionsAccepted(h, a) == h # Null /\ Accepts(pos, a, Len(layers[h]))

GetStructurePos(h, a) ==
  /\ \/ /\ PositionsAccepted(h, a)
        /\ pos' = Filled(pos, a, [of |-> h, snap |-> layers[h]], Len(layers[h]))
        /\ Done("get_structure_pos", h, "OK")
     \/ /\ ~PositionsAccepted(h, a)
        /\ pos' = Rejected(pos, a)
        /\ Done("get_structure_pos", h, "INVALID_ARG")
     \/ /\ h # Null
        /\ pos' = Rejected(pos, a)
        /\ Done("get_structure_pos", h, "OUT_OF_MEMORY")
  /\ UNCHANGED <<phase, layers, dir, mats, kind, found>>

(***************************************************************************)
(* The calls that use what earlier calls returned.                         *)
(***************************************************************************)
\* The layer a depth falls into, counted from zero (external).
FoundIndices == {i \in 0 .. Cap : i < pos.n}

FindInStructure ==
  /\ \E i \in FoundIndices :
       found' = [index |-> i, of |-> pos.src.of, valid |-> pos.valid]
  /\ Done("find_in_structure", Null, "OK")
  /\ UNCHANGED <<phase, layers, dir, mats, kind, pos>>

DepthRead == {"propagate_matrix_to_depth", "absorbed_energy_density"}
WholeStack == {"ellipsometric_psi_delta", "forward_backward_at_depth"}

\* The calls with output arguments that copy their inputs first.
Copying == DepthRead \cup WholeStack \cup {"find_in_structure"}

\* These take the angles and the index as they come: the core library reads
\* dir[index] and nk[index] (external), and nothing is checked on the way.
ReadAtDepth(op, h) ==
  /\ h # Null
  /\ Done(op, h, IF found.index < dir.n /\ found.index < Len(layers[h])
                 THEN "OK" ELSE "UNDEFINED")
  /\ UNCHANGED <<phase, layers, dir, mats, kind, pos, found>>

PropagateMatrixToDepth(h) == ReadAtDepth("propagate_matrix_to_depth", h)

\* get_absorbed_energy_density_s and _p.
AbsorbedEnergyDensity(h) == ReadAtDepth("absorbed_energy_density", h)

\* tmm_last_matrix_s/p and their bindings: element n - 1 of an accepted array.
LastMatrix ==
  /\ mats.valid
  /\ Done("last_matrix", mats.src.of, IF mats.n = 0 THEN "UNDEFINED" ELSE "OK")
  /\ UNCHANGED <<phase, layers, dir, mats, kind, pos, found>>

\* These make their own arrays and take the last matrix, without asking whether
\* there is one.
WholeStackCall(op, h) ==
  /\ h # Null
  /\ Done(op, h, IF Len(layers[h]) <= 1 THEN "UNDEFINED" ELSE "OK")
  /\ UNCHANGED <<phase, layers, dir, mats, kind, pos, found>>

EllipsometricPsiDelta(h) == WholeStackCall("ellipsometric_psi_delta", h)

\* compute_forward_backward_at_depth.
ForwardBackwardAtDepth(h) == WholeStackCall("forward_backward_at_depth", h)

\* The functions from r and t to the Poynting vector: numbers in, numbers out.
NumberFunction ==
  /\ Done("number_function", Null, "OK")
  /\ UNCHANGED <<phase, layers, dir, mats, kind, pos, found>>

\* A null stack, a null argument or output, or an unknown polarisation.
Refused(op) ==
  /\ Done(op, Null, "INVALID_ARG")
  /\ UNCHANGED <<phase, layers, dir, mats, kind, pos, found>>

\* The copy of the layers, of the angles or of the positions cannot be made, or an
\* array of the core library.
OutOfMemory(op) ==
  /\ Done(op, Null, "OUT_OF_MEMORY")
  /\ UNCHANGED <<phase, layers, dir, mats, kind, pos, found>>

Init == /\ phase = [s \in Stack |-> "unborn"]
        /\ layers = [s \in Stack |-> <<>>]
        /\ dir = EmptyArray /\ mats = EmptyArray /\ pos = EmptyArray
        /\ kind = "none"
        /\ found = [index |-> 0, of |-> Null, valid |-> FALSE]
        /\ last = [op |-> "none", stack |-> Null, status |-> "OK"]

Next ==
  /\ Defined
  /\ \/ \E s \in Stack : Create(s) \/ Destroy(s)
     \/ \E h \in Handle, layer \in Layer : AddLayer(h, layer)
     \/ \E h \in Handle, a \in Argument :
          \/ PropagateDirection(h, a)
          \/ InterfaceTransferMatrix(h, a)
          \/ GetStructurePos(h, a)
     \/ \E h \in Handle : \/ AddLayerFails(h) \/ GetLayer(h)
                          \/ PropagateMatrixToDepth(h) \/ AbsorbedEnergyDensity(h)
                          \/ EllipsometricPsiDelta(h) \/ ForwardBackwardAtDepth(h)
     \/ \E a \in {"full", "no array"} : ApplyMultilayerEffect(a)
     \/ FindInStructure \/ LastMatrix \/ NumberFunction
     \/ \E op \in Copying \cup {"get_layer", "number_function"} : Refused(op)
     \/ \E op \in Copying : OutOfMemory(op)

Spec == Init /\ [][Next]_vars
--------------------------------------------------------------------------------
(***************************************************************************)
(* Properties.                                                             *)
(***************************************************************************)
Array == [src : Source, n : Nat, valid : BOOLEAN]

\* Every variable of a session has the shape the code gives it.
TypeOK ==
  /\ phase \in [Stack -> {"unborn", "live", "dead"}]
  /\ layers \in [Stack -> Seq(Layer)]
  /\ dir \in Array /\ mats \in Array /\ pos \in Array
  /\ kind \in Kind \cup {"none", "other"}
  /\ found \in [index : Nat, of : Stack \cup {Null}, valid : BOOLEAN]
  /\ last \in [op : {"none", "create", "add_layer", "get_layer", "destroy",
                     "propagate_direction", "interface_transfer_matrix",
                     "get_structure_pos", "find_in_structure", "last_matrix",
                     "apply_multilayer_effect", "number_function"}
                      \cup DepthRead \cup WholeStack,
              stack : Stack \cup {Null},
              status : {"OK", "INVALID_ARG", "OUT_OF_MEMORY", "UNDEFINED"}]

\* The count a caller keeps next to an array, which the next call takes as its
\* capacity, never exceeds the array, whatever sequence of successful and failed
\* calls the array went through: no call can be led to write past its end.
CountWithinArray == \A array \in {dir, mats, pos} : array.n <= Cap

\* An accepted call for interface matrices never combines a stack with angles
\* of an earlier state of that stack, though the call checks only how many
\* angles there are and layers may have been added since they were computed.
AcceptedDirIsCurrent ==
  /\ last.op = "interface_transfer_matrix" /\ last.status = "OK"
  /\ dir.valid /\ dir.src.of = last.stack
  => dir.src.snap = layers[last.stack]

\* The unchecked reads at a depth stay in range as long as the angles are those
\* of the stack as it is now, even if the layer index was found in positions
\* computed before further layers were added.
DepthReadsInRange ==
  /\ last.op \in DepthRead \cup {"get_layer"}
  /\ found.valid /\ found.of = last.stack /\ last.stack # Null
  /\ dir.valid /\ dir.src = [of |-> last.stack, snap |-> layers[last.stack]]
  => last.status = "OK"

\* Taking the last matrix of an accepted array is undefined for no stack but
\* one with a single layer.
LastMatrixExists ==
  last.op = "last_matrix" /\ last.status = "UNDEFINED" => Len(mats.src.snap) = 1

\* A call that fails, at whatever point, leaves what the caller's arrays hold as it
\* was, also where it works in place: earlier results stay usable.
FailedCallKeepsResults ==
  [][last'.status \in {"INVALID_ARG", "OUT_OF_MEMORY"} =>
       /\ dir'.src = dir.src /\ mats'.src = mats.src /\ pos'.src = pos.src
       /\ UNCHANGED <<layers, kind, found>>]_vars

(***************************************************************************)
(* The inductive invariant.  Stacks only grow, so what an array was        *)
(* computed from stays a prefix of its stack; and a valid array has the    *)
(* count that belongs to its source.                                       *)
(***************************************************************************)
Prefix(a, b) == Len(a) <= Len(b) /\ \A i \in 1 .. Len(a) : a[i] = b[i]

SourceInv ==
  \A array \in {dir, mats, pos} :
    array.src.of # Null => Prefix(array.src.snap, layers[array.src.of])

ValidInv ==
  /\ dir.n > 0
  /\ dir.valid => dir.src.of # Null /\ dir.n = Len(dir.src.snap)
  /\ pos.valid => pos.src.of # Null /\ pos.n = Len(pos.src.snap)
  /\ mats.valid => mats.src.of # Null /\ mats.n = Interfaces(mats.src.snap)
  /\ found.valid => found.of # Null /\ found.index < Len(layers[found.of])

IInv == /\ TypeOK /\ CountWithinArray /\ SourceInv /\ ValidInv
        /\ AcceptedDirIsCurrent /\ DepthReadsInRange /\ LastMatrixExists
================================================================================
