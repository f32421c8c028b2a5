--------------------------- MODULE TmmSessionProofs ----------------------------
(***************************************************************************)
(* Theorems about TmmSession, for any stacks, materials, array size and    *)
(* number of layers.                                                       *)
(***************************************************************************)
EXTENDS TmmSession, SequenceTheorems, TLAPS

(***************************************************************************)
(* Prefixes.                                                               *)
(***************************************************************************)
\* A snapshot of a stack is a prefix of it, and stays one when a layer is added.
LEMMA PrefixReflexive == ASSUME NEW a \in Seq(Layer) PROVE Prefix(a, a)
BY DEF Prefix

LEMMA PrefixAppend ==
  ASSUME NEW a \in Seq(Layer), NEW b \in Seq(Layer), NEW x \in Layer, Prefix(a, b)
  PROVE  Prefix(a, Append(b, x))
BY DEF Prefix

\* A prefix as long as the whole is the whole.
LEMMA PrefixFull ==
  ASSUME NEW a \in Seq(Layer), NEW b \in Seq(Layer), Prefix(a, b), Len(a) = Len(b)
  PROVE  a = b
BY SeqEqual DEF Prefix

(***************************************************************************)
(* What a call does to an array.                                           *)
(***************************************************************************)
\* An accepted size fits the array; a rejected call leaves a count that does.
LEMMA FilledArray ==
  ASSUME NEW array \in Array, array.n <= Cap, NEW a, NEW source \in Source,
         NEW size \in Nat, Accepts(array, a, size)
  PROVE  LET f == Filled(array, a, source, size) IN
           f \in Array /\ f.n <= Cap /\ f.n = size /\ f.src = source
<1>1. array.n \in Nat /\ Cap \in Nat
  BY SizeAssumption DEF Array
<1>2. Offered(array, a) \in Nat /\ Offered(array, a) <= Cap
  BY <1>1 DEF Offered
<1>3. size <= Cap
  <2>1. size <= Offered(array, a)
    BY DEF Accepts
  <2>2. QED
    BY <1>1, <1>2, <2>1
<1>4. QED
  BY <1>3 DEF Array, Filled

LEMMA RejectedArray ==
  ASSUME NEW array \in Array, array.n <= Cap, NEW a
  PROVE  LET r == Rejected(array, a) IN
           /\ r \in Array /\ r.n <= Cap /\ r.src = array.src /\ ~r.valid
           /\ array.n > 0 => r.n > 0
BY SizeAssumption DEF Array, Offered, Rejected

\* A live handle names a stack.
LEMMA HandleType == Handle \subseteq Stack \cup {Null}
BY DEF Handle

LEMMA NullIsNoStack == \A s \in Stack : s # Null
BY NullAssumption

\* The snapshot a call takes of its stack.
LEMMA Snapshot ==
  ASSUME IInv, NEW h \in Handle, h # Null
  PROVE  /\ h \in Stack /\ layers[h] \in Seq(Layer)
         /\ [of |-> h, snap |-> layers[h]] \in Source
         /\ Prefix(layers[h], layers[h])
BY HandleType, PrefixReflexive DEF IInv, TypeOK, Source
--------------------------------------------------------------------------------
(***************************************************************************)
(* The inductive invariant, action by action.                              *)
(***************************************************************************)
LEMMA InitIInv == Init => IInv
<1> SUFFICES ASSUME Init PROVE IInv
  OBVIOUS
<1>1. EmptyArray \in Array
  BY SizeAssumption DEF EmptyArray, Array, NoSource, Source
<1>2. TypeOK
  BY <1>1 DEF Init, TypeOK
<1>3. CountWithinArray
  BY SizeAssumption DEF Init, CountWithinArray, EmptyArray
<1>4. SourceInv /\ ValidInv
  BY SizeAssumption DEF Init, SourceInv, ValidInv, EmptyArray, NoSource
<1>5. QED
  BY <1>2, <1>3, <1>4
  DEF Init, IInv, AcceptedDirIsCurrent, DepthReadsInRange, DepthRead, LastMatrixExists

\* Adding a layer keeps every source a prefix and every found index in range.
LEMMA AddLayerIInv ==
  ASSUME IInv, NEW h \in Handle, NEW layer \in Layer, AddLayer(h, layer)
  PROVE  IInv'
<1>1. h \in Stack
  BY Snapshot DEF AddLayer
<1>2. /\ layers' = [layers EXCEPT ![h] = Append(layers[h], layer)]
      /\ UNCHANGED <<phase, dir, mats, kind, pos, found>>
      /\ last' = [op |-> "add_layer", stack |-> h, status |-> "OK"]
  BY DEF AddLayer, Done
<1>3. TypeOK'
  BY <1>1, <1>2 DEF IInv, TypeOK
<1>4. CountWithinArray'
  BY <1>2 DEF IInv, CountWithinArray
<1>5. ASSUME NEW s \in Stack PROVE Len(layers[s]) <= Len(layers'[s])
  BY <1>1, <1>2 DEF IInv, TypeOK
<1>6. SourceInv'
  <2>1. SUFFICES ASSUME NEW array \in {dir, mats, pos}, array.src.of # Null
                 PROVE  Prefix(array.src.snap, layers'[array.src.of])
    BY <1>2 DEF SourceInv
  <2>2. /\ array.src.of \in Stack /\ array.src.snap \in Seq(Layer)
        /\ Prefix(array.src.snap, layers[array.src.of])
        /\ layers[array.src.of] \in Seq(Layer)
    BY <2>1 DEF IInv, TypeOK, SourceInv, Array, Source
  <2>3. CASE array.src.of = h
    BY <1>1, <1>2, <2>2, <2>3, PrefixAppend DEF IInv, TypeOK
  <2>4. CASE array.src.of # h
    BY <1>1, <1>2, <2>2, <2>4 DEF IInv, TypeOK
  <2>5. QED
    BY <2>3, <2>4
<1>7. ValidInv'
  <2>1. found.valid => found.of \in Stack /\ found.index < Len(layers[found.of])
    BY DEF IInv, TypeOK, ValidInv
  <2>2. found.valid => found.index < Len(layers'[found.of])
    BY <1>3, <1>5, <2>1 DEF IInv, TypeOK
  <2>3. QED
    BY <1>2, <2>1, <2>2 DEF IInv, ValidInv
<1>8. QED
  BY <1>2, <1>3, <1>4, <1>6, <1>7
  DEF IInv, AcceptedDirIsCurrent, DepthReadsInRange, DepthRead, LastMatrixExists

\* Filling or rejecting the angles.
LEMMA PropagateDirectionIInv ==
  ASSUME IInv, NEW h \in Handle, NEW a \in Argument, PropagateDirection(h, a)
  PROVE  IInv'
<1> USE DEF IInv
<1>1. UNCHANGED <<phase, layers, mats, kind, pos, found>>
  BY DEF PropagateDirection
<1>2. last' \in [op : {"propagate_direction"}, stack : Stack \cup {Null},
                status : {"OK", "INVALID_ARG", "OUT_OF_MEMORY"}]
  BY HandleType DEF PropagateDirection, Done
<1>3. /\ dir' \in Array /\ dir'.n <= Cap /\ dir'.n > 0
      /\ dir'.src.of # Null => Prefix(dir'.src.snap, layers[dir'.src.of])
      /\ dir'.valid => dir'.src.of # Null /\ dir'.n = Len(dir'.src.snap)
  <2>1. CASE DirectionAccepted(h, a) /\ dir' = Filled(dir, a, [of |-> h, snap |-> layers[h]], Len(layers[h]))
    <3>1. h # Null /\ layers[h] # <<>> /\ Accepts(dir, a, Len(layers[h]))
      BY <2>1 DEF DirectionAccepted
    <3>2. Len(layers[h]) \in Nat /\ Len(layers[h]) > 0
      BY <3>1, Snapshot, EmptySeq
    <3>3. QED
      BY <2>1, <3>1, <3>2, Snapshot, FilledArray DEF TypeOK, CountWithinArray, Filled
  <2>2. CASE dir' = Rejected(dir, a)
    BY <2>2, RejectedArray DEF TypeOK, CountWithinArray, SourceInv, ValidInv
  <2>3. QED
    BY <2>1, <2>2 DEF PropagateDirection
<1>4. TypeOK'
  BY <1>1, <1>2, <1>3 DEF TypeOK
<1>5. CountWithinArray' /\ SourceInv' /\ ValidInv'
  BY <1>1, <1>3 DEF CountWithinArray, SourceInv, ValidInv
<1>6. QED
  BY <1>2, <1>4, <1>5
  DEF AcceptedDirIsCurrent, DepthReadsInRange, DepthRead, LastMatrixExists

\* Filling or rejecting the matrices.
LEMMA InterfaceTransferMatrixIInv ==
  ASSUME IInv, NEW h \in Handle, NEW a \in Argument, InterfaceTransferMatrix(h, a)
  PROVE  IInv'
<1> USE DEF IInv
<1>1. UNCHANGED <<phase, layers, dir, pos, found>>
  BY DEF InterfaceTransferMatrix
<1>2. last' \in [op : {"interface_transfer_matrix"}, stack : Stack \cup {Null},
                status : {"OK", "INVALID_ARG", "OUT_OF_MEMORY"}]
  BY HandleType DEF InterfaceTransferMatrix, Done
<1>3. /\ mats' \in Array /\ mats'.n <= Cap
      /\ mats'.src.of # Null => Prefix(mats'.src.snap, layers[mats'.src.of])
      /\ mats'.valid => /\ mats'.src.of # Null
                        /\ mats'.n = Interfaces(mats'.src.snap)
  <2>1. CASE MatricesAccepted(h, a) /\ mats' = Filled(mats, a, [of |-> h, snap |-> layers[h]], Interfaces(layers[h]))
    <3>1. /\ h # Null /\ Accepts(mats, a, Interfaces(layers[h]))
          /\ dir.n = Len(layers[h])
      BY <2>1 DEF MatricesAccepted, DirMatches
    <3>2. Interfaces(layers[h]) \in Nat
      <4>1. dir.n \in Nat /\ dir.n > 0
        BY DEF ValidInv, TypeOK, Array
      <4>2. QED
        BY <3>1, <4>1 DEF Interfaces
    <3>3. QED
      BY <2>1, <3>1, <3>2, Snapshot, FilledArray DEF TypeOK, CountWithinArray, Filled
  <2>2. CASE mats' = Rejected(mats, a)
    BY <2>2, RejectedArray DEF TypeOK, CountWithinArray, SourceInv, ValidInv
  <2>3. QED
    BY <2>1, <2>2 DEF InterfaceTransferMatrix
<1>4. TypeOK'
  <2>1. kind' \in Kind \cup {"none", "other"}
    BY DEF InterfaceTransferMatrix, TypeOK
  <2>2. QED
    BY <1>1, <1>2, <1>3, <2>1 DEF TypeOK
<1>5. CountWithinArray' /\ SourceInv' /\ ValidInv'
  BY <1>1, <1>3 DEF CountWithinArray, SourceInv, ValidInv
<1>6. AcceptedDirIsCurrent'
  <2>1. SUFFICES ASSUME last'.status = "OK", dir.valid, dir.src.of = last'.stack
                 PROVE  dir.src.snap = layers[last'.stack]
    BY <1>1 DEF AcceptedDirIsCurrent
  <2>2. /\ MatricesAccepted(h, a) /\ last'.stack = h
    BY <2>1 DEF InterfaceTransferMatrix, Done
  <2>3. h # Null /\ dir.n = Len(layers[h]) /\ dir.n = Len(dir.src.snap)
    BY <2>1, <2>2 DEF MatricesAccepted, DirMatches, ValidInv
  <2>4. Prefix(dir.src.snap, layers[h]) /\ dir.src.snap \in Seq(Layer)
    BY <2>1, <2>2, <2>3 DEF SourceInv, TypeOK, Array, Source
  <2>5. QED
    BY <2>2, <2>3, <2>4, Snapshot, PrefixFull
<1>7. QED
  BY <1>2, <1>4, <1>5, <1>6 DEF DepthReadsInRange, DepthRead, LastMatrixExists

\* Filling or rejecting the positions.
LEMMA GetStructurePosIInv ==
  ASSUME IInv, NEW h \in Handle, NEW a \in Argument, GetStructurePos(h, a)
  PROVE  IInv'
<1> USE DEF IInv
<1>1. UNCHANGED <<phase, layers, dir, mats, kind, found>>
  BY DEF GetStructurePos
<1>2. last' \in [op : {"get_structure_pos"}, stack : Stack \cup {Null},
                status : {"OK", "INVALID_ARG", "OUT_OF_MEMORY"}]
  BY HandleType DEF GetStructurePos, Done
<1>3. /\ pos' \in Array /\ pos'.n <= Cap
      /\ pos'.src.of # Null => Prefix(pos'.src.snap, layers[pos'.src.of])
      /\ pos'.valid => pos'.src.of # Null /\ pos'.n = Len(pos'.src.snap)
  <2>1. CASE PositionsAccepted(h, a) /\ pos' = Filled(pos, a, [of |-> h, snap |-> layers[h]], Len(layers[h]))
    <3>1. h # Null /\ Accepts(pos, a, Len(layers[h])) /\ Len(layers[h]) \in Nat
      BY <2>1, Snapshot DEF PositionsAccepted
    <3>2. QED
      BY <2>1, <3>1, Snapshot, FilledArray DEF TypeOK, CountWithinArray, Filled
  <2>2. CASE pos' = Rejected(pos, a)
    BY <2>2, RejectedArray DEF TypeOK, CountWithinArray, SourceInv, ValidInv
  <2>3. QED
    BY <2>1, <2>2 DEF GetStructurePos
<1>4. TypeOK'
  BY <1>1, <1>2, <1>3 DEF TypeOK
<1>5. CountWithinArray' /\ SourceInv' /\ ValidInv'
  BY <1>1, <1>3 DEF CountWithinArray, SourceInv, ValidInv
<1>6. QED
  BY <1>2, <1>4, <1>5
  DEF AcceptedDirIsCurrent, DepthReadsInRange, DepthRead, LastMatrixExists

\* Looking a depth up in the positions of a stack finds a layer the stack has.
LEMMA FindInStructureIInv == ASSUME IInv, FindInStructure PROVE IInv'
<1> USE DEF IInv
<1>1. /\ UNCHANGED <<phase, layers, dir, mats, kind, pos>>
      /\ last' = [op |-> "find_in_structure", stack |-> Null, status |-> "OK"]
  BY DEF FindInStructure, Done
<1>2. PICK i \in FoundIndices :
        found' = [index |-> i, of |-> pos.src.of, valid |-> pos.valid]
  BY DEF FindInStructure
<1>3. i \in Nat /\ i < pos.n
  BY <1>2, SizeAssumption DEF FoundIndices
<1>4. found' \in [index : Nat, of : Stack \cup {Null}, valid : BOOLEAN]
  BY <1>2, <1>3 DEF TypeOK, Array, Source
<1>5. found'.valid => found'.of # Null /\ found'.index < Len(layers[found'.of])
  <2>1. SUFFICES ASSUME pos.valid
                 PROVE  pos.src.of # Null /\ i < Len(layers[pos.src.of])
    BY <1>2
  <2>2. /\ pos.src.of \in Stack /\ pos.src.of # Null /\ pos.n = Len(pos.src.snap)
        /\ pos.src.snap \in Seq(Layer) /\ layers[pos.src.of] \in Seq(Layer)
        /\ Len(pos.src.snap) <= Len(layers[pos.src.of])
    BY <2>1 DEF TypeOK, Array, Source, SourceInv, ValidInv, Prefix
  <2>3. QED
    BY <1>3, <2>2
<1>6. TypeOK'
  BY <1>1, <1>4 DEF TypeOK
<1>7. CountWithinArray' /\ SourceInv' /\ ValidInv'
  BY <1>1, <1>5 DEF CountWithinArray, SourceInv, ValidInv
<1>8. QED
  BY <1>1, <1>6, <1>7
  DEF AcceptedDirIsCurrent, DepthReadsInRange, DepthRead, LastMatrixExists

\* The calls that only read: they record their status and change nothing else.
LEMMA ReadOnlyIInv ==
  ASSUME IInv, UNCHANGED <<layers, dir, mats, pos, found>>, TypeOK',
         last'.op \notin DepthRead \cup {"interface_transfer_matrix", "get_layer",
                                      "last_matrix"}
  PROVE  IInv'
BY DEF IInv, CountWithinArray, SourceInv, ValidInv, AcceptedDirIsCurrent,
       DepthReadsInRange, DepthRead, LastMatrixExists

\* Indices found in a stack are in range of its layers and of current angles.
LEMMA DepthIInv ==
  ASSUME IInv, NEW h \in Handle, NEW op \in DepthRead,
         GetLayer(h) \/ ReadAtDepth(op, h)
  PROVE  IInv'
<1> USE DEF IInv
<1>1. /\ UNCHANGED <<phase, layers, dir, mats, kind, pos, found>>
      /\ last'.op \in DepthRead \cup {"get_layer"} /\ last'.stack = h
  BY DEF GetLayer, ReadAtDepth, Done
<1>2. TypeOK'
  BY HandleType DEF GetLayer, ReadAtDepth, Done, TypeOK
<1>3. CountWithinArray' /\ SourceInv' /\ ValidInv'
  BY <1>1 DEF CountWithinArray, SourceInv, ValidInv
<1>4. DepthReadsInRange'
  <2>1. SUFFICES ASSUME found.valid, found.of = h, h # Null, dir.valid,
                        dir.src = [of |-> h, snap |-> layers[h]]
                 PROVE  last'.status = "OK"
    BY <1>1 DEF DepthReadsInRange, DepthRead
  <2>2. found.index < Len(layers[h]) /\ dir.n = Len(layers[h])
    BY <2>1 DEF ValidInv
  <2>3. QED
    BY <2>1, <2>2 DEF GetLayer, ReadAtDepth, Done
<1>5. last'.op \notin {"interface_transfer_matrix", "last_matrix"}
  BY <1>1 DEF DepthRead
<1>6. QED
  BY <1>1, <1>2, <1>3, <1>4, <1>5 DEF AcceptedDirIsCurrent, LastMatrixExists

\* The last matrix is missing only where there is no interface.
LEMMA LastMatrixIInv == ASSUME IInv, LastMatrix PROVE IInv'
<1> USE DEF IInv
<1>1. /\ UNCHANGED <<phase, layers, dir, mats, kind, pos, found>>
      /\ last'.op = "last_matrix"
      /\ mats.valid /\ (last'.status = "UNDEFINED" => mats.n = 0)
  BY DEF LastMatrix, Done
<1>2. TypeOK'
  BY DEF LastMatrix, Done, TypeOK, Array, Source
<1>3. CountWithinArray' /\ SourceInv' /\ ValidInv'
  BY <1>1 DEF CountWithinArray, SourceInv, ValidInv
<1>4. LastMatrixExists'
  <2>1. mats.n = Len(mats.src.snap) - 1 /\ Len(mats.src.snap) \in Nat
    BY <1>1 DEF ValidInv, Interfaces, TypeOK, Array, Source
  <2>2. QED
    BY <1>1, <2>1 DEF LastMatrixExists
<1>5. QED
  BY <1>1, <1>2, <1>3, <1>4 DEF AcceptedDirIsCurrent, DepthReadsInRange, DepthRead

LEMMA NextIInv == IInv /\ [Next]_vars => IInv'
<1> SUFFICES ASSUME IInv, [Next]_vars PROVE IInv'
  OBVIOUS
<1>1. ASSUME NEW s \in Stack, Create(s) \/ Destroy(s) PROVE IInv'
  <2>1. phase' \in [Stack -> {"unborn", "live", "dead"}]
    BY <1>1 DEF Create, Destroy, IInv, TypeOK
  <2>2. /\ UNCHANGED <<layers, dir, mats, kind, pos, found>>
        /\ \E op \in {"create", "destroy"} :
             last' = [op |-> op, stack |-> s, status |-> "OK"]
    BY <1>1 DEF Create, Destroy, Done
  <2>3. TypeOK'
    BY <2>1, <2>2 DEF IInv, TypeOK
  <2>4. last'.op \in {"create", "destroy"}
    BY <2>2
  <2>5. QED
    BY <2>2, <2>3, <2>4, ReadOnlyIInv DEF DepthRead
<1>2. ASSUME NEW h \in Handle, NEW layer \in Layer, AddLayer(h, layer) PROVE IInv'
  BY <1>2, AddLayerIInv
<1>3. ASSUME NEW h \in Handle, NEW a \in Argument, PropagateDirection(h, a) PROVE IInv'
  BY <1>3, PropagateDirectionIInv
<1>4. ASSUME NEW h \in Handle, NEW a \in Argument, InterfaceTransferMatrix(h, a) PROVE IInv'
  BY <1>4, InterfaceTransferMatrixIInv
<1>5. ASSUME NEW h \in Handle, NEW a \in Argument, GetStructurePos(h, a) PROVE IInv'
  BY <1>5, GetStructurePosIInv
<1>6. ASSUME NEW h \in Handle, AddLayerFails(h) PROVE IInv'
  <2>1. TypeOK'
    BY <1>6, HandleType DEF AddLayerFails, Done, IInv, TypeOK
  <2>2. last'.op = "add_layer"
    BY <1>6 DEF AddLayerFails, Done
  <2>3. QED
    BY <1>6, <2>1, <2>2, ReadOnlyIInv DEF AddLayerFails, DepthRead
<1>7. ASSUME NEW h \in Handle, NEW op \in WholeStack, WholeStackCall(op, h) PROVE IInv'
  <2>1. TypeOK'
    BY <1>7, HandleType DEF WholeStackCall, Done, IInv, TypeOK
  <2>2. last'.op \in WholeStack
    BY <1>7 DEF WholeStackCall, Done
  <2>3. QED
    BY <1>7, <2>1, <2>2, ReadOnlyIInv DEF WholeStackCall, WholeStack, DepthRead
<1>8. ASSUME NEW op \in Copying \cup {"get_layer", "number_function"},
             Refused(op) \/ OutOfMemory(op) \/ NumberFunction
      PROVE  IInv'
  <2>1. TypeOK'
    BY <1>8 DEF Refused, OutOfMemory, NumberFunction, Copying, Done, IInv, TypeOK
  <2>2. /\ UNCHANGED <<layers, dir, mats, kind, pos, found>>
        /\ last'.op \in Copying \cup {"get_layer", "number_function"} /\ last'.stack = Null
    BY <1>8 DEF Refused, OutOfMemory, NumberFunction, Done
  <2>3. CountWithinArray' /\ SourceInv' /\ ValidInv'
    BY <2>2 DEF IInv, CountWithinArray, SourceInv, ValidInv
  <2>4. last'.op \notin {"interface_transfer_matrix", "last_matrix"}
    BY <2>2 DEF Copying, DepthRead, WholeStack
  <2>5. AcceptedDirIsCurrent' /\ DepthReadsInRange' /\ LastMatrixExists'
    BY <2>2, <2>4
    DEF AcceptedDirIsCurrent, DepthReadsInRange, DepthRead, LastMatrixExists
  <2>6. QED
    BY <2>1, <2>3, <2>5 DEF IInv
<1>9. ASSUME FindInStructure PROVE IInv'
  BY <1>9, FindInStructureIInv
<1>10. ASSUME LastMatrix PROVE IInv'
  BY <1>10, LastMatrixIInv
<1>11. ASSUME NEW h \in Handle, NEW op \in DepthRead, GetLayer(h) \/ ReadAtDepth(op, h)
       PROVE  IInv'
  BY <1>11, DepthIInv
<1>12. CASE UNCHANGED vars
  BY <1>12 DEF vars, IInv, TypeOK, CountWithinArray, SourceInv, ValidInv,
       AcceptedDirIsCurrent, DepthReadsInRange, DepthRead, LastMatrixExists
<1>13. ASSUME NEW h \in Handle,
              \/ GetLayer(h) \/ PropagateMatrixToDepth(h) \/ AbsorbedEnergyDensity(h)
              \/ EllipsometricPsiDelta(h) \/ ForwardBackwardAtDepth(h)
       PROVE  IInv'
  BY <1>7, <1>11, <1>13 DEF PropagateMatrixToDepth, AbsorbedEnergyDensity,
     EllipsometricPsiDelta, ForwardBackwardAtDepth, DepthRead, WholeStack
<1>14. ASSUME NEW a \in Argument, ApplyMultilayerEffect(a) PROVE IInv'
  <2>1. kind' \in Kind \cup {"none", "other"}
    BY <1>14 DEF ApplyMultilayerEffect, Multiplied, Kind, IInv, TypeOK
  <2>2. /\ UNCHANGED <<phase, layers, dir, mats, pos, found>>
        /\ last'.op = "apply_multilayer_effect"
        /\ last' \in [op : {"apply_multilayer_effect"}, stack : {Null},
                      status : {"OK", "INVALID_ARG", "OUT_OF_MEMORY"}]
    BY <1>14 DEF ApplyMultilayerEffect, Done
  <2>3. TypeOK'
    BY <2>1, <2>2 DEF IInv, TypeOK
  <2>4. QED
    BY <2>2, <2>3, ReadOnlyIInv DEF DepthRead
<1>15. ASSUME NumberFunction PROVE IInv'
  BY <1>8, <1>15 DEF Copying
<1>16. QED
  <2>1. \A a \in {"full", "no array"} : a \in Argument
    BY DEF Argument
  <2>2. QED
    BY <2>1, <1>1, <1>2, <1>3, <1>4, <1>5, <1>6, <1>8, <1>9, <1>10, <1>12, <1>13, <1>14,
       <1>15 DEF Next

LEMMA SpecIInv == Spec => []IInv
<1>1. QED
  BY InitIInv, NextIInv, PTL DEF Spec
--------------------------------------------------------------------------------
(***************************************************************************)
(* The properties of a session.                                            *)
(***************************************************************************)
\* Type correctness of a session.
THEOREM TypeCorrect == Spec => []TypeOK
<1>1. IInv => TypeOK
  BY DEF IInv
<1>2. QED
  BY <1>1, SpecIInv, PTL

\* The count kept next to an array never exceeds the array.
THEOREM CountsCorrect == Spec => []CountWithinArray
<1>1. IInv => CountWithinArray
  BY DEF IInv
<1>2. QED
  BY <1>1, SpecIInv, PTL

\* A stack is never combined with angles of an earlier state of itself.
THEOREM AcceptedDirCorrect == Spec => []AcceptedDirIsCurrent
<1>1. IInv => AcceptedDirIsCurrent
  BY DEF IInv
<1>2. QED
  BY <1>1, SpecIInv, PTL

\* With current angles the unchecked reads at a depth are in range.
THEOREM DepthReadsCorrect == Spec => []DepthReadsInRange
<1>1. IInv => DepthReadsInRange
  BY DEF IInv
<1>2. QED
  BY <1>1, SpecIInv, PTL

\* The last matrix is missing for single-layer stacks only.
THEOREM LastMatrixCorrect == Spec => []LastMatrixExists
<1>1. IInv => LastMatrixExists
  BY DEF IInv
<1>2. QED
  BY <1>1, SpecIInv, PTL

\* A call that fails leaves the results the caller has: each writes only once all it
\* needs has been computed in memory of its own.
THEOREM ResultsKept == Spec => FailedCallKeepsResults
<1> DEFINE Failed == last'.status \in {"INVALID_ARG", "OUT_OF_MEMORY"}
           Kept == /\ dir'.src = dir.src /\ mats'.src = mats.src /\ pos'.src = pos.src
                   /\ UNCHANGED <<layers, kind, found>>
<1>1. [Next]_vars => [Failed => Kept]_vars
  <2> SUFFICES ASSUME Next, Failed PROVE Kept
    OBVIOUS
  <2> USE DEF Done
  <2>1. ASSUME NEW s \in Stack, Create(s) \/ Destroy(s) PROVE Kept
    BY <2>1 DEF Create, Destroy
  <2>2. ASSUME NEW h \in Handle, NEW layer \in Layer, AddLayer(h, layer) PROVE Kept
    BY <2>2 DEF AddLayer
  <2>3. ASSUME NEW h \in Handle, NEW a \in Argument,
               \/ PropagateDirection(h, a)
               \/ InterfaceTransferMatrix(h, a)
               \/ GetStructurePos(h, a)
        PROVE  Kept
    BY <2>3 DEF PropagateDirection, InterfaceTransferMatrix, GetStructurePos, Rejected
  <2>4. ASSUME NEW h \in Handle,
               \/ AddLayerFails(h) \/ GetLayer(h)
               \/ PropagateMatrixToDepth(h) \/ AbsorbedEnergyDensity(h)
               \/ EllipsometricPsiDelta(h) \/ ForwardBackwardAtDepth(h)
        PROVE  Kept
    BY <2>4 DEF AddLayerFails, GetLayer, PropagateMatrixToDepth, AbsorbedEnergyDensity,
                ReadAtDepth, EllipsometricPsiDelta, ForwardBackwardAtDepth, WholeStackCall
  <2>5. ASSUME NEW a, ApplyMultilayerEffect(a) PROVE Kept
    BY <2>5 DEF ApplyMultilayerEffect
  <2>6. CASE FindInStructure \/ LastMatrix \/ NumberFunction
    BY <2>6 DEF FindInStructure, LastMatrix, NumberFunction
  <2>7. ASSUME NEW op, Refused(op) \/ OutOfMemory(op) PROVE Kept
    BY <2>7 DEF Refused, OutOfMemory
  <2>8. QED
    BY <2>1, <2>2, <2>3, <2>4, <2>5, <2>6, <2>7 DEF Next
<1>2. QED
  BY <1>1, PTL DEF Spec, FailedCallKeepsResults
--------------------------------------------------------------------------------
(***************************************************************************)
(* What a client has to observe, and what it can rely on.                  *)
(***************************************************************************)
\* The calls that read without a check, and what they are given when they fail.
Unchecked == DepthRead \cup WholeStack \cup {"last_matrix"}
UncheckedInv ==
  last.status = "UNDEFINED" =>
    /\ last.op \in Unchecked
    /\ last.op \in DepthRead \cup WholeStack => last.stack # Null
    /\ last.op \in WholeStack => Len(layers[last.stack]) <= 1

LEMMA SpecUncheckedInv == Spec => []UncheckedInv
<1>1. Init => UncheckedInv
  BY DEF Init, UncheckedInv
<1>2. UncheckedInv /\ [Next]_vars => UncheckedInv'
  <2> SUFFICES ASSUME UncheckedInv, [Next]_vars PROVE UncheckedInv'
    OBVIOUS
  <2>1. CASE UNCHANGED vars
    BY <2>1 DEF vars, UncheckedInv
  <2>2. CASE last'.status # "UNDEFINED"
    BY <2>2 DEF UncheckedInv
  <2>3. ASSUME NEW h \in Handle,
               \/ PropagateMatrixToDepth(h) \/ AbsorbedEnergyDensity(h)
               \/ EllipsometricPsiDelta(h) \/ ForwardBackwardAtDepth(h)
        PROVE  UncheckedInv'
    BY <2>3 DEF UncheckedInv, Unchecked, DepthRead, WholeStack, PropagateMatrixToDepth,
       AbsorbedEnergyDensity, ReadAtDepth, EllipsometricPsiDelta, ForwardBackwardAtDepth,
       WholeStackCall, Done
  <2>4. CASE LastMatrix
    BY <2>4 DEF UncheckedInv, Unchecked, DepthRead, WholeStack, LastMatrix, Done
  <2>5. CASE last'.status = "UNDEFINED" /\ Next
    <3> USE <2>5 DEF Done
    <3>1. ASSUME NEW s \in Stack PROVE ~Create(s) /\ ~Destroy(s)
      BY DEF Create, Destroy
    <3>2. ASSUME NEW h \in Handle, NEW layer \in Layer PROVE ~AddLayer(h, layer)
      BY DEF AddLayer
    <3>3. ASSUME NEW h \in Handle, NEW a \in Argument
          PROVE  /\ ~PropagateDirection(h, a) /\ ~InterfaceTransferMatrix(h, a)
                 /\ ~GetStructurePos(h, a)
      BY DEF PropagateDirection, InterfaceTransferMatrix, GetStructurePos
    <3>4. ASSUME NEW h \in Handle PROVE ~AddLayerFails(h) /\ ~GetLayer(h)
      BY DEF AddLayerFails, GetLayer
    <3>5. ASSUME NEW a PROVE ~ApplyMultilayerEffect(a)
      BY DEF ApplyMultilayerEffect
    <3>6. ~FindInStructure /\ ~NumberFunction
      BY DEF FindInStructure, NumberFunction
    <3>7. ASSUME NEW op PROVE ~Refused(op) /\ ~OutOfMemory(op)
      BY DEF Refused, OutOfMemory
    <3>8. QED
      BY <2>3, <2>4, <3>1, <3>2, <3>3, <3>4, <3>5, <3>6, <3>7 DEF Next
  <2>6. QED
    BY <2>1, <2>2, <2>5
<1>3. QED
  BY <1>1, <1>2, PTL DEF Spec

\* What the header's functions leave to their caller: a depth is read with an index
\* found in positions of the same stack and with the stack's present angles, and there
\* is an interface where a last matrix is taken.
Observed ==
  /\ last.op \in DepthRead =>
       /\ found.valid /\ found.of = last.stack
       /\ dir.valid /\ dir.src = [of |-> last.stack, snap |-> layers[last.stack]]
  /\ last.op \in WholeStack => Len(layers[last.stack]) > 1
  /\ last.op = "last_matrix" => Len(mats.src.snap) > 1

\* These conditions are all a client has to observe: a call that meets its own is never
\* undefined, whatever calls, failed ones included, came before it on whatever stacks,
\* though the library checks none of them.
THEOREM ObservantCallIsDefined == Spec => [](Observed => Defined)
<1>1. IInv /\ UncheckedInv => (Observed => Defined)
  <2> SUFFICES ASSUME IInv, UncheckedInv, Observed, last.status = "UNDEFINED"
               PROVE  FALSE
    BY DEF Defined
  <2>1. CASE last.op \in DepthRead
    <3>1. /\ last.op \in DepthRead \cup {"get_layer"}
          /\ last.stack # Null
      BY <2>1 DEF UncheckedInv
    <3>2. /\ found.valid /\ found.of = last.stack
          /\ dir.valid /\ dir.src = [of |-> last.stack, snap |-> layers[last.stack]]
      BY <2>1 DEF Observed
    <3>3. last.status = "OK"
      BY <3>1, <3>2 DEF IInv, DepthReadsInRange
    <3>4. QED
      BY <3>3
  <2>2. CASE last.op \in WholeStack
    <3>1. last.stack \in Stack
      BY <2>2 DEF IInv, TypeOK, UncheckedInv
    <3>2. Len(layers[last.stack]) \in Nat
      BY <3>1 DEF IInv, TypeOK
    <3>3. QED
      BY <2>2, <3>2 DEF UncheckedInv, Observed
  <2>3. CASE last.op = "last_matrix"
    <3>1. Len(mats.src.snap) = 1
      BY <2>3 DEF IInv, LastMatrixExists
    <3>2. Len(mats.src.snap) > 1
      BY <2>3 DEF Observed
    <3>3. QED
      BY <3>1, <3>2
  <2>4. QED
    BY <2>1, <2>2, <2>3 DEF UncheckedInv, Unchecked
<1>2. QED
  BY <1>1, SpecIInv, SpecUncheckedInv, PTL

\* No call takes a layer away or changes one, and no destroyed stack comes back: what
\* was computed from a stack was computed from layers it still begins with.
THEOREM StacksOnlyGrow ==
  Spec => [][\A s \in Stack : /\ Prefix(layers[s], layers'[s])
                              /\ phase[s] = "dead" => phase'[s] = "dead"]_vars
<1> DEFINE Grows == \A s \in Stack : /\ Prefix(layers[s], layers'[s])
                                     /\ phase[s] = "dead" => phase'[s] = "dead"
<1>1. IInv /\ [Next]_vars => [Grows]_vars
  <2> SUFFICES ASSUME IInv, Next PROVE Grows
    OBVIOUS
  <2>1. /\ layers \in [Stack -> Seq(Layer)]
        /\ phase \in [Stack -> {"unborn", "live", "dead"}]
    BY DEF IInv, TypeOK
  <2>2. CASE UNCHANGED <<layers, phase>>
    BY <2>1, <2>2, PrefixReflexive
  <2>3. ASSUME NEW s \in Stack, Create(s) \/ Destroy(s) PROVE Grows
    BY <2>1, <2>3, PrefixReflexive DEF Create, Destroy
  <2>4. ASSUME NEW h \in Handle, NEW layer \in Layer, AddLayer(h, layer) PROVE Grows
    <3>1. /\ layers' = [layers EXCEPT ![h] = Append(layers[h], layer)]
          /\ UNCHANGED phase
      BY <2>4 DEF AddLayer
    <3>2. ASSUME NEW s \in Stack PROVE Prefix(layers[s], layers'[s])
      <4>1. layers'[s] = IF s = h THEN Append(layers[s], layer) ELSE layers[s]
        BY <2>1, <3>1
      <4>2. Prefix(layers[s], layers[s])
        BY <2>1, PrefixReflexive
      <4>3. Prefix(layers[s], Append(layers[s], layer))
        BY <2>1, <4>2, PrefixAppend
      <4>4. QED
        BY <4>1, <4>2, <4>3
    <3>3. QED
      BY <3>1, <3>2
  <2>5. ASSUME NEW h \in Handle, NEW a \in Argument,
               \/ PropagateDirection(h, a)
               \/ InterfaceTransferMatrix(h, a)
               \/ GetStructurePos(h, a)
        PROVE  UNCHANGED <<layers, phase>>
    BY <2>5 DEF PropagateDirection, InterfaceTransferMatrix, GetStructurePos
  <2>6. ASSUME NEW h \in Handle,
               \/ AddLayerFails(h) \/ GetLayer(h)
               \/ PropagateMatrixToDepth(h) \/ AbsorbedEnergyDensity(h)
               \/ EllipsometricPsiDelta(h) \/ ForwardBackwardAtDepth(h)
        PROVE  UNCHANGED <<layers, phase>>
    BY <2>6 DEF AddLayerFails, GetLayer, PropagateMatrixToDepth, AbsorbedEnergyDensity,
                ReadAtDepth, EllipsometricPsiDelta, ForwardBackwardAtDepth, WholeStackCall
  <2>7. ASSUME NEW a, ApplyMultilayerEffect(a) PROVE UNCHANGED <<layers, phase>>
    BY <2>7 DEF ApplyMultilayerEffect
  <2>8. CASE FindInStructure \/ LastMatrix \/ NumberFunction
    BY <2>2, <2>8 DEF FindInStructure, LastMatrix, NumberFunction
  <2>9. ASSUME NEW op, Refused(op) \/ OutOfMemory(op) PROVE UNCHANGED <<layers, phase>>
    BY <2>9 DEF Refused, OutOfMemory
  <2> HIDE DEF Grows
  <2>10. QED
    BY <2>2, <2>3, <2>4, <2>5, <2>6, <2>7, <2>8, <2>9 DEF Next
<1>2. QED
  BY <1>1, SpecIInv, PTL DEF Spec
================================================================================
