--------------------------- MODULE FortranStackProofs ---------------------------
(***************************************************************************)
(* Proofs about FortranStack: for any variables, objects, layer bound and  *)
(* width of size_t.                                                        *)
(***************************************************************************)
EXTENDS FortranStack, TLAPS

\* What layer_stack_destroy leaves of the objects: the variable's own object is
\* freed, and no object comes to life.
LEMMA ReleasedType ==
  ASSUME TypeOK, NEW v \in Var
  PROVE  /\ Released(v) \in [Object -> {"unborn", "live", "freed"}]
         /\ \A o \in Object : Released(v)[o] = "live"
                                <=> phase[o] = "live" /\ handle[v] # o
BY DEF TypeOK, Released

\* A signed index arrives as a size of w bits.
LEMMA LayerIndexType ==
  ASSUME NEW index \in Index
  PROVE  /\ LayerIndex(index) \in 0 .. SizeMod - 1
         /\ \A n \in 0 .. MaxLayers : LayerIndex(index) < n <=> index \in 1 .. n
BY SizeAssumption DEF Index, LayerIndex, ToSize

\* The number of layers a call sees.
LEMMA LayersType ==
  ASSUME TypeOK, NEW v \in Var
  PROVE  Layers(v) \in 0 .. MaxLayers
<1>1. CASE handle[v] = Null
  BY <1>1, SizeAssumption DEF Layers
<1>2. CASE handle[v] # Null
  <2>1. handle[v] \in Object
    BY <1>2 DEF TypeOK
  <2>2. count[handle[v]] \in 0 .. MaxLayers
    BY <2>1 DEF TypeOK
  <2> QED BY <1>2, <2>2 DEF Layers
<1> QED BY <1>1, <1>2

LEMMA InitIInv == Init => IInv
<1> SUFFICES ASSUME Init PROVE IInv
  OBVIOUS
<1>1. TypeOK
  <2>1. 0 \in Index /\ 0 \in 0 .. SizeMod - 1 /\ 0 \in 0 .. MaxLayers
    BY SizeAssumption DEF Index
  <2>2. last \in [index : Index, passed : 0 .. SizeMod - 1, of : 0 .. MaxLayers,
                  ok : BOOLEAN]
    BY <2>1 DEF Init
  <2> QED BY <2>1, <2>2 DEF Init, TypeOK
<1>2. NoLeak /\ HandleInv /\ UndefinedOnlyByCopy
  BY DEF Init, NoLeak, HandleInv, Dangling, UndefinedOnlyByCopy
<1>3. GetLayerIsOneBased
  BY DEF Init, GetLayerIsOneBased
<1> QED BY <1>1, <1>2, <1>3 DEF IInv

\* The steps that give up, create or copy pointers.
LEMMA DestroyStep ==
  ASSUME IInv, NEW v \in Var, Destroy(v) \/ CreateFails(v)
  PROVE  IInv'
<1> USE DEF IInv
<1>1. Released(v) \in [Object -> {"unborn", "live", "freed"}]
  BY ReleasedType
<1>2. /\ phase' = Released(v) /\ handle' = [handle EXCEPT ![v] = Null]
      /\ UNCHANGED <<count, copied, shown, last>>
      /\ ended' \in {"no", "stop 1"}
  BY DEF Destroy, CreateFails, Running
<1>3. TypeOK'
  BY <1>1, <1>2 DEF TypeOK
<1>4. NoLeak'
  <2> SUFFICES ASSUME NEW o \in Object, phase'[o] = "live"
               PROVE  \E u \in Var : handle'[u] = o
    BY DEF NoLeak
  <2>1. phase[o] = "live" /\ handle[v] # o
    BY <1>2, ReleasedType
  <2>2. PICK u \in Var : handle[u] = o
    BY <2>1 DEF NoLeak
  <2>3. u # v
    BY <2>1, <2>2
  <2> QED BY <1>2, <2>2, <2>3 DEF TypeOK
<1>5. HandleInv'
  <2> SUFFICES ASSUME ~copied
               PROVE  /\ \A u \in Var : ~Dangling(u)'
                      /\ \A u, w \in Var : handle'[u] = handle'[w] /\ handle'[u] # Null
                                             => u = w
    BY <1>2 DEF HandleInv
  <2>1. \A u \in Var : handle'[u] = IF u = v THEN Null ELSE handle[u]
    BY <1>2 DEF TypeOK
  <2>2. \A u, w \in Var : handle[u] = handle[w] /\ handle[u] # Null => u = w
    BY DEF HandleInv
  <2>3. \A u \in Var : handle[u] # Null => handle[u] \in Object /\ phase[handle[u]] = "live"
    BY DEF HandleInv, Dangling, TypeOK
  <2>4. ASSUME NEW u \in Var, handle'[u] # Null
        PROVE  phase'[handle'[u]] = "live"
    <3>1. u # v /\ handle'[u] = handle[u] /\ handle[u] # Null
      BY <2>1, <2>4
    <3>2. handle[v] # handle[u] /\ handle[u] \in Object /\ phase[handle[u]] = "live"
      BY <3>1, <2>2, <2>3
    <3>3. Released(v)[handle[u]] = "live"
      BY <3>2, ReleasedType
    <3> QED BY <1>2, <3>1, <3>3
  <2>5. \A u \in Var : ~Dangling(u)'
    BY <2>4 DEF Dangling
  <2> QED BY <2>1, <2>2, <2>5
<1>6. UndefinedOnlyByCopy'
  BY <1>2 DEF UndefinedOnlyByCopy
<1>7. GetLayerIsOneBased'
  BY <1>2 DEF GetLayerIsOneBased
<1> QED BY <1>3, <1>4, <1>5, <1>6, <1>7

LEMMA CreateStep ==
  ASSUME IInv, NEW v \in Var, Create(v)
  PROVE  IInv'
<1> USE DEF IInv
<1>1. PICK o \in Object : /\ phase[o] = "unborn"
                          /\ phase' = [Released(v) EXCEPT ![o] = "live"]
                          /\ handle' = [handle EXCEPT ![v] = o]
  BY DEF Create
<1>2. UNCHANGED <<count, copied, ended, shown, last>> /\ ~Dangling(v)
  BY DEF Create
<1>3. Released(v) \in [Object -> {"unborn", "live", "freed"}]
  BY ReleasedType
<1>4. \A u \in Var : handle'[u] = IF u = v THEN o ELSE handle[u]
  BY <1>1 DEF TypeOK
<1>5. \A p \in Object : phase'[p] = "live" <=> p = o \/ (phase[p] = "live" /\ handle[v] # p)
  BY <1>1, <1>3, ReleasedType
<1>6. TypeOK'
  BY <1>1, <1>2, <1>3 DEF TypeOK
<1>7. NoLeak'
  <2> SUFFICES ASSUME NEW p \in Object, phase'[p] = "live"
               PROVE  \E u \in Var : handle'[u] = p
    BY DEF NoLeak
  <2>1. CASE p = o
    BY <2>1, <1>4
  <2>2. CASE p # o
    <3>1. phase[p] = "live" /\ handle[v] # p
      BY <1>5, <2>2
    <3>2. PICK u \in Var : handle[u] = p
      BY <3>1 DEF NoLeak
    <3> QED BY <1>4, <3>1, <3>2
  <2> QED BY <2>1, <2>2
<1>8. HandleInv'
  <2> SUFFICES ASSUME ~copied
               PROVE  /\ \A u \in Var : ~Dangling(u)'
                      /\ \A u, w \in Var : handle'[u] = handle'[w] /\ handle'[u] # Null
                                             => u = w
    BY <1>2 DEF HandleInv
  <2>1. \A u, w \in Var : handle[u] = handle[w] /\ handle[u] # Null => u = w
    BY DEF HandleInv
  <2>2. \A u \in Var : handle[u] # Null => handle[u] \in Object /\ phase[handle[u]] = "live"
    BY DEF HandleInv, Dangling, TypeOK
  <2>3. \A u \in Var : handle[u] # o
    BY <2>2, <1>1, NullAssumption
  <2>4. ASSUME NEW u \in Var, handle'[u] # Null
        PROVE  phase'[handle'[u]] = "live"
    <3>1. CASE u = v
      BY <3>1, <1>4, <1>5
    <3>2. CASE u # v
      <4>1. handle'[u] = handle[u] /\ handle[u] # Null /\ handle[v] # handle[u]
        BY <3>2, <1>4, <2>1, <2>4
      <4> QED BY <4>1, <2>2, <1>5
    <3> QED BY <3>1, <3>2
  <2>5. \A u \in Var : ~Dangling(u)'
    BY <2>4 DEF Dangling
  <2>6. \A u, w \in Var : handle'[u] = handle'[w] /\ handle'[u] # Null => u = w
    BY <1>4, <2>1, <2>3
  <2> QED BY <2>5, <2>6
<1>9. UndefinedOnlyByCopy'
  BY <1>2 DEF UndefinedOnlyByCopy
<1>10. GetLayerIsOneBased'
  BY <1>2 DEF GetLayerIsOneBased
<1> QED BY <1>6, <1>7, <1>8, <1>9, <1>10

LEMMA AssignStep ==
  ASSUME IInv, NEW v \in Var, NEW w \in Var, Assign(v, w)
  PROVE  IInv'
<1> USE DEF IInv
<1>1. /\ phase' = Released(v) /\ handle' = [handle EXCEPT ![v] = handle[w]]
      /\ copied' = (copied \/ handle[w] # Null)
      /\ UNCHANGED <<count, ended, shown, last>> /\ Running
  BY DEF Assign
<1>2. Released(v) \in [Object -> {"unborn", "live", "freed"}]
  BY ReleasedType
<1>3. \A u \in Var : handle'[u] = IF u = v THEN handle[w] ELSE handle[u]
  BY <1>1 DEF TypeOK
<1>4. TypeOK'
  BY <1>1, <1>2 DEF TypeOK
<1>5. NoLeak'
  <2> SUFFICES ASSUME NEW o \in Object, phase'[o] = "live"
               PROVE  \E u \in Var : handle'[u] = o
    BY DEF NoLeak
  <2>1. phase[o] = "live" /\ handle[v] # o
    BY <1>1, ReleasedType
  <2>2. PICK u \in Var : handle[u] = o
    BY <2>1 DEF NoLeak
  <2> QED BY <1>3, <2>1, <2>2
<1>6. HandleInv'
  <2> SUFFICES ASSUME ~copied'
               PROVE  /\ \A u \in Var : ~Dangling(u)'
                      /\ \A u, x \in Var : handle'[u] = handle'[x] /\ handle'[u] # Null
                                             => u = x
    BY DEF HandleInv
  <2>1. ~copied /\ handle[w] = Null
    BY <1>1
  <2>2. \A u, x \in Var : handle[u] = handle[x] /\ handle[u] # Null => u = x
    BY <2>1 DEF HandleInv
  <2>3. \A u \in Var : handle[u] # Null => handle[u] \in Object /\ phase[handle[u]] = "live"
    BY <2>1 DEF HandleInv, Dangling, TypeOK
  <2>4. ASSUME NEW u \in Var, handle'[u] # Null
        PROVE  phase'[handle'[u]] = "live"
    <3>1. u # v /\ handle'[u] = handle[u] /\ handle[u] # Null
      BY <1>3, <2>1, <2>4
    <3>2. handle[v] # handle[u]
      BY <3>1, <2>2
    <3> QED BY <1>1, <2>3, <3>1, <3>2, ReleasedType
  <2>5. \A u \in Var : ~Dangling(u)'
    BY <2>4 DEF Dangling
  <2> QED BY <1>3, <2>1, <2>2, <2>5
<1>7. UndefinedOnlyByCopy'
  BY <1>1 DEF UndefinedOnlyByCopy, Running
<1>8. GetLayerIsOneBased'
  BY <1>1 DEF GetLayerIsOneBased
<1> QED BY <1>4, <1>5, <1>6, <1>7, <1>8

\* The steps that leave pointers and objects alone.
LEMMA CallStep ==
  ASSUME IInv, NEW v \in Var,
         \/ Undefined(v) \/ AddLayer(v) \/ AddLayerFails(v)
         \/ \E index \in Index : GetLayer(v, index)
  PROVE  IInv'
<1> USE DEF IInv
<1>1. UNCHANGED <<handle, phase, copied>>
  BY DEF Undefined, AddLayer, AddLayerFails, GetLayer
<1>2. NoLeak'
  BY <1>1 DEF NoLeak
<1>3. HandleInv'
  BY <1>1 DEF HandleInv, Dangling
<1>4. CASE Undefined(v)
  <2>1. TypeOK' /\ GetLayerIsOneBased'
    BY <1>4 DEF Undefined, TypeOK, GetLayerIsOneBased
  <2>2. UndefinedOnlyByCopy'
    BY <1>4 DEF Undefined, HandleInv, UndefinedOnlyByCopy
  <2> QED BY <1>2, <1>3, <2>1, <2>2
<1>5. CASE AddLayer(v)
  <2>1. count[handle[v]] + 1 \in 0 .. MaxLayers
    <3>1. handle[v] \in Object /\ count[handle[v]] < MaxLayers
      BY <1>5 DEF AddLayer, TypeOK
    <3>2. count[handle[v]] \in 0 .. MaxLayers
      BY <3>1 DEF TypeOK
    <3> QED BY <3>1, <3>2, SizeAssumption
  <2>2. count' \in [Object -> 0 .. MaxLayers]
    BY <1>5, <2>1 DEF AddLayer, TypeOK
  <2>3. UNCHANGED <<ended, shown, last>>
    BY <1>5 DEF AddLayer, CheckPasses
  <2>4. TypeOK'
    BY <1>1, <2>2, <2>3 DEF TypeOK
  <2>5. UndefinedOnlyByCopy' /\ GetLayerIsOneBased'
    BY <1>1, <2>3 DEF UndefinedOnlyByCopy, GetLayerIsOneBased
  <2> QED BY <1>2, <1>3, <2>4, <2>5
<1>6. ASSUME CheckFails PROVE ended' \in {"stop 1", "runtime error"} /\ shown' \in BOOLEAN
  BY <1>6 DEF CheckFails, HeaderPrints
<1>7. CASE AddLayerFails(v)
  <2>1. UNCHANGED <<count, last>> /\ ended' \in {"stop 1", "runtime error"} /\ shown' \in BOOLEAN
    BY <1>7, <1>6 DEF AddLayerFails
  <2>2. TypeOK'
    BY <1>1, <2>1 DEF TypeOK
  <2>3. UndefinedOnlyByCopy' /\ GetLayerIsOneBased'
    BY <1>1, <2>1 DEF UndefinedOnlyByCopy, GetLayerIsOneBased
  <2> QED BY <1>2, <1>3, <2>2, <2>3
<1>8. ASSUME NEW index \in Index, GetLayer(v, index) PROVE IInv'
  <2> DEFINE passed == LayerIndex(index)
             found == passed < Layers(v)
  <2>1. last' = [index |-> index, passed |-> passed, of |-> Layers(v), ok |-> found]
    BY <1>8 DEF GetLayer
  <2>2. /\ passed \in 0 .. SizeMod - 1
        /\ Layers(v) \in 0 .. MaxLayers
        /\ found <=> index \in 1 .. Layers(v)
        /\ found \in BOOLEAN
    BY LayerIndexType, LayersType
  <2>3. ended' \in {"no", "stop 1", "runtime error"} /\ shown' \in BOOLEAN
    BY <1>6, <1>8 DEF GetLayer, CheckPasses, Running, TypeOK
  <2>4. count' = count
    BY <1>8 DEF GetLayer
  <2> HIDE DEF passed, found
  <2>5. TypeOK'
    BY <1>1, <2>1, <2>2, <2>3, <2>4 DEF TypeOK
  <2>6. GetLayerIsOneBased'
    BY <2>1, <2>2 DEF GetLayerIsOneBased
  <2>7. UndefinedOnlyByCopy'
    BY <2>3 DEF UndefinedOnlyByCopy
  <2> QED BY <1>2, <1>3, <2>5, <2>6, <2>7
<1> QED BY <1>4, <1>5, <1>7, <1>8

LEMMA SpecIInv == Spec => []IInv
<1>1. IInv /\ [Next]_vars => IInv'
  <2> SUFFICES ASSUME IInv, [Next]_vars PROVE IInv'
    OBVIOUS
  <2>1. CASE UNCHANGED vars
    BY <2>1 DEF vars, IInv, TypeOK, NoLeak, HandleInv, Dangling, UndefinedOnlyByCopy,
                GetLayerIsOneBased
  <2>2. CASE Next
    <3>1. ASSUME NEW v \in Var,
                 \/ Undefined(v) \/ Destroy(v) \/ Create(v) \/ CreateFails(v)
                 \/ AddLayer(v) \/ AddLayerFails(v)
          PROVE  IInv'
      BY <3>1, DestroyStep, CreateStep, CallStep
    <3>2. ASSUME NEW v \in Var, NEW w \in Var, Assign(v, w) PROVE IInv'
      BY <3>2, AssignStep
    <3>3. ASSUME NEW v \in Var, NEW index \in Index, GetLayer(v, index) PROVE IInv'
      BY <3>3, CallStep
    <3>4. Ended => IInv'
      BY <2>1 DEF Ended
    <3> QED BY <2>2, <3>1, <3>2, <3>3, <3>4 DEF Next
  <2> QED BY <2>1, <2>2
<1> QED BY <1>1, InitIInv, PTL DEF Spec

\* Every variable keeps its shape, for any number of variables and objects.
THEOREM TypeCorrect == Spec => []TypeOK
BY SpecIInv, PTL DEF IInv

\* No sequence of creations, assignments and finalisations loses a live stack.
THEOREM NoLeakCorrect == Spec => []NoLeak
BY SpecIInv, PTL DEF IInv

\* Without an assignment between stacks nothing is used after it was destroyed.
THEOREM CopyIsTheOnlyDanger == Spec => []UndefinedOnlyByCopy
BY SpecIInv, PTL DEF IInv

\* get_layer accepts exactly the indices 1 to n, whatever the width of size_t.
THEOREM GetLayerCorrect == Spec => []GetLayerIsOneBased
BY SpecIInv, PTL DEF IInv

\* The second item of optics_check's header line is a text, and the edit descriptor
\* there takes an integer.
LEMMA HeaderFails == ~HeaderPrints
<1>1. HeaderItems[2] = "character" /\ HeaderFormat[2] = "I0"
  BY DEF HeaderItems, HeaderFormat
<1>2. Takes["I0"] = "integer"
  BY DEF Takes
<1>3. 2 \in 1 .. 3 /\ "character" # "integer"
  OBVIOUS
<1>4. QED
  BY <1>1, <1>2, <1>3 DEF HeaderPrints

\* Whether the message was shown changes in optics_check alone, when a call failed.
LEMMA OnlyCheckShows == Next => UNCHANGED shown \/ CheckFails
<1>1. ASSUME NEW v \in Var,
             \/ Undefined(v) \/ Destroy(v) \/ Create(v) \/ CreateFails(v)
             \/ \E w \in Var : Assign(v, w)
      PROVE  UNCHANGED shown
  BY <1>1 DEF Undefined, Destroy, Create, CreateFails, Assign
<1>2. ASSUME NEW v \in Var,
             \/ AddLayer(v) \/ AddLayerFails(v)
             \/ \E index \in Index : GetLayer(v, index)
      PROVE  UNCHANGED shown \/ CheckFails
  BY <1>2 DEF AddLayer, AddLayerFails, GetLayer, CheckPasses
<1>3. Ended => UNCHANGED shown
  BY DEF Ended, vars
<1> QED BY <1>1, <1>2, <1>3 DEF Next

\* No failed call, of whatever kind and after whatever history, ever shows the
\* library's message: optics_check ends in the run-time error of its own header
\* first, each time.
THEOREM NoMessageIsEverShown ==
  Spec => [](~shown /\ (FailureShowsMessage <=> ended # "runtime error"))
<1>1. ~shown /\ [Next]_vars => ~shown'
  <2>1. CheckFails => ~shown'
    BY HeaderFails DEF CheckFails
  <2>2. UNCHANGED vars => UNCHANGED shown
    BY DEF vars
  <2> QED BY OnlyCheckShows, <2>1, <2>2
<1>2. Init => ~shown
  BY DEF Init
<1>3. ~shown => (FailureShowsMessage <=> ended # "runtime error")
  BY DEF FailureShowsMessage
<1> QED BY <1>2, <1>1, <1>3, PTL DEF Spec
================================================================================
