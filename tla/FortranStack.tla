------------------------------ MODULE FortranStack ------------------------------
(***************************************************************************)
(* The optics_layer_stack variables of a Fortran program                   *)
(* (bindings/fortran/optics_toolkits.f90): creation, explicit destruction, *)
(* finalisation, intrinsic assignment, and the calls that check their      *)
(* status with optics_check.                                               *)
(*                                                                         *)
(* The type has one component, a C pointer, and no assignment of its own:  *)
(* a = b finalises a and copies the pointer.  A call with a pointer to a   *)
(* destroyed stack is undefined behaviour and ends the model, as `stop'    *)
(* and a runtime error of the Fortran library end the program.             *)
(***************************************************************************)
EXTENDS Integers

CONSTANTS Var,        \* the program's optics_layer_stack variables
          Object,     \* the LayerStackImpl objects a run may create
          Null,       \* c_null_ptr
          MaxLayers,  \* bound on the layers of one stack, for model checking
          SizeMod     \* 2^w for a size_t of w bits

ASSUME NullAssumption == Null \notin Object
ASSUME SizeAssumption == /\ MaxLayers \in Nat /\ SizeMod \in Nat
                         /\ SizeMod > MaxLayers + 2

VARIABLES handle,   \* the component `handle' of each variable
          phase,    \* of each object: "unborn", "live" or "freed"
          count,    \* the layers in each object
          copied,   \* some assignment copied a pointer that is not null
          ended,    \* "no", "stop 1", "runtime error" or "undefined"
          shown,    \* optics_check has printed the library's message
          last      \* the latest call with a stack: index passed to C, and status

vars == <<handle, phase, count, copied, ended, shown, last>>

Running == ended = "no"

(***************************************************************************)
(* optics_check.  Its first write statement has the format '(A,I0,A)' and  *)
(* three character items.  An item that does not fit its edit descriptor   *)
(* is a runtime error of the Fortran library (external).                   *)
(***************************************************************************)
HeaderFormat == <<"A", "I0", "A">>
HeaderItems == <<"character", "character", "character">>

\* The type of item each edit descriptor takes.
Takes == [d \in {"A", "I0"} |-> IF d = "A" THEN "character" ELSE "integer"]

HeaderPrints == \A k \in 1 .. 3 : HeaderItems[k] = Takes[HeaderFormat[k]]

CheckFails ==
  /\ ended' = IF HeaderPrints THEN "stop 1" ELSE "runtime error"
  /\ shown' = HeaderPrints

CheckPasses == UNCHANGED <<ended, shown>>

(***************************************************************************)
(* Giving up the stack of a variable: layer_stack_destroy.                 *)
(***************************************************************************)
Dangling(v) == handle[v] # Null /\ phase[handle[v]] # "live"

\* The objects as they are after layer_stack_destroy of a variable.
Released(v) == [o \in Object |-> IF o = handle[v] THEN "freed" ELSE phase[o]]

Undefined(v) ==
  /\ Running
  /\ Dangling(v)
  /\ ended' = "undefined"
  /\ UNCHANGED <<handle, phase, count, copied, shown, last>>

\* Mutant: the pointer is not reset.
DestroyKeepsPointer(v) ==
  /\ Running /\ ~Dangling(v)
  /\ phase' = Released(v)
  /\ UNCHANGED <<handle, count, copied, ended, shown, last>>

\* destroy, or the finaliser when the variable goes out of scope; a variable
\* that comes into scope again starts with the null pointer.
Destroy(v) ==
  /\ Running /\ ~Dangling(v)
  /\ phase' = Released(v)
  /\ handle' = [handle EXCEPT ![v] = Null]
  /\ UNCHANGED <<count, copied, ended, shown, last>>

\* Mutant: creating does not give up the stack the variable holds.
CreateOverwrites(v) ==
  /\ Running /\ ~Dangling(v)
  /\ \E o \in Object :
       /\ phase[o] = "unborn"
       /\ phase' = [phase EXCEPT ![o] = "live"]
       /\ handle' = [handle EXCEPT ![v] = o]
  /\ UNCHANGED <<count, copied, ended, shown, last>>

\* A second creation gives up the first stack.
Create(v) ==
  /\ Running /\ ~Dangling(v)
  /\ \E o \in Object :
       /\ phase[o] = "unborn"
       /\ phase' = [Released(v) EXCEPT ![o] = "live"]
       /\ handle' = [handle EXCEPT ![v] = o]
  /\ UNCHANGED <<count, copied, ended, shown, last>>

\* The allocation fails: the old stack is gone already, and the program stops.
CreateFails(v) ==
  /\ Running /\ ~Dangling(v)
  /\ phase' = Released(v)
  /\ handle' = [handle EXCEPT ![v] = Null]
  /\ ended' = "stop 1"
  /\ UNCHANGED <<count, copied, shown, last>>

\* v = w: the value of w is taken, v is finalised, and the pointer copied.
Assign(v, w) ==
  /\ Running /\ ~Dangling(v)
  /\ phase' = Released(v)
  /\ handle' = [handle EXCEPT ![v] = handle[w]]
  /\ copied' = (copied \/ handle[w] # Null)
  /\ UNCHANGED <<count, ended, shown, last>>

(***************************************************************************)
(* The calls.                                                              *)
(***************************************************************************)
\* Mutant: the negative number is passed on as it is.
ToSizeSigned(i) == i

\* A signed integer as C's size_t receives it.
ToSize(i) == IF i < 0 THEN SizeMod + i ELSE i

\* Mutant: the index is passed on as it is.
LayerIndexRaw(index) == ToSize(index)

\* int(index-1, c_size_t)
LayerIndex(index) == ToSize(index - 1)

Layers(v) == IF handle[v] = Null THEN 0 ELSE count[handle[v]]

AddLayer(v) ==
  /\ Running /\ ~Dangling(v)
  /\ handle[v] # Null /\ count[handle[v]] < MaxLayers
  /\ count' = [count EXCEPT ![handle[v]] = @ + 1]
  /\ CheckPasses
  /\ UNCHANGED <<handle, phase, copied, last>>

\* The pointer is null, or the library is out of memory.
AddLayerFails(v) ==
  /\ Running /\ ~Dangling(v)
  /\ CheckFails
  /\ UNCHANGED <<handle, phase, count, copied, last>>

\* An absent stack has no layers, and the C ABI rejects it like a wrong index.
GetLayer(v, index) ==
  /\ Running /\ ~Dangling(v)
  /\ LET found == LayerIndex(index) < Layers(v) IN
       /\ last' = [index |-> index, passed |-> LayerIndex(index), of |-> Layers(v),
                   ok |-> found]
       /\ IF found THEN CheckPasses ELSE CheckFails
  /\ UNCHANGED <<handle, phase, count, copied>>

\* The stacks of a program that ended.
Ended == ~Running /\ UNCHANGED vars

Init == /\ handle = [v \in Var |-> Null]
        /\ phase = [o \in Object |-> "unborn"]
        /\ count = [o \in Object |-> 0]
        /\ copied = FALSE
        /\ ended = "no"
        /\ shown = FALSE
        /\ last = [index |-> 0, passed |-> 0, of |-> 0, ok |-> FALSE]

\* From two before the first layer to one after the last.
Index == -1 .. MaxLayers + 1

Next == \/ \E v \in Var : \/ Undefined(v) \/ Destroy(v)
                          \/ Create(v) \/ CreateFails(v)
                          \/ AddLayer(v) \/ AddLayerFails(v)
        \/ \E v, w \in Var : Assign(v, w)
        \/ \E v \in Var, index \in Index : GetLayer(v, index)
        \/ Ended

Spec == Init /\ [][Next]_vars
--------------------------------------------------------------------------------
(***************************************************************************)
(* Properties.                                                             *)
(***************************************************************************)
\* Every variable has the shape the code gives it.
TypeOK ==
  /\ handle \in [Var -> Object \cup {Null}]
  /\ phase \in [Object -> {"unborn", "live", "freed"}]
  /\ count \in [Object -> 0 .. MaxLayers]
  /\ copied \in BOOLEAN /\ shown \in BOOLEAN
  /\ ended \in {"no", "stop 1", "runtime error", "undefined"}
  /\ last \in [index : Index, passed : 0 .. SizeMod - 1, of : 0 .. MaxLayers,
               ok : BOOLEAN]

\* No stack is lost: every live one is held by a variable, through creations,
\* repeated creations, assignments and finalisations in any order, so that the
\* finalisers free it in the end.
NoLeak ==
  \A o \in Object : phase[o] = "live" => \E v \in Var : handle[v] = o

\* A program that never assigns a stack to another never uses or destroys a
\* destroyed one, however creations, destructions and scopes follow each other.
\* With assignment it may: the copies are finalised one after the other.
UndefinedOnlyByCopy == ended = "undefined" => copied

\* get_layer finds exactly the layers 1 to n, and also a zero or negative index,
\* which becomes a huge size, is rejected.
GetLayerIsOneBased == last.ok <=> last.index \in 1 .. last.of

\* optics_toolkits.h: "Human-readable message for the last error on this thread."
\* A program that a failed call ends has shown that message.
FailureShowsMessage == ended = "runtime error" => shown

(***************************************************************************)
(* The inductive invariant: without copies every pointer is live and held  *)
(* by one variable only.                                                   *)
(***************************************************************************)
HandleInv ==
  ~copied => /\ \A v \in Var : ~Dangling(v)
             /\ \A v, w \in Var : handle[v] = handle[w] /\ handle[v] # Null => v = w

IInv == TypeOK /\ NoLeak /\ HandleInv /\ UndefinedOnlyByCopy /\ GetLayerIsOneBased
================================================================================
