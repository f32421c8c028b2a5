------------------------------ MODULE CSharpStack -------------------------------
(***************************************************************************)
(* One LayerStack object of the C# binding                                 *)
(* (bindings/csharp/OpticsToolkits/LayerStack.cs) used and disposed of by  *)
(* several threads.  The class takes no lock: a use reads _disposed, then  *)
(* _handle, then calls the C ABI; Dispose reads _disposed, _handle, and    *)
(* _handle again, destroys the stack, and only then resets both fields.    *)
(* Between any two of these steps the other threads run.                   *)
(*                                                                         *)
(* The fields are sequentially consistent here.  Reading or destroying a   *)
(* destroyed stack is undefined behaviour: the model stops there.          *)
(***************************************************************************)
CONSTANT Thread   \* the threads that share the object

VARIABLES handle,     \* _handle: "object" or "zero"
          disposed,   \* _disposed
          object,     \* the C++ object: "live" or "freed"
          pc,         \* where each thread is
          got,        \* the handle each thread passes to the C ABI
          outcome,    \* how each thread's latest operation ended
          returned,   \* history: some Dispose has returned
          over,       \* history: another thread's Dispose overlapped the operation
          late        \* history: a Dispose had returned before the operation began

vars == <<handle, disposed, object, pc, got, outcome, returned, over, late>>

\* The places inside Dispose.
Disposal == {"check", "handle", "argument", "free", "reset", "flag"}

Defined == \A t \in Thread : pc[t] # "undefined"

Goto(t, place) == pc' = [pc EXCEPT ![t] = place] /\ UNCHANGED outcome

Return(t, result) == /\ pc' = [pc EXCEPT ![t] = "idle"]
                     /\ outcome' = [outcome EXCEPT ![t] = result]

Overlapped(t) == \E u \in Thread \ {t} : pc[u] \in Disposal

Begin(t, place) ==
  /\ pc[t] = "idle"
  /\ pc' = [pc EXCEPT ![t] = place]
  /\ outcome' = [outcome EXCEPT ![t] = "pending"]
  /\ late' = [late EXCEPT ![t] = returned]
  /\ over' = [u \in Thread |-> IF u = t THEN Overlapped(t)
                               ELSE over[u] \/ (place \in Disposal /\ pc[u] # "idle")]
  /\ UNCHANGED <<handle, disposed, object, got, returned>>

(***************************************************************************)
(* A use: AddLayer, LayerCount, GetLayer, and the functions of Tmm.        *)
(***************************************************************************)
UseBegins(t) == Begin(t, "getter")

\* Mutant: the getter does not look at _disposed.
GetterForgets(t) ==
  /\ pc[t] = "getter"
  /\ Goto(t, "read")
  /\ UNCHANGED <<handle, disposed, object, got, returned, over, late>>

\* The getter of Handle: ObjectDisposedException, or on to the field.
GetterChecks(t) ==
  /\ pc[t] = "getter"
  /\ IF disposed THEN Return(t, "thrown") ELSE Goto(t, "read")
  /\ UNCHANGED <<handle, disposed, object, got, returned, over, late>>

GetterReads(t) ==
  /\ pc[t] = "read"
  /\ got' = [got EXCEPT ![t] = handle]
  /\ Goto(t, "call")
  /\ UNCHANGED <<handle, disposed, object, returned, over, late>>

\* Mutant: the status of the call is passed on unchecked.
CallUnchecked(t) ==
  /\ pc[t] = "call"
  /\ \/ got[t] = "zero" /\ Return(t, "INVALID_ARG")
     \/ got[t] = "object" /\ object = "live" /\ Goto(t, "native")
     \/ got[t] = "object" /\ object = "freed" /\ Goto(t, "undefined")
  /\ UNCHANGED <<handle, disposed, object, got, returned, over, late>>

\* A null handle is rejected, or has no layers; a destroyed one is undefined.
Call(t) ==
  /\ pc[t] = "call"
  /\ \/ got[t] = "zero" /\ Return(t, "rejected")
     \/ got[t] = "object" /\ object = "live" /\ Goto(t, "native")
     \/ got[t] = "object" /\ object = "freed" /\ Goto(t, "undefined")
  /\ UNCHANGED <<handle, disposed, object, got, returned, over, late>>

\* The native code reads the stack until it returns.
NativeReturns(t) ==
  /\ pc[t] = "native"
  /\ IF object = "live" THEN Return(t, "used") ELSE Goto(t, "undefined")
  /\ UNCHANGED <<handle, disposed, object, got, returned, over, late>>

(***************************************************************************)
(* Dispose.                                                                *)
(***************************************************************************)
DisposeBegins(t) == Begin(t, "check")

DisposeChecks(t) ==
  /\ pc[t] = "check"
  /\ IF disposed THEN Return(t, "returned") ELSE Goto(t, "handle")
  /\ returned' = (returned \/ disposed)
  /\ UNCHANGED <<handle, disposed, object, got, over, late>>

DisposeTests(t) ==
  /\ pc[t] = "handle"
  /\ Goto(t, IF handle = "object" THEN "argument" ELSE "flag")
  /\ UNCHANGED <<handle, disposed, object, got, returned, over, late>>

\* Mutant: the field is reset before the stack is destroyed.
DisposeExchanges(t) ==
  /\ pc[t] = "argument"
  /\ got' = [got EXCEPT ![t] = handle]
  /\ handle' = "zero"
  /\ Goto(t, "free")
  /\ UNCHANGED <<disposed, object, returned, over, late>>

DisposeReads(t) ==
  /\ pc[t] = "argument"
  /\ got' = [got EXCEPT ![t] = handle]
  /\ Goto(t, "free")
  /\ UNCHANGED <<handle, disposed, object, returned, over, late>>

\* optics_layer_stack_destroy: nothing for a null handle.
Free(t) ==
  /\ pc[t] = "free"
  /\ object' = IF got[t] = "object" THEN "freed" ELSE object
  /\ Goto(t, IF got[t] = "object" /\ object = "freed" THEN "undefined" ELSE "reset")
  /\ UNCHANGED <<handle, disposed, got, returned, over, late>>

Reset(t) ==
  /\ pc[t] = "reset"
  /\ handle' = "zero"
  /\ Goto(t, "flag")
  /\ UNCHANGED <<disposed, object, got, returned, over, late>>

\* Mutant: Dispose does not set _disposed.
FlagForgotten(t) ==
  /\ pc[t] = "flag"
  /\ Return(t, "returned")
  /\ returned' = TRUE
  /\ UNCHANGED <<handle, disposed, object, got, over, late>>

\* Dispose sets _disposed and returns.
Flag(t) ==
  /\ pc[t] = "flag"
  /\ disposed' = TRUE
  /\ Return(t, "returned")
  /\ returned' = TRUE
  /\ UNCHANGED <<handle, object, got, over, late>>

\* The constructor: the object is published with a handle that is not null.
Init == /\ handle = "object" /\ disposed = FALSE /\ object = "live"
        /\ pc = [t \in Thread |-> "idle"]
        /\ got = [t \in Thread |-> "zero"]
        /\ outcome = [t \in Thread |-> "none"]
        /\ returned = FALSE
        /\ over = [t \in Thread |-> FALSE]
        /\ late = [t \in Thread |-> FALSE]

Next == /\ Defined
        /\ \E t \in Thread :
             \/ UseBegins(t) \/ GetterChecks(t) \/ GetterReads(t)
             \/ Call(t) \/ NativeReturns(t)
             \/ DisposeBegins(t) \/ DisposeChecks(t) \/ DisposeTests(t)
             \/ DisposeReads(t) \/ Free(t) \/ Reset(t) \/ Flag(t)

Spec == Init /\ [][Next]_vars
--------------------------------------------------------------------------------
(***************************************************************************)
(* Properties.                                                             *)
(***************************************************************************)
\* Every variable has the shape the code gives it.
TypeOK ==
  /\ handle \in {"object", "zero"}
  /\ disposed \in BOOLEAN
  /\ object \in {"live", "freed"}
  /\ pc \in [Thread -> {"idle", "getter", "read", "call", "native", "undefined"}
                         \cup Disposal]
  /\ got \in [Thread -> {"object", "zero"}]
  /\ outcome \in [Thread -> {"none", "pending", "used", "thrown", "rejected", "returned"}]
  /\ returned \in BOOLEAN
  /\ over \in [Thread -> BOOLEAN]
  /\ late \in [Thread -> BOOLEAN]

\* An operation no other thread's Dispose overlaps is safe: it never reaches a
\* destroyed stack or destroys one twice, and never passes a null handle.
UndefinedOnlyByOverlap ==
  \A t \in Thread :
    ~over[t] => pc[t] # "undefined" /\ outcome[t] # "rejected"

\* Once any Dispose has returned, by whichever thread and however many ran at
\* the same time, every operation that begins afterwards is turned away: a use
\* with ObjectDisposedException, another Dispose by returning at once.
LateUseThrows ==
  \A t \in Thread : late[t] => /\ pc[t] \in {"idle", "getter", "check"}
                               /\ outcome[t] \in {"pending", "thrown", "returned"}

\* A Dispose that has returned leaves the stack destroyed, even when it found the
\* work of another thread half done.
ReturnedIsFreed == returned => object = "freed"

(***************************************************************************)
(* The inductive invariant: the fields are reset only behind the stack's   *)
(* destruction, and whoever destroyed it is still inside Dispose until the *)
(* flag is set.                                                            *)
(***************************************************************************)
FieldInv ==
  /\ returned <=> disposed
  /\ disposed => handle = "zero"
  /\ handle = "zero" => object = "freed"
  /\ object = "freed" => disposed \/ \E u \in Thread : pc[u] \in {"reset", "flag", "undefined"}
  /\ \A t \in Thread :
       /\ pc[t] = "reset" => object = "freed"
       /\ pc[t] = "flag" => handle = "zero"
       /\ pc[t] \in {"call", "free"} /\ got[t] = "zero" => handle = "zero"

OverlapInv ==
  /\ \A t, u \in Thread : t # u /\ pc[u] \in Disposal /\ pc[t] # "idle" => over[t]
  /\ \A t \in Thread : pc[t] \in {"read", "call", "native", "handle", "argument", "free"}
                         => over[t] \/ ~disposed
  /\ \A t \in Thread : late[t] => disposed

IInv == TypeOK /\ FieldInv /\ OverlapInv /\ UndefinedOnlyByOverlap /\ LateUseThrows
================================================================================
