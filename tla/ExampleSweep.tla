------------------------------ MODULE ExampleSweep ------------------------------
(***************************************************************************)
(* The examples (examples/c, csharp, fortran and matlab): programs that    *)
(* sweep a depth, a wavelength, a thickness or an angle, compute one row   *)
(* of results for each sample, and write the rows to CSV files, or, a C    *)
(* program of a build with plugins, plot them.                             *)
(*                                                                         *)
(* The four languages share the samples and differ in everything around    *)
(* them: who owns the stack, whether a failed call ends the program, and   *)
(* how long a local lives.  The numbers are abstracted to their origin: a  *)
(* value is the set of samples and passes whose calls it was computed      *)
(* from, with Unset for an element nobody computed.                        *)
(***************************************************************************)
EXTENDS ExamplePrograms, MexGateway, InterpNk, FiniteSets

CONSTANTS Samples,    \* rows of the result
          Object,     \* the addresses of layer stacks
          Null,       \* the null handle
          Table,      \* the wavelengths of Example 3's table
          Plugins,    \* the builds: {FALSE}, {TRUE} or both
          MaxFaults,  \* bound on the samples with a failed call, for model checking
          MaxRuns     \* bound on the scripts of a MATLAB session, for model checking

ASSUME NullAssumption == Null \notin Object
ASSUME SizeAssumption == Samples \in Nat \ {0} /\ MaxFaults \in Nat /\ MaxRuns \in Nat \ {0}
ASSUME TableAssumption == Table \in Seq(Int) /\ Len(Table) >= 3 /\ Sorted(Table)
ASSUME PluginsAssumption == Plugins \subseteq BOOLEAN

Unset == <<0, 0>>
Origin == (1 .. Samples) \X Pass \cup {Unset}

VARIABLES lang,     \* the language of the program
          example,  \* the example it is
          plugins,  \* the library was built with plugins
          runs,     \* programs started so far in this process
          status,   \* "running", "done", "aborted" or "undefined"
          i,        \* the sample; 0 before and Samples + 1 after the sweep
          todo,     \* the operations left of this part
          stack,    \* the stack variable: a handle
          h,        \* MATLAB's copy of the handle as a number
          live,     \* the stacks that exist
          value,    \* the origin of each local, and of the layers in `stack'
          used,     \* the latest interpolation: where, and from which samples
          rows,     \* the origin of each result, by sample and pass
          files,    \* the CSV files: curves and separators
          shown,    \* the plots: their curves
          said,     \* the files the program said it wrote
          failed    \* the samples in which a call failed

process == <<lang, example, plugins, runs>>
owner == <<stack, h, live>>
output == <<rows, files, shown, said>>
vars == <<process, status, i, todo, owner, value, used, output, failed>>

(***************************************************************************)
(* Running a program.                                                      *)
(***************************************************************************)
\* Mutant: the results are written in the loop.
PartWritesInLoop(n) ==
  CASE n = 0 -> Script(example, lang).before
    [] n \in 1 .. Samples -> Script(example, lang).sample \o Script(example, lang).after
    [] OTHER -> Script(example, lang).after

\* The operations of part n.
Part(n) ==
  CASE n = 0 -> Script(example, lang).before
    [] n \in 1 .. Samples -> Script(example, lang).sample
    [] OTHER -> Script(example, lang).after

Unassigned == [v \in Variable |-> {Unset}]
NotUsed == [at |-> 0, from |-> {}]

Doing(names) == status = "running" /\ todo # <<>> /\ Head(todo).do \in names

\* A MATLAB program's calls go through the gateway.
AfterCall(do) ==
  IF lang = "matlab" /\ do \in Command THEN Passage(Gateway(do), Passed(do)) ELSE "running"

Advance == todo' = Tail(todo) /\ status' = AfterCall(Head(todo).do) /\ UNCHANGED i

\* The locals of the C programs are declared inside the loop; the others keep
\* theirs, as all programs do with what was set before the loop.
Locals ==
  IF lang = "c" THEN [v \in Variable |-> IF v \in Outer(example) THEN value[v] ELSE {Unset}]
  ELSE value

\* Mutant: the loop's bound is one too large.
NextPartOneMore ==
  /\ status = "running" /\ todo = <<>>
  /\ i' = i + 1
  /\ IF i <= Samples + 1 THEN todo' = Part(i + 1) /\ UNCHANGED status
                         ELSE UNCHANGED todo /\ status' = "done"
  /\ value' = Locals
  /\ UNCHANGED <<process, owner, used, output, failed>>

\* On to the next sample, or to what follows the sweep, or to the end.
NextPart ==
  /\ status = "running" /\ todo = <<>>
  /\ i' = i + 1
  /\ IF i <= Samples THEN todo' = Part(i + 1) /\ UNCHANGED status
                     ELSE UNCHANGED todo /\ status' = "done"
  /\ value' = Locals
  /\ UNCHANGED <<process, owner, used, output, failed>>

\* Mutant: the Fortran wrappers return after a failed call.
ChecksStatusButFortran == lang \in {"csharp", "matlab"}

\* NativeMethods.Check throws, optics_check stops, fail_status leaves the MEX
\* function with an error; the C programs look at no status.
ChecksStatus == lang # "c"

\* The library may be out of memory at any call, and a file may not open.
MayFail == Cardinality(failed \cup {i}) <= MaxFaults

\* A call that does not return OK.
Fails ==
  /\ failed' = failed \cup {i}
  /\ UNCHANGED i
  /\ IF ChecksStatus THEN status' = "aborted" /\ todo' = <<>>
                     ELSE todo' = Tail(todo) /\ UNCHANGED status

Succeeds == Advance /\ UNCHANGED failed

Assign(v, from) == value' = [value EXCEPT ![v] = from]

\* The sample, or the pass, is an argument of these.
TakesSample == {"add_layer", "propagate_direction", "last_matrix_s", "last_matrix_p",
                "ellipsometric_psi_delta", "find_in_structure", "interp_nk_quadratic"}

From(vs) == UNION {value[v] : v \in vs}
Now(pass) == IF i \in 1 .. Samples THEN {<<i, pass>>} ELSE {}

Result(op) == From(op.from) \cup (IF op.do \in TakesSample THEN Now(op.n) ELSE {})

\* The handle the calls are given.
Handle == IF lang = "matlab" THEN h ELSE stack

(***************************************************************************)
(* The stack.                                                              *)
(***************************************************************************)
\* A new stack in the stack variable.  Fortran gives up the old stack before
\* the allocation; MATLAB deletes the old object when the variable has got the
\* new one, and keeps it when the constructor fails; C and C# leave it alone.
\* MATLAB's moment with two objects, inside one statement, is not a state of its own.
DoCreate ==
  /\ Doing({"create"})
  /\ \/ \E s \in Object \ live :
          /\ stack' = s
          /\ live' = (IF lang \in {"fortran", "matlab"} THEN live \ {stack} ELSE live)
                     \cup {s}
          /\ Assign("built", {})
          /\ Succeeds
     \/ /\ MayFail /\ Fails
        /\ stack' = IF lang = "matlab" THEN stack ELSE Null
        /\ live' = IF lang = "fortran" THEN live \ {stack} ELSE live
        /\ Assign("built", {Unset})
  /\ UNCHANGED <<process, h, used, output>>

\* A failed add_layer leaves a stack that lacks the layer.
DoFill ==
  /\ Doing({"add_layer"})
  /\ \/ /\ stack # Null
        /\ Assign("built", Result(Head(todo)))
        /\ Succeeds
     \/ /\ stack = Null \/ MayFail
        /\ Assign("built", From({"built"}) \cup {Unset})
        /\ Fails
  /\ used' = NotUsed
  /\ UNCHANGED <<process, owner, output>>

DoGetHandle ==
  /\ Doing({"getHandle"})
  /\ h' = stack
  /\ Succeeds
  /\ UNCHANGED <<process, stack, live, value, used, output>>

\* optics_layer_stack_destroy: C keeps the address in its variable, the wrappers
\* of C# and Fortran reset theirs.
DoFree ==
  /\ Doing({"destroy"})
  /\ live' = live \ {stack}
  /\ stack' = IF lang = "c" THEN stack ELSE Null
  /\ Succeeds
  /\ UNCHANGED <<process, h, value, used, output>>

(***************************************************************************)
(* The calls.                                                              *)
(***************************************************************************)
\* These copy the layers, and may be out of memory.  A stack that lacks layers
\* (only a C program goes on with one) may be rejected, or be worked with.
StackCall == {"propagate_direction", "last_matrix_s", "last_matrix_p",
              "interface_transfer_matrix_p", "get_structure_pos",
              "propagate_matrix_to_depth", "get_absorbed_energy_density_p",
              "ellipsometric_psi_delta"}

DoStackCall ==
  /\ Doing(StackCall)
  /\ \/ Handle # Null /\ Assign(Head(todo).to, Result(Head(todo))) /\ Succeeds
     \/ (Handle = Null \/ Unset \in value["built"] \/ MayFail) /\ Fails /\ UNCHANGED value
  /\ UNCHANGED <<process, owner, used, output>>

\* Only a layer that is not there can fail it.  The last one, whose index is fixed,
\* is missing where an add_layer failed; of the one at a depth nothing is certain
\* then.  Example 1 in C sets the index to 0 before it calls find_in_structure: if
\* that call fails it gets the first layer, and if it was given positions that were
\* not computed the index is any number.
DoGetLayers ==
  /\ Doing({"get_layer"})
  /\ LET lacking == Unset \in value["built"]
         atDepth == "found" \in Head(todo).from
         anyIndex == atDepth /\ Unset \in value["found"] /\ value["found"] # {Unset} IN
     \/ /\ Handle # Null /\ (lacking => atDepth)
        /\ Assign("layers", Result(Head(todo)))
        /\ Succeeds
     \/ (Handle = Null \/ lacking \/ anyIndex) /\ Fails /\ UNCHANGED value
  /\ UNCHANGED <<process, owner, used, output>>

\* These copy an array first.
ArrayCall == {"apply_multilayer_effect", "find_in_structure"}

DoArrayCall ==
  /\ Doing(ArrayCall)
  /\ \/ Assign(Head(todo).to, Result(Head(todo))) /\ Succeeds
     \/ MayFail /\ Fails /\ UNCHANGED value
  /\ UNCHANGED <<process, owner, used, output>>

\* These compute numbers from numbers and cannot fail.
NumberCall == {"get_r_t_from_tmm", "mat_vec", "apply_spr_effect", "get_r_t_power_s",
               "get_r_t_power_p", "get_unpolarized_r_t_power", "get_poynting_vector_p",
               "get_e_field_p"}

DoNumbers ==
  /\ Doing(NumberCall)
  /\ Assign(Head(todo).to, Result(Head(todo)))
  /\ Succeeds
  /\ UNCHANGED <<process, owner, used, output>>

\* What was not computed may be an index, or how many elements an array has: after
\* a failed interface_transfer_matrix_p the count is still the capacity, 8, and
\* Example 1 in C writes vw_list[8], past its end; positions that were not computed
\* give any layer; and where a stack has no interface the helpers and the library
\* take the last of no matrices.
ReliesOn(do) ==
  CASE do = "mat_vec" -> "iface"
    [] do \in {"last_matrix_s", "last_matrix_p", "ellipsometric_psi_delta"} -> "built"
    [] OTHER -> "pos"

Unchecked == {"mat_vec", "last_matrix_s", "last_matrix_p", "ellipsometric_psi_delta",
              "propagate_matrix_to_depth", "get_absorbed_energy_density_p",
              "get_poynting_vector_p", "get_e_field_p"}

DoStray ==
  /\ Doing(Unchecked)
  /\ lang = "c" /\ Unset \in value[ReliesOn(Head(todo).do)]
  /\ Head(todo).do \in StackCall => stack # Null
  /\ status' = "undefined"
  /\ UNCHANGED <<process, i, todo, owner, value, used, output, failed>>

\* The wavelengths of the sweep run from one end of the table to the other.
Wavelength ==
  IF i = 1 THEN {Table[1]}
  ELSE IF i = Samples THEN {Table[Len(Table)]} ELSE Table[1] .. Table[Len(Table)]

DoInterpolate ==
  /\ Doing({"interp_nk_quadratic"})
  /\ \E x \in Wavelength : used' = [at |-> x, from |-> Interp(lang, Table, x)]
  /\ Assign("nk", Result(Head(todo)))
  /\ Succeeds
  /\ UNCHANGED <<process, owner, output>>

DoStore ==
  /\ Doing({"store"})
  /\ rows' = [rows EXCEPT ![i][Head(todo).n] = From(Head(todo).from)]
  /\ Succeeds
  /\ UNCHANGED <<process, owner, value, used, files, shown, said>>

\* Mutant: with plugins nothing is shown.
PlotsNothing(curves) == UNCHANGED shown

\* A C program of a build with plugins plots, and looks at no status.
Plots(curves) == shown' = shown \cup {curves}

\* C says "wrote" also when the file did not open.  That is the one way to fail: a
\* disk that is full after the file opened, at a row or at the final flush, is left out.
DoWrite ==
  /\ Doing({"write"})
  /\ LET curves == Head(todo).n IN
     \/ /\ ~plugins
        /\ files' = files \cup {[curves |-> curves, commas |-> Commas(lang, curves)]}
        /\ said' = said \cup {curves}
        /\ Succeeds /\ UNCHANGED shown
     \/ /\ ~plugins /\ MayFail /\ Fails
        /\ said' = IF ChecksStatus THEN said ELSE said \cup {curves}
        /\ UNCHANGED <<files, shown>>
     \/ plugins /\ Plots(curves) /\ Succeeds /\ UNCHANGED <<files, said>>
     \/ plugins /\ MayFail /\ Fails /\ UNCHANGED <<files, shown, said>>
  /\ UNCHANGED <<process, owner, value, used, rows>>

NoRows == [s \in 1 .. Samples |-> [p \in Pass |-> {Unset}]]

\* Another script in the same MATLAB session: `stack' and `h' are those of the
\* last one, and every other variable is set before it is used.
RunScript ==
  /\ status # "running" /\ lang = "matlab" /\ runs < MaxRuns
  /\ runs' = runs + 1
  /\ \E e \in Example : example' = e /\ todo' = Script(e, lang).before
  /\ status' = "running" /\ i' = 0
  /\ value' = Unassigned /\ used' = NotUsed
  /\ rows' = NoRows /\ files' = {} /\ shown' = {} /\ said' = {} /\ failed' = {}
  /\ UNCHANGED <<lang, plugins, owner>>

\* A process that ended, and a session at rest.
Ended == status # "running" /\ UNCHANGED vars

Init == /\ lang \in Language /\ example \in Example
        /\ plugins \in (IF lang = "c" THEN Plugins ELSE {FALSE})
        /\ runs = 1 /\ status = "running" /\ i = 0
        /\ todo = Script(example, lang).before
        /\ stack = Null /\ h = Null /\ live = {}
        /\ value = Unassigned /\ used = NotUsed
        /\ rows = NoRows /\ files = {} /\ shown = {} /\ said = {}
        /\ failed = {}

Next == \/ NextPart \/ RunScript \/ Ended
        \/ DoCreate \/ DoFill \/ DoGetLayers \/ DoGetHandle \/ DoFree
        \/ DoStackCall \/ DoArrayCall \/ DoNumbers \/ DoInterpolate \/ DoStray
        \/ DoStore \/ DoWrite

Spec == Init /\ [][Next]_vars
--------------------------------------------------------------------------------
(***************************************************************************)
(* Properties.                                                             *)
(***************************************************************************)
\* Every variable has the shape the code gives it.
TypeOK ==
  /\ lang \in Language /\ example \in Example /\ plugins \in BOOLEAN
  /\ runs \in Nat /\ status \in {"running", "done", "aborted", "undefined"}
  /\ i \in 0 .. Samples + 2
  /\ stack \in Object \cup {Null} /\ h \in Object \cup {Null}
  /\ live \subseteq Object
  /\ value \in [Variable -> SUBSET Origin]
  /\ used \in [at : Int, from : SUBSET (1 .. Len(Table))]
  /\ rows \in [1 .. Samples -> [Pass -> SUBSET Origin]]
  /\ files \subseteq [curves : Nat, commas : [header : Nat, row : Nat]]
  /\ shown \subseteq Nat /\ said \subseteq Nat
  /\ failed \subseteq 0 .. Samples + 1

\* The results of a program: one for each sample and pass.
Computed(e) == IF e = "reflection" THEN {1, 2} ELSE {1}
Own(s, pass) == rows[s][pass] = {<<s, pass>>}
Written == {f.curves : f \in files}

\* A program that says it wrote a file has opened and written it, on a disk that
\* holds it, and computed each row from its own sample alone; the programs that
\* check no status, at least when no call failed.
FileIsTrustworthy ==
  said # {} /\ (lang # "c" \/ failed = {}) =>
    /\ said \subseteq Written
    /\ \A s \in 1 .. Samples, pass \in Computed(example) : Own(s, pass)

\* In a C program, whose failed calls go unnoticed, a failure spoils no other
\* sample than its own, except when the stack all samples share was being built.
FaultStaysInSample ==
  \A s \in 1 .. Samples, pass \in Computed(example) :
    s < i /\ ~Own(s, pass) => failed \cap {0, s} # {}

\* Between two operations a program never has two stacks, or one that its variable
\* does not hold; a C or C# program that ran to its end has none.
NoStackLost ==
  /\ live \subseteq {stack}
  /\ status = "done" /\ lang \in {"c", "csharp"} => live = {}

\* No call is given a stack that was destroyed, though the number MATLAB's
\* getHandle returned outlives the object, and the C variable the stack.
CallsUseLiveStack ==
  /\ Doing(StackCall \cup {"get_layer"}) => Handle \in live \cup {Null}
  /\ Doing({"add_layer", "destroy"}) => stack \in live \cup {Null}

\* A program stops early, or leaves what the languages define, only after a call
\* that failed in the same sample or before the sweep: no script passes the MATLAB
\* gateway too few arguments or one of another kind, or asks it for a result it has
\* not, and in C no index or count that a failed call left in one sample is used in
\* a later one.
StopsOnlyOnFault == status \in {"aborted", "undefined"} => failed \cap {0, i} # {}

\* A program that ran to its end, the C programs of either build included, has
\* delivered every result, as a file or as a plot and not both; only a file that did
\* not open or a plot that failed excuses a result that is missing, never a call that
\* failed before the results were complete.
Due == IF example = "transmission" THEN {1}
       ELSE IF example = "absorption" /\ lang # "matlab" THEN {2, 3} ELSE {2}
ResultsDelivered ==
  /\ status = "done" /\ Samples + 1 \notin failed => Written \cup shown = Due
  /\ Written = {} \/ shown = {}

\* An index for a wavelength between the ends of the table comes from three
\* neighbouring samples around it, the same ones in every language.
InterpolationEncloses ==
  used # NotUsed /\ Inside(Table, used.at) =>
    /\ Encloses(used.from, Table, used.at)
    /\ \A l \in Language : Interp(l, Table, used.at) = used.from

\* The programs as the report a reader relies on: the rows passed that are their own,
\* and the results delivered.
Right == {s \in 1 .. Samples : s < i /\ \A pass \in Computed(example) : Own(s, pass)}
Report == INSTANCE SweepReport WITH
            Orders <- {{1}, {2}, {2, 3}}, strict <- lang # "c", due <- Due,
            state <- IF status \in {"running", "done"} THEN status ELSE "stopped",
            at <- i, faulty <- failed, own <- Right, out <- Written \cup shown

\* Each of the twenty programs, whatever fails, implements the report: no row changes
\* once its sample is over, no result is delivered before the sweep is, a failed call
\* excuses the rows of its own sample only, or the results that are missing if it is
\* one of those that deliver them.
ImplementsReport == Report!Spec

\* README.md: "without Python plugins they emit CSV under `output/`."  A file has
\* as many separators in each row as in its header.
RowsMatchHeader == \A f \in files : f.commas.row = f.commas.header
================================================================================
