# A TLA+ verification of optics_toolkits

optics_toolkits puts a C ABI around a C++ solver for light in stacks of thin
layers (the transfer matrix method, TMM) and around Python plotting, and binds
that ABI to C#, Fortran and MATLAB. The solver and the plotting engine live in
the git submodule `core`, which is not part of this repository. What *is* here
is the layer where a numeric library meets foreign callers: opaque handles,
in/out counts, status codes with a text fetched separately, indices that change
base between languages, a process-wide plotting engine initialised by whoever
comes first. This project models that layer.

## 1. Inventory

| Component | Source | State it keeps | Operations |
|---|---|---|---|
| Exception bridge | `src/c/internal/exception_bridge.hpp`, `src/c/optics_api.cpp` | `thread_local std::string g_last_error` | `guard`, `set_error`, `optics_last_error`, `optics_clear_error` |
| Layer stacks and TMM calls | `src/c/optics_tmm.cpp` | heap object `LayerStackImpl` per handle; no other state | create, add_layer, layer_count, get_layer, destroy; calls that fill an array (directions, interface matrices, positions); calls that combine such arrays with the stack; whole-stack helpers |
| Visualisation bridge | `src/c/optics_viz.cpp` | `g_py_once`, and behind it `py_engine` and `py_plugin::paths` of the core | `optics_py_init`, `optics_py_shutdown`, three plotting functions |
| C# binding | `bindings/csharp/OpticsToolkits` | `_handle`, `_disposed` of each `LayerStack`; a static library resolver | `Dispose`, wrappers with arrays of 16, `Check` |
| Fortran binding | `bindings/fortran/optics_toolkits.f90` | `handle` of each `optics_layer_stack` | create/destroy/final, wrappers with one-based indices, `optics_check` |
| MATLAB binding | `bindings/matlab` | `handle` (a double) of each `LayerStack` | `mexFunction`'s commands, `fail_status` |
| Examples | `examples/*` | locals only | five programs, each in four languages; plot-or-CSV output |
| Example output | `examples/common/output.h`, `csv_output.f90`, `OutputHelper.cs`, `write_csv.m` | a file | CSV writers, plot-or-CSV |
| Index interpolation | `examples/c/common_example.h`, `Tmm.cs`, `optics_toolkits.f90`, `ex_03_transmission_spectrum.m` | none | `interp_nk_quadratic`, four translations |
| Precision conversion | `src/c/internal/precision.hpp` | none | float/double casts |
| Core | submodule, absent | solver, Python engine | external |

**How they interact.** A binding calls the C ABI with a handle and with arrays it
owns. A fallible entry point runs its body in `guard`, which clears the thread's
`g_last_error`, catches every exception, stores a text and returns a status. The
binding then makes a *second* call for the text. Results travel through the
caller: propagation angles come out of one call and go into the next together
with a stack that may have changed in between; a layer index comes out of
`find_in_structure`, through the index conversion of the language, and back in.
Plots pass through `ensure_py`, which initialises the Python engine inside
`std::call_once`.

**What is hard in it, and what makes each part correct.**

* *Exception bridge*: threads interleave between the failing call and the fetch
  of its text; the order of catch clauses decides the status; `set_error` can
  itself run out of memory inside a handler. Correct: the text a client is shown
  is that of its own call, and an out-of-memory body is always reported.
* *TMM calls*: counts that are capacity going in and length coming out and are
  reused after failures; arrays that outlive the state of the stack they were
  computed from, checked by length only or not at all; `n - 1` of an accepted,
  empty result. Correct: a count never exceeds the caller's array; outdated
  angles are never accepted; unchecked reads stay in range under a condition the
  caller can meet.
* *Depth lookup*: one algorithm in four languages with two bases and three
  conventions of index conversion, plus a C helper that ought to do the same.
  Correct: every program evaluates a depth with the data of the layer it is in.
* *Plotting engine*: several first callers, initialisations that throw half way,
  and a shutdown that takes no lock and does not reset the flag. Correct: one
  completed initialisation wins, `OK` means initialised, everybody who waits
  returns, shutdown is final.
* *Handle ownership* (bindings): three languages wrap the same raw pointer with
  three kinds of automatic destruction. Correct: one destroy per handle, and no
  use after it.
* *Sweeps* (the examples): hundreds of samples, each through several calls, with
  a stack shared by all samples or made for each; the languages differ in what a
  failed call does (nothing, an exception, a stop, an error) and in how long locals
  and stacks live. Correct: what is delivered holds in each row the results of that
  row's sample; everything computed is delivered, as a file or as a plot; no call
  meets a destroyed stack; no stack is lost.
* *The MATLAB gateway*: one function for all commands, untyped arguments read by
  position, for some commands without counting them. Correct: every call the scripts
  make is understood as it was meant, and numbers come back as they went in.
* *Index interpolation*: one search translated four times, with ends, a table that is
  too short and one that is out of order. Correct: a value between the ends comes from
  the three samples around it, the same ones in every language.

The full list of hazards, each at its line, is `hazards` in `PROJECT.json`.

## 2. Modules

| Module | Models | Proofs |
|---|---|---|
| `LastErrorRegister` | abstract: one outcome register per thread | |
| `ErrorBridge` | `guard`, `set_error`, the error functions and their clients; implements `LastErrorRegister` | `ErrorBridgeProofs` |
| `TmmSession` | layer stacks, the array-filling calls, the calls that combine | `TmmSessionProofs` |
| `DepthField` | Example 1 in four languages, and the C helper | `DepthFieldProofs` |
| `OnceCell` | abstract: a first-wins cell | |
| `VizEngine` | `ensure_py`, plots and shutdown; implements `OnceCell` | `VizEngineProofs` |
| `CSharpStack` | one `LayerStack` of the C# binding, used and disposed of by several threads | `CSharpStackProofs` |
| `FortranStack` | the `optics_layer_stack` variables of a Fortran program, and `optics_check` | `FortranStackProofs` |
| `ExamplePrograms` | the five examples in four languages as sequences of operations, and the CSV writers | |
| `MexGateway` | the MEX function: its commands, the arguments it reads and those the scripts pass | |
| `InterpNk` | `interp_nk_quadratic` in four languages | `InterpNkProofs` |
| `SweepReport` | abstract: what a reader of an example's results may rely on | |
| `ExampleSweep` | runs the programs of `ExamplePrograms` through `MexGateway` and `InterpNk`: failed calls, stacks, rows, files and plots; implements `SweepReport` | `ExampleSweepProofs` |

`MC*.tla` give constants values for TLC or declare symmetry; each `.cfg` is one run.
An operator commented `Mutant:` is a plausible bug in the definition that follows
it. It is not used by any specification; substituting it must break a property.

### ErrorBridge

`pc[t]` walks a thread through the protocol: `Enter` is `set_error("")` and the
start of the body, `BodyReturns`/`BodyThrows` end it, `Catch` is the chosen catch
clause, `SetErrorThrows` is `bad_alloc` while the `std::string` argument of
`set_error` is built. The client's side is `Accept` (status ignored or OK) or
`GetLastError` (the pointer), `CopyMessage` (the bytes behind it, by then) and
`Handled`. Catch clauses are a sequence of class names tried in order against
the classes of the exception, so the effect of their order is computed and not
assumed. Which function threw, and what its body does, is left open: the bridge
is the same for all of them. `NotAvailable` is the path of a build without
plugins, which does not go through `guard`.

### TmmSession

One client and the stacks it creates. Angles, matrices and positions are
abstracted to *provenance*: an array `dir`, `mats` or `pos` carries the stack and
the layers it was computed from (`src`), the caller's count variable (`n`) and
whether the latest call on it succeeded (`valid`); `kind` says whether the matrices in
the array are those of the interfaces or the products `apply_multilayer_effect` puts in
their place. The argument of a call says
whether the caller resets the count first (`"full"`, as the bindings do) or
passes what the last call left (`"left"`), or a null pointer. Every body may run
out of memory. A read outside a vector sets the status `UNDEFINED` and the
session stops there. The functions from numbers to numbers are one action, which
changes nothing but the latest call. A client of the model uses live handles or null;
use after destroy is a matter of ownership, modelled for the bindings. Calls by several
threads on one stack are not in the model: the library has no lock, so concurrent mutation is a data race that the
callers must exclude.

### DepthField

An interface matrix is a free symbol and a product the sequence of its factors,
so two programs compute the same amplitudes for all matrices exactly when the
sequences agree. `prog` picks one of the four example programs or the helper;
each language has its first row (`Base`), the index its binding returns
(`FoundIndex`), the C index it passes back (`CIndex`) and the row it reads
(`Row`). The stack has at least two layers, as every stack of the examples has.

### VizEngine

`once` is the state of the `std::once_flag`; `pc[t]` is outside, waiting at
`call_once`, inside the lambda (before the engine is up, then before the paths are
set) or past it. An exception leaves the lambda with the flag unset. `dirs[t]` is
the list a caller passes (empty for plots), with null or empty entries (`NoDir`),
which `ensure_py` drops. A plot on a disposed engine is undefined and stops the
model; nothing in the repository forbids a caller to do that, so the property says that
a shutdown is the *only* way there (`UndefinedOnlyAfterShutdown`). The other way it
excludes is `optics_viz_imshow`, which multiplies the dimensions of an image in `size_t`:
`Misread` are the images for which the product is not the number of elements. `Image` is
what a caller can have in memory (`ImageAssumption`): a `size_t` can count all of its
elements. A product of *leading* dimensions may be larger and wrap, if a later dimension
is 0; that the count is right nevertheless is `ImagesReadWhole`.

### CSharpStack

The getter of `Handle` is two steps (test `_disposed`, read `_handle`) and the native
call two more (enter, return, with the stack read in between). `Dispose` is six:
test `_disposed`, test `_handle`, read `_handle` again as the argument, destroy, reset
`_handle`, set `_disposed`. Two history variables record whether another thread's
`Dispose` overlapped an operation (`over`) and whether one had returned before it
began (`late`, from `returned`). The class has no finaliser, so the garbage collector
takes no part. The fields are taken as sequentially consistent: an operation that
begins after a `Dispose` returned is one the program ordered after it.

### FortranStack

`handle[v]` is the C pointer in each variable, `phase` and `count` are the C++ objects.
`Assign` is intrinsic assignment as the Fortran standard defines it for a type with a
finaliser and no defined assignment: the left side is finalised, then the pointer is
copied. Leaving a scope is `Destroy`. Indices become `size_t` values modulo
`SizeMod`. `optics_check` is modelled by what its first `write` does: the items are
matched with the edit descriptors, and one that does not fit ends the program.

### ExamplePrograms and ExampleSweep

`ExamplePrograms` writes each of the twenty source files as three sequences of
operations (before the sweep, one sample, after it). An operation names the call, the
variables it reads and the one it writes; `Script` selects the program. `ExampleSweep`
runs one: `todo` is what is left of the current part, and each kind of operation is an
action (`DoCreate`, `DoFill`, `DoStackCall`, `DoWrite`, ...). Numbers are abstracted to
the set of samples and passes they were computed from: `value` for the locals and the
layers in the stack, `rows` for the results, with `Unset` for an element nobody
computed. A C local is `Unset` again in each sample, because it is declared inside the
loop; `Outer` are those declared before it. Every call that allocates may fail
(`MayFail`), and calls on a null handle do; `ChecksStatus` says whether the language's
binding then ends the program. A C program goes on, and where it uses as an index or a
count what nobody computed, or takes the last of no matrices, its behaviour is undefined
(`DoStray`). `stack` is the variable that owns the stack; MATLAB passes `h`, the number
`getHandle` returned, which is a second copy. Replacing the stack of a MATLAB variable is
one operation, `DoCreate`: the constructor's allocation, the assignment and the deletion
of the old object, between which no other operation of the program comes, and two stacks
exist for a moment. A MATLAB session keeps its variables when
the next script starts (`RunScript`). A new stack may get the address of a destroyed
one. A C program of a build with plugins plots (`shown`), every other one writes files
(`files`), abstracted to the separators the writer puts into header and rows; `said` are
the files the program says it wrote. `get_layer` fails only for a layer that is not there
(`DoGetLayers`); the index it is given in Example 1 in C is 0 if `find_in_structure`
failed, which is a layer, and any number if the positions were not computed.

`SweepReport` is what all twenty programs promise whatever fails: the samples in order,
the rows of each settled when the program leaves it, wrong only where a failed call
excuses them, no stop but for a call that failed in the same sample or before the sweep,
the results delivered after the sweep, none missing at the end unless delivering it
failed. A program whose binding checks the status is `strict`. The refinement
mapping takes `Right`, the samples passed whose rows are their own, for `own`, and the
files and plots together for `out`.

### MexGateway

`Gateway(cmd)` is what the MEX function asks of a command: the fewest arguments it
accepts, the kinds it reads by position, and how many results it has. `Passed(cmd)` is
what `LayerStack.m` and the scripts give it. `Passage` compares the two: rejected,
understood, or read as something else. Every call of a MATLAB program in `ExampleSweep`
takes its status from there (`AfterCall`). The conversions of matrices, complex numbers
and angles are operators of their own; `MCExampleSweep` has TLC evaluate
`GatewayAssumption`, that what came out goes back in as it was, for all 2 x 2 matrices
over four complex numbers and arrays of up to four angles where three fit.

### InterpNk

`Interp(lang, wl, x)` is the set of samples that enter the index at `x`: the first or the
last, three neighbours, or the fallback in the middle, which MATLAB counts differently.
The arithmetic on the three samples is left out. `ExampleSweep` interpolates at
wavelengths from one end of the table to the other (`Wavelength`).

## 3. Runs

| Run | Bounds | What it shows |
|---|---|---|
| `error_bridge` | 2 threads, one short and one long text, no plugins | type; the text belongs to the call and to its thread in every interleaving; out of memory is survivable; refinement of `LastErrorRegister` |
| `error_stale` (violation) | 1 thread | a call that answers `NOT_AVAILABLE` shows the text of an earlier failure |
| `tmm_session` | 1 stack and null, 2 materials, arrays of 2, stacks of up to 3 layers | counts stay in the array; accepted angles are current; reads at a depth in range; the last matrix is missing only for one layer; a failed call leaves the results in an array as they were |
| `depth_field` | stacks of 2 to 6 layers, every depth, 5 programs | the list loop and the index conversions are right in every language; the helper is right in the first layer |
| `depth_helper` (violation) | up to 4 layers | the helper differs from Example 1 below the first layer |
| `depth_matlab` (violation) | up to 4 layers | the MATLAB example uses one layer's index for all depths |
| `viz_engine` | 3 threads, 2 directories, lists of at most 1, 1 failing initialisation, images of up to 3 dimensions of 0, 1, 3 or 7, a `size_t` of 3 bits | one initialiser; `OK` implies initialised; only a shutdown leads to undefined behaviour; shutdown final; a thread inside a call can always go on unless another one holds the flag; waiting calls return; refinement of `OnceCell` |
| `csharp_stack` | 3 threads, 1 object | only an overlapping `Dispose` is dangerous; later operations throw; a returned `Dispose` has destroyed the stack |
| `fortran_stack` | 2 variables, 3 objects, 2 layers, 3-bit `size_t` | no leak; danger only from copies; `get_layer` accepts exactly 1 to n |
| `fortran_check` (violation) | the same | a failed check never shows the library's message |
| `example_sweep` | 20 programs, both builds, 3 samples, failures in up to 2 of them (or in the set-up), 2 addresses, 2 MATLAB scripts, a table of 5 wavelengths | an announced file holds each sample's own results, in C only if nothing failed; a failure in C spoils its own sample or, in the set-up, all; no stack lost between two operations; no call on a destroyed stack; no early stop, wrong argument or stray index without a call that failed in the same sample or the set-up; every result delivered once, unless delivering it failed; interpolation from the samples around; refinement of `SweepReport` |
| `sweep_csv` (violation) | no failures | the rows of the Fortran Example 3 lack the header's separator |

**Why the bounds suffice.** Two threads are enough to tell a private text from a
shared one, and the plugin-less build contains every action of the other build.
In `tmm_session` the stack may outgrow the arrays by one, which separates
accepted from rejected and current from outdated, and two materials tell two
stacks of the same size apart (the materials are interchangeable, hence the
symmetry). Up to six layers contain every boundary of the list loop: first, last
and interior rows. In `viz_engine` two threads can wait while the third
initialises, disagree about the directories, and see one initialisation fail
before or after the engine was started. Three threads in `csharp_stack` are a use and
two racing `Dispose`s; two variables and three objects in `fortran_stack` let one
variable create again while the other holds a copy, and negative indices wrap. In
`example_sweep` three samples are a first, an interior and a last one, two failures
hit the set-up and a sample or two samples, and two scripts let a stack and a handle
survive into the next one; the wavelengths meet both ends of the table, its samples and
every gap between them. With a `size_t` of 3 bits an image can have all the elements
that can be counted, and leading dimensions, 7 by 7 or 3 by 3 before a 0, whose product
cannot. Every property of the passing runs but `OnlyTheFlagBlocks` is also
proved without the bounds, `CallsReturn` with `OnlyTheFlagBlocks` as a hypothesis.

**Deadlock** is checked in `depth_field`, `fortran_stack` and `example_sweep`: their
programs stutter explicitly once they have ended (`Done`, `Ended`), and before that they
always have a next step. The other systems may really stop: an exception leaves the ABI,
undefined behaviour is reached, or the last stack was destroyed.

**Fairness.** Only `VizEngine` states any: weak fairness of every thread's
steps *inside* a call. It says that the scheduler runs a thread that can go on
and that the external functions return. Nothing forces a thread to call. Weak
fairness is enough for waiting threads too: the flag changes hands only at the
end of an initialisation, at most `MaxFails` of them throw, and once the flag is
set it stays set, so that passing it is then continuously possible. `Schedulable(t)` is
the premise of `t`'s fairness, and `OnlyTheFlagBlocks` says when it holds.

## 4. Findings

* `MessageIsOfLastError` fails: in a build without plugins the plotting functions
  return `OPTICS_ERR_NOT_AVAILABLE` without clearing the last error, so the
  C# `Check` and the Fortran `optics_check` report the text of an earlier
  failure, or none.
* `HelperIsExample` fails: `optics_tmm_compute_forward_backward_at_depth`
  multiplies *all* interface matrices onto the transmitted wave before it applies
  the phase of the depth's layer. The amplitudes are right in the first layer only
  (`HelperAtSurface` holds, and is proved).
* `PoyntingOfLayer` fails: the MATLAB Example 1 passes the refractive index of its
  second layer for every depth.
* `FailureShowsMessage` fails: `optics_check` writes three character items with the
  format `(A,I0,A)`. The run-time library stops the program at the second item, before
  the line that shows `optics_last_error_message()`.
* `RowsMatchHeader` fails: the Fortran `write_csv_2col` separates the names in the header
  with a comma and writes the rows with `(ES23.15,ES23.15)`, without one.

Not findings, since no document promises otherwise, but worth knowing: in C#, two
threads in `Dispose` may destroy the stack twice and a use may overlap its
destruction (the states with `over`); in Fortran, `a = b` makes two variables finalise
one stack (the states with `copied`); after `optics_py_shutdown`, `optics_py_init`
answers `OK` without an engine; the C examples check no status, so that after a failed
call a row may hold numbers computed from the angles of the other pass or from a matrix
nobody wrote, and say "wrote" also when the file did not open (`FileIsTrustworthy` and
`FaultStaysInSample` say how far that goes).

## 5. Proofs

All theorems are checked by TLAPS for every value of the constants, under the
named assumptions of the modules: texts are not empty and the two texts `guard`
supplies itself fit the in-place buffer (`TextAssumption`, `PluginsAssumption`);
null is no stack, arrays have room for at least one element
(`NullAssumption`, `SizeAssumption`); at least two layers are allowed
(`MaxLayersAssumption`); the empty entry is no directory (`DirAssumption`,
`BoundAssumption`); an image's array is in memory, so that the number of its elements, though not every
product of leading dimensions, fits a `size_t` (`ImageAssumption`); the table is
sorted and has three samples or more (`TableAssumption`).

* **ErrorBridge** — `TypeCorrect`, `LastErrorCorrect`, `ReportCorrect`,
  `OutOfMemorySurvivable`, `OnlyRefusalsMislead`, `PluginsKeepThePromise`, `Refinement`.
  The properties speak of the time after a call; `CallInv` adds what holds inside one: a
  pending call has an empty text, a copied report equals the register it was copied from,
  and an error status of `guard` has an exception behind it. The refinement
  takes each action to `Begin`, `Finish`, `Refuse`, `Forget`, `Deliver`, `Crash`
  or a stutter. `OnlyRefusalsMislead` bounds the finding `MessageIsOfLastError`: a
  foreign text is shown only after `OPTICS_ERR_NOT_AVAILABLE`; hence never in a build
  with plugins.
* **TmmSession** — `TypeCorrect`, `CountsCorrect`, `AcceptedDirCorrect`,
  `DepthReadsCorrect`, `LastMatrixCorrect`, `ResultsKept`, `ObservantCallIsDefined`,
  `StacksOnlyGrow`. The length check accepts only current angles because stacks *only
  grow* (`StacksOnlyGrow`, an action property): `SourceInv` says that an array's source
  is a prefix of its stack as it is now, and a prefix of equal length is the stack.
  `ValidInv` ties the counts of accepted arrays to their sources.
  `ObservantCallIsDefined` sums up what the unchecked functions leave to their caller
  (`Observed`): depths are read with an index found in positions of the same stack,
  however old, and with its present angles; matrices are taken where there is an
  interface. A call for which this holds is never undefined, whatever came before it;
  `UncheckedInv` says that no other function can be.
* **DepthField** — `TypeCorrect`, `ListCorrect`, `FieldCorrect`,
  `HelperSurfaceCorrect`, `HelperDiffersBelowSurface`, `PoyntingCorrect`, `LoopsEnd`.
  `LoopInv` bounds the loop variable in each language's own counting; `HelperInv` is the
  helper's loop invariant. The lemmas `SuffixStep` and `IndexRoundTrip` carry the
  argument. `LoopsEnd` counts the steps a program has left, from the same two invariants:
  `n + 1` at first, one less with each step, none exactly when it is done.
  `HelperDiffersBelowSurface` and `PoyntingCorrect` make two findings exact: below the first layer the helper's product has too many factors for
  *every* stack and depth, and the Poynting vector of the MATLAB example is right in its
  second layer only, that of the others everywhere.
* **VizEngine** — `TypeCorrect`, `OneInitializer`, `OkIsReady`, `ImagesReadWhole`,
  `UndefinedAfterShutdown`, `ShutdownFinal`, `Refinement`, `EveryCallReturns`.
  `ImagesReadWhole` is an induction over the dimensions, as a least counterexample: after
  each of them `count` is the remainder of the true product, because a factor may be
  reduced before it is multiplied (`RemainderOfProduct`, from the uniqueness of quotient
  and remainder). After the last one the true product fits a `size_t` and is its own
  remainder. So a wrap on the way, as for 7 by 7 by 0, does no harm. `PathsInv` says that failed initialisations leave the default
  paths, and that the engine is up before the paths are set.
  `EveryCallReturns` is the liveness property, for any number of threads: under the
  fairness of the specification every call that has to pass `call_once` returns, unless
  initialisations throw for ever (the bound of the runs on throwing ones excludes that).
  The argument goes by stages. A thread that holds the flag is in one of finitely many
  places, nobody else moves it (`OthersKeepPlace`), and its own next step leaves the place
  (`StageEnds`). So the flag is given back again and again, and once no initialisation
  throws any more it is set for good (`FlagSettles`); then whoever waits can pass and
  passes (`WaitEnds`), and finishes its call (`CallEnds`). Two facts are hypotheses of the
  theorem. `OnlyTheFlagBlocks`, that a thread inside a call can take a step unless it waits
  for a flag another one holds, contains `ENABLED`, which the provers cannot open;
  `viz_engine` checks it on all states of the instance. And fairness is taken in the form
  `[]Fairness`, because the provers cannot move a quantifier over the threads through
  `[]`; it is the same formula otherwise.
* **CSharpStack** — `TypeCorrect`, `AloneIsSafe`, `LateUsesThrow`, `DisposeDestroys`,
  `SerializedUseIsSafe`.
  `FieldInv` orders the two resets behind the destruction and says that between the
  destruction and the flag somebody is still inside `Dispose`; `OverlapInv` says that
  whoever is inside has been recorded as overlapping everybody under way. The lemma
  `AloneIsLive` draws the conclusion from the two. `SerializedUseIsSafe` turns it into
  what a client can do: if operations on the object never overlap (`[]Serialized`, the
  lock the class does not take), none is undefined and none passes a null handle,
  whichever threads use and dispose it in whatever order.
* **FortranStack** — `TypeCorrect`, `NoLeakCorrect`, `CopyIsTheOnlyDanger`,
  `GetLayerCorrect`, `NoMessageIsEverShown`. `HandleInv` says that without copies every
  pointer is live and held once; `NoLeak` is inductive with or without copies. `NoMessageIsEverShown` says
  that the finding `FailureShowsMessage` is not one unlucky path: no failed check of any
  program shows the text. Only `optics_check` changes whether it was shown (`OnlyCheckShows`),
  and its header never prints (`HeaderFails`). Assumptions:
  `NullAssumption` and `SizeAssumption` (a `size_t` is wide enough for the layers).
* **InterpNk** — `InterpolationCorrect`: in a sorted table, or one with an odd number of
  samples, the samples chosen are three neighbours around the value, the same in every
  language. `FallbackDiffers`: an even number of unsorted samples is enough for
  MATLAB to choose another one.
* **ExampleSweep** — `TypeCorrect`, `InterpolationIsTheSame`, `StacksAreOwned`,
  `StacksAreLive`, `FaultsStayInSample`, `FilesAreTrustworthy`, `StopsAfterFault`,
  `ResultsAreDelivered`, `DeliveredRowsAreRight`, `NothingElseIsDelivered`,
  `HeadersMatch`, `RowsAreSettled`, `OnlyCStrays`, `ProgramsEnd`, `Refinement`, for any
  number of samples, addresses, failures and scripts, and `GatewayUnderstands`,
  `MatricesSurvive`, `AnglesSurvive` for the gateway. The
  argument has two halves. The first inspects the twenty programs as sequences: a stack
  is created before it is used and given up before it is replaced (`Owned`, `Renewed`),
  MATLAB's number is fetched again for each new stack (`Fetched`), and what a sample
  reads was written in the same sample or before the sweep (`Flows`). The second is an
  inductive invariant about the operations *still to do*, whatever program they are
  from, in five parts proved one after the other: `Basic` (types), `Ownership` (one
  stack, in its variable; no dangling address is used before it is replaced), `Data`
  (as long as nothing failed, each variable that is still to be read comes from the
  present sample), `Outcome` (rows, failures, files and plots) and `Contents` (the
  separators in the files, and that nothing is delivered but what is due, failures or
  not). `GatewayUnderstands`
  settles the MATLAB calls; `StrayAfterFault` that an index nobody computed needs a
  call that failed in the same sample or before the sweep. `Refinement` takes an operation to `Deliver`, `Overlook`, `Stop` or a
  stutter of `SweepReport` and the move to the next part to `Pass` or `Finish`; that a row
  left wrong is excused is `RowsOwn` with nothing left to do. `HeadersMatch` bounds the
  finding `RowsMatchHeader`: it concerns the file of Example 3 in Fortran, always, and no
  other. `OnlyCStrays` compares how the languages fail: in C#, Fortran and MATLAB every
  failed call ends the program with an error, so that nothing is left undefined; a C
  program never ends with an error and is the only one that can stray.
  `DeliveredRowsAreRight` and `RowsAreSettled` add to `FilesAreTrustworthy` the plots and
  the C programs that met failures: what they deliver is right but in the rows a failed
  call excuses, and stays as it is. `ProgramsEnd` is termination by a decreasing measure,
  `Left`: the operations left in this part, and twenty for each part to come, more than
  any part has (`ShortPrograms`).

**Termination.** `LoopsEnd` and `ProgramsEnd` are stated as measures, not as `<>done`: each
step lowers a natural number, so no program takes infinitely many steps; that it does take
its next step is the scheduler's part, and that there is one is the deadlock check of
`depth_field` and `example_sweep`. To conclude `<>done` from the two would be an
induction over the measure in temporal logic, which is out of the provers' reach.

**Model-checked only.** `OnlyTheFlagBlocks`, because of its `ENABLED`; and with it the
unconditional form of `CallsReturn`, which `viz_engine` checks for three threads.
The violation runs are counterexamples; the theorems named above say how far four of the
five findings reach, `MessageIsOfLastError`, `HelperIsExample`, `PoyntingOfLayer` and
`RowsMatchHeader`, and that the fifth, `FailureShowsMessage`, has no exception.

## 6. What is not modelled, and why

* The core library. Its functions are external: `FoundIndices`, `Interfaces` and
  the engine's steps say what the code here relies on. What the core does for
  empty inputs (for instance `find_in_structure` on no positions) is unknown and
  left out: `FindInStructure` is not enabled when there is no position.
* The values that functions from numbers to numbers compute (Fresnel coefficients,
  Poynting vector, E-field, ellipsometric angles, the parabola through three samples)
  and the precision casts: floating point, no state. Which arguments they are given is
  modelled.
* The library resolver of the C# binding: it looks for a file and keeps no state the
  rest depends on.
* Negative counts from Fortran: a negative `integer` becomes a huge `size_t`, which the
  capacity check accepts. The caller states the size of its own array wrongly, and no
  program of the repository does. Negative *indices* are modelled in `FortranStack`.
* Files that fail after they were opened. A file that does not open is modelled; a disk
  that fills at a row or at the final flush is not. The C and MATLAB writers look at no
  result of `fprintf`, and C# says "wrote" before its writer is disposed of
  (`examples/csharp/Common/OutputHelper.cs`), so on a full disk a program may announce a
  file that lacks rows. `FileIsTrustworthy` says nothing of that.
* What a C program does after it strayed, and whether a failed plot could be made up for:
  the model has both (`DoStray`, `DoWrite`), and no property forbids them, because nothing
  in the repository promises otherwise. `StopsOnlyOnFault` and `ResultsDelivered` bound
  when they can happen.
* The plotting functions' data other than the size of an image: they go to the core.
* Build files, scripts, CI: no behaviour at run time. `HasPlugins` is the one
  build option that changes control.

## 7. Plan

Done in this order, the most important behaviour first: the bridge every call
goes through, the session with stacks and arrays, the depth programs that use
both, the engine, the ownership of handles, the sweeps that own and use stacks in
four languages, then the MATLAB gateway, the interpolation, both builds of the library,
image sizes, and the proofs about the sweeps. What is left:

1. A composition of `TmmSession` with the handle owners (`CSharpStack`, `FortranStack`),
   in place of its assumption that handles are live or null.
2. Calls by several threads on one stack: a data race by the letter of C++. The model
   would say which pairs of calls exclude each other, which no document of the
   repository states.
