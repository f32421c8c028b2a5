-------------------------------- MODULE VizEngine -------------------------------
(***************************************************************************)
(* The plotting engine behind the C ABI (src/c/optics_viz.cpp), in a build *)
(* with plugins: optics_py_init and every plot pass through ensure_py,     *)
(* which starts the engine and sets the plugin paths inside std::call_once.*)
(*                                                                         *)
(* An exception leaves call_once with the flag unset, and the next caller  *)
(* starts over.  optics_py_shutdown disposes of the engine without a lock  *)
(* and without resetting the flag.  A plot on an engine that was disposed  *)
(* of is undefined behaviour: the model stops there.                       *)
(*                                                                         *)
(* py_engine, py_plugin and the plotting functions are in the core library *)
(* (external): each may throw, and each is assumed to return.              *)
(***************************************************************************)
EXTENDS Naturals, Sequences

CONSTANTS Thread,     \* threads calling the library
          Dir,        \* plugin directories
          NoDir,      \* a null or empty entry of plugin_dirs
          MaxDirs,    \* entries in plugin_dirs, for model checking
          MaxFails,   \* initialisations that throw, for model checking
          Image,      \* the images a caller may have in memory
          SizeT       \* what size_t counts modulo

ASSUME DirAssumption == NoDir \notin Dir

\* An image has a shape, and size[k] is the number of elements in its first k
\* dimensions.  Its array is in memory, so that a size_t can count all of its
\* elements; a product of leading dimensions is beyond a size_t if a later one is 0.
ASSUME ImageAssumption ==
  /\ SizeT \in Nat \ {0}
  /\ \A image \in Image :
       /\ image.shape \in Seq(Nat)
       /\ image.size \in [0 .. Len(image.shape) -> Nat]
       /\ image.size[0] = 1
       /\ \A k \in 1 .. Len(image.shape) :
            image.size[k] = image.size[k - 1] * image.shape[k]
       /\ image.size[Len(image.shape)] < SizeT
ASSUME BoundAssumption == MaxDirs \in Nat /\ MaxFails \in Nat

VARIABLES once,     \* g_py_once: "unset", "running" or "done"
          engine,   \* py_engine: "none", "live" or "disposed"
          paths,    \* py_plugin::paths, <<>> while they are the default
          fails,    \* initialisations that threw so far
          pc,       \* where each thread is
          op,       \* the function it calls: "py_init" or "plot"
          dirs,     \* the plugin_dirs it passes to ensure_py
          status    \* the status its latest call returned

vars == <<once, engine, paths, fails, pc, op, dirs, status>>

DirList == UNION {[1 .. k -> Dir \cup {NoDir}] : k \in 0 .. MaxDirs}

\* The entries ensure_py keeps.
Named(list) == SelectSeq(list, LAMBDA d : d # NoDir)

Defined == \A t \in Thread : pc[t] # "undefined"

Return(t, st) == /\ pc' = [pc EXCEPT ![t] = "idle"]
                 /\ status' = [status EXCEPT ![t] = st]

(***************************************************************************)
(* Entering and leaving a function of optics_viz.h.                        *)
(***************************************************************************)
Call(t, name, list) ==
  /\ pc[t] = "idle"
  /\ pc' = [pc EXCEPT ![t] = "once"]
  /\ op' = [op EXCEPT ![t] = name]
  /\ dirs' = [dirs EXCEPT ![t] = list]
  /\ status' = [status EXCEPT ![t] = "PENDING"]
  /\ UNCHANGED <<once, engine, paths, fails>>

PyInit(t) == \E list \in DirList : Call(t, "py_init", list)

Plot(t) == Call(t, "plot", <<>>)

\* Invalid data is rejected before ensure_py, and initialises nothing.
PlotRejected(t) ==
  /\ pc[t] = "idle"
  /\ status' = [status EXCEPT ![t] = "INVALID_ARG"]
  /\ UNCHANGED <<once, engine, paths, fails, pc, op, dirs>>

\* Mutant: a shutdown makes the next call initialise again.
ShutdownResets(t) ==
  /\ pc[t] = "idle"
  /\ engine' = IF engine = "live" THEN "disposed" ELSE engine
  /\ once' = "unset"
  /\ UNCHANGED <<paths, fails, pc, op, dirs, status>>

\* optics_py_shutdown. Nothing keeps other threads out meanwhile.
Shutdown(t) ==
  /\ pc[t] = "idle"
  /\ engine' = IF engine = "live" THEN "disposed" ELSE engine
  /\ UNCHANGED <<once, paths, fails, pc, op, dirs, status>>

(***************************************************************************)
(* ensure_py.                                                              *)
(***************************************************************************)
\* Mutant: the paths are set on every call, outside call_once.
OncePassSetsPaths(t) ==
  /\ pc[t] = "once" /\ once = "done"
  /\ paths' = IF Named(dirs[t]) = <<>> THEN paths ELSE Named(dirs[t])
  /\ pc' = [pc EXCEPT ![t] = "ready"]
  /\ UNCHANGED <<once, engine, fails, op, dirs, status>>

\* call_once finds the flag set; the directories of this call are dropped.
OncePass(t) ==
  /\ pc[t] = "once" /\ once = "done"
  /\ pc' = [pc EXCEPT ![t] = "ready"]
  /\ UNCHANGED <<once, engine, paths, fails, op, dirs, status>>

\* Mutant: a plain flag that is tested here and set after the initialisation.
OnceEnterUnlocked(t) ==
  /\ pc[t] = "once" /\ once # "done"
  /\ once' = "running"
  /\ pc' = [pc EXCEPT ![t] = "engine"]
  /\ UNCHANGED <<engine, paths, fails, op, dirs, status>>

\* Mutant: an attempt that threw is repeated only if it started no engine.
OnceEnterFresh(t) ==
  /\ pc[t] = "once" /\ once = "unset" /\ engine = "none"
  /\ once' = "running"
  /\ pc' = [pc EXCEPT ![t] = "engine"]
  /\ UNCHANGED <<engine, paths, fails, op, dirs, status>>

\* call_once runs the lambda; while it does, the other callers wait.
OnceEnter(t) ==
  /\ pc[t] = "once" /\ once = "unset"
  /\ once' = "running"
  /\ pc' = [pc EXCEPT ![t] = "engine"]
  /\ UNCHANGED <<engine, paths, fails, op, dirs, status>>

\* py_engine::init(false).
InitEngine(t) ==
  /\ pc[t] = "engine"
  /\ engine' = "live"
  /\ pc' = [pc EXCEPT ![t] = "paths"]
  /\ UNCHANGED <<once, paths, fails, op, dirs, status>>

\* Mutant: the flag stays set when the initialisation throws.
InitEngineFailsForGood(t) ==
  /\ pc[t] = "engine" /\ fails < MaxFails
  /\ once' = "done"
  /\ fails' = fails + 1
  /\ \E st \in {"OUT_OF_MEMORY", "INTERNAL"} : Return(t, st)
  /\ UNCHANGED <<engine, paths, op, dirs>>

InitEngineFails(t) ==
  /\ pc[t] = "engine" /\ fails < MaxFails
  /\ once' = "unset"
  /\ fails' = fails + 1
  /\ \E st \in {"OUT_OF_MEMORY", "INTERNAL"} : Return(t, st)
  /\ UNCHANGED <<engine, paths, op, dirs>>

\* Mutant: empty entries are not left out.
SetPathsUnfiltered(t) ==
  /\ pc[t] = "paths"
  /\ paths' = IF dirs[t] = <<>> THEN paths ELSE dirs[t]
  /\ once' = "done"
  /\ pc' = [pc EXCEPT ![t] = "ready"]
  /\ UNCHANGED <<engine, fails, op, dirs, status>>

\* The named directories replace the default paths; no named one, they stay.
SetPaths(t) ==
  /\ pc[t] = "paths"
  /\ paths' = IF Named(dirs[t]) = <<>> THEN paths ELSE Named(dirs[t])
  /\ once' = "done"
  /\ pc' = [pc EXCEPT ![t] = "ready"]
  /\ UNCHANGED <<engine, fails, op, dirs, status>>

\* Mutant: the flag is not reset when the lambda throws.
SetPathsFailsRunning(t) ==
  /\ pc[t] = "paths" /\ Named(dirs[t]) # <<>> /\ fails < MaxFails
  /\ fails' = fails + 1
  /\ Return(t, "OUT_OF_MEMORY")
  /\ UNCHANGED <<once, engine, paths, op, dirs>>

\* Copying the directories runs out of memory: the engine is live, the flag unset.
SetPathsFails(t) ==
  /\ pc[t] = "paths" /\ Named(dirs[t]) # <<>> /\ fails < MaxFails
  /\ once' = "unset"
  /\ fails' = fails + 1
  /\ Return(t, "OUT_OF_MEMORY")
  /\ UNCHANGED <<engine, paths, op, dirs>>

(***************************************************************************)
(* What follows ensure_py.                                                 *)
(***************************************************************************)
PyInitReturns(t) ==
  /\ pc[t] = "ready" /\ op[t] = "py_init"
  /\ Return(t, "OK")
  /\ UNCHANGED <<once, engine, paths, fails, op, dirs>>

Draw(t) ==
  /\ pc[t] = "ready" /\ op[t] = "plot"
  /\ engine = "live"
  /\ Return(t, "OK")
  /\ UNCHANGED <<once, engine, paths, fails, op, dirs>>

\* Mutant: the elements are counted in an int.
CountedNarrow(c, shape) ==
  /\ c[0] = 1
  /\ \A k \in 1 .. Len(shape) : c[k] = (c[k - 1] * shape[k]) % (SizeT \div 2)

\* The loop of imshow that counts the elements: count is c[k] after k dimensions,
\* and wraps around where a product of leading dimensions is beyond a size_t.
Counted(c, shape) ==
  /\ c[0] = 1
  /\ \A k \in 1 .. Len(shape) : c[k] = (c[k - 1] * shape[k]) % SizeT

\* The images of which imshow copies another number of elements than there are.
Misread ==
  {image \in Image :
     LET n == Len(image.shape) IN
     \E c \in [0 .. n -> 0 .. SizeT - 1] : Counted(c, image.shape) /\ c[n] # image.size[n]}

\* optics_viz_imshow after ensure_py: the image is copied and shown; to read past
\* its end, or to show a buffer that is too short for its shape, is undefined.
DrawImage(t) ==
  /\ pc[t] = "ready" /\ op[t] = "plot"
  /\ engine = "live"
  /\ \E image \in Image :
       IF image \in Misread
       THEN pc' = [pc EXCEPT ![t] = "undefined"] /\ UNCHANGED status
       ELSE Return(t, "OK")
  /\ UNCHANGED <<once, engine, paths, fails, op, dirs>>

DrawWithoutEngine(t) ==
  /\ pc[t] = "ready" /\ op[t] = "plot"
  /\ engine # "live"
  /\ pc' = [pc EXCEPT ![t] = "undefined"]
  /\ UNCHANGED <<once, engine, paths, fails, op, dirs, status>>

\* The copies of the data run out of memory, or the plotting functions throw.
DrawFails(t) ==
  /\ pc[t] = "ready" /\ op[t] = "plot"
  /\ \E st \in {"OUT_OF_MEMORY", "INTERNAL"} : Return(t, st)
  /\ UNCHANGED <<once, engine, paths, fails, op, dirs>>

Init == /\ once = "unset" /\ engine = "none" /\ paths = <<>> /\ fails = 0
        /\ pc = [t \in Thread |-> "idle"]
        /\ op = [t \in Thread |-> "plot"]
        /\ dirs = [t \in Thread |-> <<>>]
        /\ status = [t \in Thread |-> "NONE"]

\* The steps of a thread inside a call.
Step(t) == \/ OncePass(t) \/ OnceEnter(t) \/ InitEngine(t) \/ InitEngineFails(t)
           \/ SetPaths(t) \/ SetPathsFails(t)
           \/ PyInitReturns(t) \/ Draw(t) \/ DrawImage(t) \/ DrawWithoutEngine(t)
           \/ DrawFails(t)

Next == /\ Defined
        /\ \E t \in Thread : \/ PyInit(t) \/ Plot(t) \/ PlotRejected(t) \/ Shutdown(t)
                             \/ Step(t)

Spec == Init /\ [][Next]_vars

\* A thread inside a call that can go on is scheduled again some time.
Fair(t) == WF_vars(Defined /\ Step(t))
Fairness == \A t \in Thread : Fair(t)
FairSpec == Spec /\ Fairness
--------------------------------------------------------------------------------
(***************************************************************************)
(* Properties.                                                             *)
(***************************************************************************)
\* Every variable has the shape the code gives it.
TypeOK ==
  /\ once \in {"unset", "running", "done"}
  /\ engine \in {"none", "live", "disposed"}
  /\ paths \in {Named(list) : list \in DirList} \cup {<<>>}
  /\ fails \in 0 .. MaxFails
  /\ pc \in [Thread -> {"idle", "once", "engine", "paths", "ready", "undefined"}]
  /\ op \in [Thread -> {"py_init", "plot"}]
  /\ dirs \in [Thread -> DirList]
  /\ status \in [Thread -> {"NONE", "PENDING", "OK", "INVALID_ARG", "OUT_OF_MEMORY",
                            "INTERNAL"}]

Initialising(t) == pc[t] \in {"engine", "paths"}

\* At most one thread is inside the lambda of call_once, also when earlier
\* initialisations threw, and the flag says so.
SingleInitializer ==
  /\ \A t, u \in Thread : Initialising(t) /\ Initialising(u) => t = u
  /\ once = "running" <=> \E t \in Thread : Initialising(t)

\* Once any call has returned OK, or is about to plot, the initialisation was
\* completed and the engine was started, however many attempts threw before and
\* whoever made them.
ReadyWhenOk ==
  \A t \in Thread :
    pc[t] \in {"ready", "undefined"} \/ status[t] = "OK" => once = "done" /\ engine # "none"

\* Undefined behaviour has one cause, a shutdown that some thread called: no plot
\* comes before its engine was started, and every image is copied whole.
UndefinedOnlyAfterShutdown ==
  \A t \in Thread : pc[t] = "undefined" => engine = "disposed"

\* After a completed initialisation no call starts the engine again: a shutdown
\* is final, although optics_py_init goes on answering OK.
ShutdownIsFinal ==
  [][once = "done" => once' = "done" /\ (engine = "disposed" => engine' = "disposed")]_vars

\* A call that waits at call_once gets its turn and returns, whatever the other
\* threads' initialisations do.
CallsReturn ==
  \A t \in Thread : pc[t] = "once" ~> pc[t] = "idle" \/ ~Defined

Schedulable(t) == ENABLED <<Defined /\ Step(t)>>_vars

\* Nothing inside a call blocks but call_once, and that only while another thread
\* initialises: every stage has a way on, whatever the directories, the engine and
\* the images are.
OnlyTheFlagBlocks ==
  \A t \in Thread :
    Schedulable(t) <=> /\ Defined /\ pc[t] # "idle"
                       /\ pc[t] = "once" => once # "running"

\* An initialisation throws.
Throw == \E t \in Thread : InitEngineFails(t) \/ SetPathsFails(t)

\* The plugin paths as the cell of OnceCell.
Cell == IF once = "done" THEN <<paths>> ELSE <<>>
State == [t \in Thread |-> CASE pc[t] = "idle" -> "idle"
                             [] pc[t] \in {"ready", "undefined"} -> "served"
                             [] OTHER -> "asking"]
Request == [t \in Thread |-> Named(dirs[t])]
Once == INSTANCE OnceCell WITH Caller <- Thread,
                               Value <- {Named(list) : list \in DirList},
                               cell <- Cell, state <- State, request <- Request

\* The first initialisation that completes decides the plugin paths; failed ones
\* leave no trace in them, and later ones succeed without changing them.
ImplementsOnceCell == Once!Spec

(***************************************************************************)
(* The inductive invariant: the paths are the default ones until the flag  *)
(* is set, and the engine is started before the paths are.                 *)
(***************************************************************************)
PathsInv ==
  /\ once # "done" => paths = <<>>
  /\ once = "done" => engine # "none"
  /\ \A t \in Thread : pc[t] = "paths" => engine # "none"
  /\ \A t \in Thread : pc[t] \in {"ready", "undefined"} \/ status[t] = "OK" => once = "done"

IInv == TypeOK /\ SingleInitializer /\ PathsInv
================================================================================
