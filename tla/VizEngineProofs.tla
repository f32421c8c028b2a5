---------------------------- MODULE VizEngineProofs ----------------------------
(***************************************************************************)
(* Theorems about VizEngine, for any set of threads, any directories and   *)
(* any bounds: safety, the refinement of OnceCell, and that calls return.  *)
(***************************************************************************)
EXTENDS VizEngine, WellFoundedInduction, TLAPS

\* A number below the modulus is its own remainder.
LEMMA SmallRemainder ==
  ASSUME NEW m \in Nat, m # 0, NEW s \in 0 .. m - 1
  PROVE  s % m = s
OBVIOUS

\* A natural number is its quotient times the modulus plus its remainder.
LEMMA QuotientAndRemainder ==
  ASSUME NEW m \in Nat, m # 0, NEW a \in Nat
  PROVE  /\ a \div m \in Nat /\ a % m \in 0 .. m - 1
         /\ a = (m * (a \div m)) + (a % m)
<1>1. a \div m \in Nat /\ a % m \in 0 .. m - 1
  OBVIOUS
<1>2. a = (m * (a \div m)) + (a % m)
  OBVIOUS
<1>3. QED
  BY <1>1, <1>2

\* A number below the modulus that is added to a smaller multiple stays below the
\* next one.
LEMMA MultiplesApart ==
  ASSUME NEW m \in Nat, NEW u \in Nat, NEW v \in Nat, u < v, NEW r \in 0 .. m - 1
  PROVE  m * u + r < m * v
<1>1. PICK d \in Nat : v = u + 1 + d
  <2>1. v - u - 1 \in Nat /\ v = u + 1 + (v - u - 1)
    OBVIOUS
  <2>2. QED
    BY <2>1
<1>2. m * v = m * u + m + m * d
  BY <1>1
<1>3. m * u \in Nat /\ m * d \in Nat
  OBVIOUS
<1>4. QED
  BY <1>2, <1>3

\* A multiple of the modulus leaves the remainder alone.
LEMMA MultipleDropsOut ==
  ASSUME NEW m \in Nat, m # 0, NEW p \in Nat, NEW x \in Nat
  PROVE  ((m * p) + x) % m = x % m
<1> DEFINE y == (m * p) + x
           u == y \div m
           v == x \div m
           r == y % m
           s == x % m
<1>1. /\ y \in Nat
      /\ u \in Nat /\ r \in 0 .. m - 1 /\ y = m * u + r
      /\ v \in Nat /\ s \in 0 .. m - 1 /\ x = m * v + s
  <2>1. y \in Nat
    OBVIOUS
  <2>2. QED
    BY <2>1, QuotientAndRemainder
<1> HIDE DEF u, v, r, s
<1>2. m * u + r = m * (p + v) + s
  <2>1. m * (p + v) = m * p + m * v
    BY <1>1
  <2>2. m * u \in Nat /\ m * p \in Nat /\ m * v \in Nat
    BY <1>1
  <2>3. QED
    BY <1>1, <2>1, <2>2
<1>3. u = p + v
  <2>1. p + v \in Nat /\ m * u \in Nat /\ m * (p + v) \in Nat
    BY <1>1
  <2>2. ~(u < p + v)
    BY <1>1, <1>2, <2>1, MultiplesApart
  <2>3. ~(p + v < u)
    BY <1>1, <1>2, <2>1, MultiplesApart
  <2>4. QED
    BY <1>1, <2>1, <2>2, <2>3
<1>4. m * u \in Nat
  BY <1>1
<1>5. r = s
  BY <1>1, <1>2, <1>3, <1>4
<1>6. QED
  BY <1>5 DEF r, s

\* A factor may be reduced before it is multiplied.
LEMMA RemainderOfProduct ==
  ASSUME NEW m \in Nat, m # 0, NEW a \in Nat, NEW b \in Nat
  PROVE  ((a % m) * b) % m = (a * b) % m
<1> DEFINE q == a \div m
           r == a % m
<1>1. q \in Nat /\ r \in Nat /\ a = m * q + r
  BY QuotientAndRemainder
<1> HIDE DEF q, r
<1>2. a * b = m * (q * b) + r * b
  BY <1>1
<1>3. q * b \in Nat /\ r * b \in Nat
  BY <1>1
<1>4. (a * b) % m = (r * b) % m
  <2>1. ((m * (q * b)) + (r * b)) % m = (r * b) % m
    BY <1>3, MultipleDropsOut
  <2>2. QED
    BY <1>2, <2>1
<1>5. QED
  BY <1>4 DEF r

\* imshow counts the elements of every image that is in memory right, also where
\* the product of its leading dimensions wraps around because a later one is 0:
\* after each dimension count is the remainder of the true product, or there is a
\* first one after which it is not; and the whole product fits a size_t.
THEOREM ImagesReadWhole == Misread = {}
<1> SUFFICES ASSUME NEW image \in Image,
                    NEW c \in [0 .. Len(image.shape) -> 0 .. SizeT - 1],
                    Counted(c, image.shape),
                    c[Len(image.shape)] # image.size[Len(image.shape)]
             PROVE  FALSE
  BY DEF Misread
<1> DEFINE n == Len(image.shape)
           Wrong == {k \in 0 .. n : c[k] # image.size[k] % SizeT}
<1>1. /\ n \in Nat
      /\ SizeT \in Nat \ {0}
      /\ image.size \in [0 .. n -> Nat]
      /\ image.size[0] = 1
      /\ \A k \in 1 .. n : /\ image.shape[k] \in Nat
                           /\ image.size[k] = image.size[k - 1] * image.shape[k]
  BY ImageAssumption
<1>2. n \in Wrong /\ Wrong \in SUBSET Nat
  <2>1. image.size[n] \in 0 .. SizeT - 1
    BY <1>1, ImageAssumption
  <2>2. image.size[n] % SizeT = image.size[n]
    BY <1>1, <2>1, SmallRemainder
  <2>3. QED
    BY <1>1, <2>2
<1>3. PICK k \in Wrong : \A j \in Wrong : ~(j < k)
  <2> HIDE DEF Wrong
  <2>1. PICK k \in Wrong : \A j \in Wrong : <<j, k>> \notin OpToRel(<, Nat)
    BY <1>2, NatLessThanWellFounded, WFMin
  <2>2. QED
    BY <2>1, <1>2 DEF OpToRel
<1>4. k \in 1 .. n /\ k - 1 \in 0 .. n /\ c[k - 1] = image.size[k - 1] % SizeT
  <2>1. 0 \notin Wrong
    <3>1. 1 \in 0 .. SizeT - 1
      BY <1>1 DEF Counted
    <3>2. 1 % SizeT = 1
      BY <1>1, <3>1, SmallRemainder
    <3>3. QED
      BY <1>1, <3>2 DEF Counted
  <2>2. k \in 1 .. n /\ k - 1 \in 0 .. n /\ k - 1 < k
    BY <2>1, <1>1
  <2>3. k - 1 \notin Wrong
    BY <2>2, <1>3
  <2>4. QED
    BY <2>2, <2>3
<1>5. c[k] = ((image.size[k - 1] % SizeT) * image.shape[k]) % SizeT
  BY <1>4 DEF Counted
<1>6. image.size[k - 1] \in Nat /\ image.shape[k] \in Nat
  BY <1>1, <1>4
<1>7. c[k] = (image.size[k - 1] * image.shape[k]) % SizeT
  BY <1>1, <1>5, <1>6, RemainderOfProduct
<1>8. c[k] = image.size[k] % SizeT
  BY <1>1, <1>4, <1>7
<1>9. QED
  BY <1>8, <1>3

\* The empty list of directories is a possible argument.
LEMMA EmptyListIsList == <<>> \in DirList
<1>1. 0 \in 0 .. MaxDirs
  BY BoundAssumption
<1>2. <<>> \in [1 .. 0 -> Dir \cup {NoDir}]
  OBVIOUS
<1>3. QED
  BY <1>1, <1>2 DEF DirList

LEMMA InitIInv == Init => IInv
<1> SUFFICES ASSUME Init PROVE IInv
  OBVIOUS
<1>1. TypeOK
  BY BoundAssumption, EmptyListIsList DEF Init, TypeOK
<1>2. SingleInitializer /\ PathsInv
  BY DEF Init, SingleInitializer, Initialising, PathsInv
<1>3. QED
  BY <1>1, <1>2 DEF IInv

\* Every step keeps the types.
LEMMA NextTypes == IInv /\ [Next]_vars => TypeOK'
<1> SUFFICES ASSUME IInv, [Next]_vars PROVE TypeOK'
  OBVIOUS
<1> USE DEF IInv, TypeOK
<1>1. ASSUME NEW t \in Thread, PyInit(t) PROVE TypeOK'
  BY <1>1 DEF PyInit, Call
<1>2. ASSUME NEW t \in Thread, Plot(t) PROVE TypeOK'
  BY <1>2, EmptyListIsList DEF Plot, Call
<1>3. ASSUME NEW t \in Thread, PlotRejected(t) PROVE TypeOK'
  BY <1>3 DEF PlotRejected
<1>4. ASSUME NEW t \in Thread, Shutdown(t) PROVE TypeOK'
  BY <1>4 DEF Shutdown
<1>5. ASSUME NEW t \in Thread, OncePass(t) PROVE TypeOK'
  BY <1>5 DEF OncePass
<1>6. ASSUME NEW t \in Thread, OnceEnter(t) PROVE TypeOK'
  BY <1>6 DEF OnceEnter
<1>7. ASSUME NEW t \in Thread, InitEngine(t) PROVE TypeOK'
  BY <1>7 DEF InitEngine
<1>8. ASSUME NEW t \in Thread, InitEngineFails(t) PROVE TypeOK'
  BY <1>8, BoundAssumption DEF InitEngineFails, Return
<1>9. ASSUME NEW t \in Thread, SetPaths(t) PROVE TypeOK'
  <2>1. Named(dirs[t]) \in {Named(list) : list \in DirList}
    OBVIOUS
  <2>2. QED
    BY <1>9, <2>1 DEF SetPaths
<1>10. ASSUME NEW t \in Thread, SetPathsFails(t) PROVE TypeOK'
  BY <1>10, BoundAssumption DEF SetPathsFails, Return
<1>11. ASSUME NEW t \in Thread, PyInitReturns(t) PROVE TypeOK'
  BY <1>11 DEF PyInitReturns, Return
<1>12. ASSUME NEW t \in Thread, Draw(t) PROVE TypeOK'
  BY <1>12 DEF Draw, Return
<1>13. ASSUME NEW t \in Thread, DrawWithoutEngine(t) \/ DrawImage(t) PROVE TypeOK'
  BY <1>13 DEF DrawWithoutEngine, DrawImage, Return
<1>14. ASSUME NEW t \in Thread, DrawFails(t) PROVE TypeOK'
  BY <1>14 DEF DrawFails, Return
<1>15. ASSUME UNCHANGED vars PROVE TypeOK'
  BY <1>15 DEF vars
<1>16. QED
  BY <1>1, <1>2, <1>3, <1>4, <1>5, <1>6, <1>7, <1>8, <1>9, <1>10, <1>11, <1>12, <1>13,
     <1>14, <1>15 DEF Next, Step

\* Every step keeps the flag, the initialising thread, the engine and the paths
\* consistent with one another.
LEMMA NextOnce == IInv /\ [Next]_vars => SingleInitializer' /\ PathsInv'
<1> SUFFICES ASSUME IInv, [Next]_vars PROVE SingleInitializer' /\ PathsInv'
  OBVIOUS
<1> USE DEF IInv, TypeOK, SingleInitializer, Initialising, PathsInv
<1>1. ASSUME NEW t \in Thread, PyInit(t) \/ Plot(t)
      PROVE  SingleInitializer' /\ PathsInv'
  BY <1>1 DEF PyInit, Plot, Call
<1>2. ASSUME NEW t \in Thread, PlotRejected(t) PROVE SingleInitializer' /\ PathsInv'
  BY <1>2 DEF PlotRejected
<1>3. ASSUME NEW t \in Thread, Shutdown(t) PROVE SingleInitializer' /\ PathsInv'
  BY <1>3 DEF Shutdown
<1>4. ASSUME NEW t \in Thread, OncePass(t) PROVE SingleInitializer' /\ PathsInv'
  BY <1>4 DEF OncePass
<1>5. ASSUME NEW t \in Thread, OnceEnter(t) PROVE SingleInitializer' /\ PathsInv'
  BY <1>5 DEF OnceEnter
<1>6. ASSUME NEW t \in Thread, InitEngine(t) PROVE SingleInitializer' /\ PathsInv'
  BY <1>6 DEF InitEngine
<1>7. ASSUME NEW t \in Thread, InitEngineFails(t) PROVE SingleInitializer' /\ PathsInv'
  BY <1>7 DEF InitEngineFails, Return
<1>8. ASSUME NEW t \in Thread, SetPaths(t) PROVE SingleInitializer' /\ PathsInv'
  BY <1>8 DEF SetPaths
<1>9. ASSUME NEW t \in Thread, SetPathsFails(t) PROVE SingleInitializer' /\ PathsInv'
  BY <1>9 DEF SetPathsFails, Return
<1>10. ASSUME NEW t \in Thread, PyInitReturns(t) PROVE SingleInitializer' /\ PathsInv'
  BY <1>10 DEF PyInitReturns, Return
<1>11. ASSUME NEW t \in Thread, Draw(t) PROVE SingleInitializer' /\ PathsInv'
  BY <1>11 DEF Draw, Return
<1>12. ASSUME NEW t \in Thread, DrawWithoutEngine(t) \/ DrawImage(t)
       PROVE  SingleInitializer' /\ PathsInv'
  BY <1>12 DEF DrawWithoutEngine, DrawImage, Return
<1>13. ASSUME NEW t \in Thread, DrawFails(t) PROVE SingleInitializer' /\ PathsInv'
  BY <1>13 DEF DrawFails, Return
<1>14. ASSUME UNCHANGED vars PROVE SingleInitializer' /\ PathsInv'
  BY <1>14 DEF vars
<1>15. QED
  BY <1>1, <1>2, <1>3, <1>4, <1>5, <1>6, <1>7, <1>8, <1>9, <1>10, <1>11, <1>12, <1>13,
     <1>14 DEF Next, Step

LEMMA SpecIInv == Spec => []IInv
<1>1. IInv /\ [Next]_vars => IInv'
  BY NextTypes, NextOnce DEF IInv
<1>2. QED
  BY InitIInv, <1>1, PTL DEF Spec

\* Every variable has the shape the code gives it.
THEOREM TypeCorrect == Spec => []TypeOK
<1>1. IInv => TypeOK
  BY DEF IInv
<1>2. QED
  BY SpecIInv, <1>1, PTL

\* At most one thread is inside the lambda of call_once.
THEOREM OneInitializer == Spec => []SingleInitializer
<1>1. IInv => SingleInitializer
  BY DEF IInv
<1>2. QED
  BY SpecIInv, <1>1, PTL

\* A call that returned OK, or is about to plot, has a completed initialisation
\* behind it.
THEOREM OkIsReady == Spec => []ReadyWhenOk
<1>1. IInv => ReadyWhenOk
  BY DEF IInv, PathsInv, ReadyWhenOk
<1>2. QED
  BY SpecIInv, <1>1, PTL

\* Undefined behaviour comes from a shutdown only: a plot finds the engine started,
\* and reads the whole image.
THEOREM UndefinedAfterShutdown == Spec => []UndefinedOnlyAfterShutdown
<1> DEFINE I == UndefinedOnlyAfterShutdown
<1>1. Init => I
  BY DEF Init, UndefinedOnlyAfterShutdown
<1>2. IInv /\ I /\ [Next]_vars => I'
  <2> SUFFICES ASSUME IInv, I, [Next]_vars PROVE I'
    OBVIOUS
  <2> USE DEF IInv, TypeOK, UndefinedOnlyAfterShutdown
  <2>1. ASSUME NEW t \in Thread, PyInit(t) \/ Plot(t) \/ PlotRejected(t) \/ Shutdown(t)
        PROVE  I'
    BY <2>1 DEF PyInit, Plot, Call, PlotRejected, Shutdown
  <2>2. ASSUME NEW t \in Thread, OncePass(t) \/ OnceEnter(t) \/ SetPaths(t) \/ SetPathsFails(t)
        PROVE  I'
    BY <2>2 DEF OncePass, OnceEnter, SetPaths, SetPathsFails, Return
  <2>3. ASSUME NEW t \in Thread, InitEngine(t) \/ InitEngineFails(t) PROVE I'
    BY <2>3 DEF InitEngine, InitEngineFails, Return, SingleInitializer, Initialising, PathsInv
  <2>4. ASSUME NEW t \in Thread,
               PyInitReturns(t) \/ Draw(t) \/ DrawImage(t) \/ DrawFails(t)
        PROVE  I'
    BY <2>4, ImagesReadWhole DEF PyInitReturns, Draw, DrawImage, DrawFails, Return
  <2>5. ASSUME NEW t \in Thread, DrawWithoutEngine(t) PROVE I'
    BY <2>5 DEF DrawWithoutEngine, PathsInv
  <2>6. ASSUME UNCHANGED vars PROVE I'
    BY <2>6 DEF vars
  <2>7. QED
    BY <2>1, <2>2, <2>3, <2>4, <2>5, <2>6 DEF Next, Step
<1>3. QED
  BY <1>1, <1>2, SpecIInv, PTL DEF Spec

\* After a completed initialisation no step starts the engine again.
THEOREM ShutdownFinal == Spec => ShutdownIsFinal
<1> DEFINE Final == once = "done" =>
                      once' = "done" /\ (engine = "disposed" => engine' = "disposed")
<1>1. IInv /\ [Next]_vars => Final
  <2> SUFFICES ASSUME IInv, [Next]_vars, once = "done" PROVE Final
    OBVIOUS
  <2>1. \A t \in Thread : ~Initialising(t)
    BY DEF IInv, SingleInitializer
  <2>2. ASSUME NEW t \in Thread, Step(t) PROVE Final
    BY <2>1, <2>2 DEF Initialising, Step, OncePass, OnceEnter, InitEngine, InitEngineFails,
                      SetPaths, SetPathsFails, PyInitReturns, Draw, DrawImage,
                      DrawWithoutEngine, DrawFails
  <2>3. ASSUME NEW t \in Thread, PyInit(t) \/ Plot(t) \/ PlotRejected(t) \/ Shutdown(t)
        PROVE  Final
    BY <2>3 DEF PyInit, Plot, Call, PlotRejected, Shutdown
  <2>4. ASSUME UNCHANGED vars PROVE Final
    BY <2>4 DEF vars
  <2>5. QED
    BY <2>2, <2>3, <2>4 DEF Next
<1>2. QED
  BY SpecIInv, <1>1, PTL DEF Spec, ShutdownIsFinal

(***************************************************************************)
(* The refinement of OnceCell.                                             *)
(***************************************************************************)

\* The initial states of the engine are initial states of the cell.
LEMMA CellInit == Init => Once!Init
<1> SUFFICES ASSUME Init PROVE Once!Init
  OBVIOUS
<1>1. Cell = <<>>
  BY DEF Init, Cell
<1>2. State = [t \in Thread |-> "idle"]
  BY DEF Init, State
<1>3. Request \in [Thread -> {Named(list) : list \in DirList}]
  BY EmptyListIsList DEF Init, Request
<1>4. QED
  BY <1>1, <1>2, <1>3 DEF Once!Init

\* A thread's abstract state follows its program counter.
LEMMA StateExcept ==
  ASSUME IInv, NEW t \in Thread, NEW c,
         pc' = [pc EXCEPT ![t] = c]
  PROVE  State' = [State EXCEPT ![t] = CASE c = "idle" -> "idle"
                                         [] c \in {"ready", "undefined"} -> "served"
                                         [] OTHER -> "asking"]
  BY DEF State, IInv, TypeOK

\* Every step of the engine is a step of the cell or invisible in it.
LEMMA CellStep == IInv /\ [Next]_vars => [Once!Next]_(Once!vars)
<1> SUFFICES ASSUME IInv, [Next]_vars PROVE [Once!Next]_(Once!vars)
  OBVIOUS
<1> DEFINE Silent == Cell' = Cell /\ State' = State /\ Request' = Request
<1>a. ASSUME Silent PROVE [Once!Next]_(Once!vars)
  BY <1>a DEF Once!vars
<1>b. ASSUME UNCHANGED dirs PROVE Request' = Request
  BY <1>b DEF Request
<1>c. ASSUME UNCHANGED <<once, paths>> PROVE Cell' = Cell
  BY <1>c DEF Cell
<1>d. ASSUME UNCHANGED pc PROVE State' = State
  BY <1>d DEF State
<1>e. ASSUME NEW t \in Thread
      PROVE  /\ pc[t] = "idle" => State[t] = "idle"
             /\ pc[t] \in {"once", "engine", "paths"} => State[t] = "asking"
             /\ pc[t] \in {"ready", "undefined"} => State[t] = "served"
  BY DEF State
<1>f. State \in [Thread -> {"idle", "asking", "served"}]
  BY DEF State
<1>1. ASSUME NEW t \in Thread, NEW name, NEW list \in DirList, Call(t, name, list)
      PROVE  Once!Next
  <2>1. State[t] = "idle" /\ State' = [State EXCEPT ![t] = "asking"]
    BY <1>1, <1>e, StateExcept DEF Call
  <2>2. Request' = [Request EXCEPT ![t] = Named(list)]
    BY <1>1 DEF Call, Request, IInv, TypeOK
  <2>3. Cell' = Cell
    BY <1>1, <1>c DEF Call
  <2>4. Once!Ask(t)
    BY <2>1, <2>2, <2>3 DEF Once!Ask
  <2>5. QED
    BY <2>4 DEF Once!Next
<1>2. ASSUME NEW t \in Thread, PlotRejected(t) PROVE Silent
  BY <1>2, <1>b, <1>c, <1>d DEF PlotRejected
<1>3. ASSUME NEW t \in Thread, Shutdown(t) PROVE Silent
  BY <1>3, <1>b, <1>c, <1>d DEF Shutdown
<1>4. ASSUME NEW t \in Thread, OncePass(t) PROVE Once!Next
  <2>1. State[t] = "asking" /\ State' = [State EXCEPT ![t] = "served"]
    BY <1>4, <1>e, StateExcept DEF OncePass
  <2>2. Cell # <<>> /\ Cell' = Cell /\ Request' = Request
    BY <1>4, <1>b, <1>c DEF OncePass, Cell
  <2>3. QED
    BY <2>1, <2>2 DEF Once!Agree, Once!Next
<1>5. ASSUME NEW t \in Thread, OnceEnter(t) \/ InitEngine(t) PROVE Silent
  <2>1. State' = [State EXCEPT ![t] = "asking"] /\ State[t] = "asking"
    BY <1>5, <1>e, StateExcept DEF OnceEnter, InitEngine
  <2>2. State' = State
    BY <2>1, <1>f
  <2>3. Cell' = Cell /\ Request' = Request
    BY <1>5, <1>b DEF OnceEnter, InitEngine, Cell, IInv, SingleInitializer, Initialising
  <2>4. QED
    BY <2>2, <2>3
<1>6. ASSUME NEW t \in Thread, InitEngineFails(t) \/ SetPathsFails(t) PROVE Once!Next
  <2>1. pc[t] \in {"engine", "paths"} /\ pc' = [pc EXCEPT ![t] = "idle"]
    BY <1>6 DEF InitEngineFails, SetPathsFails, Return
  <2>2. State[t] = "asking" /\ State' = [State EXCEPT ![t] = "idle"]
    BY <2>1, <1>e, StateExcept
  <2>3. Cell = <<>> /\ Cell' = Cell /\ Request' = Request
    BY <1>6, <2>1, <1>b DEF InitEngineFails, SetPathsFails, Cell, IInv, SingleInitializer,
                            Initialising
  <2>4. QED
    BY <2>2, <2>3 DEF Once!Fail, Once!Next
<1>7. ASSUME NEW t \in Thread, SetPaths(t) PROVE Once!Next
  <2>1. State[t] = "asking" /\ State' = [State EXCEPT ![t] = "served"]
    BY <1>7, <1>e, StateExcept DEF SetPaths
  <2>2. once = "running" /\ paths = <<>>
    BY <1>7 DEF SetPaths, IInv, SingleInitializer, Initialising, PathsInv
  <2>3. paths' = Named(dirs[t]) /\ once' = "done"
    BY <1>7, <2>2 DEF SetPaths
  <2>4. Cell = <<>> /\ Cell' = <<Request[t]>> /\ Request' = Request
    BY <1>7, <2>2, <2>3, <1>b DEF SetPaths, Cell, Request
  <2>5. QED
    BY <2>1, <2>4 DEF Once!Fill, Once!Next
<1>8. ASSUME NEW t \in Thread, PyInitReturns(t) \/ Draw(t) \/ DrawImage(t) \/ DrawFails(t)
      PROVE  Once!Next
  <2>1. pc[t] = "ready" /\ pc' = [pc EXCEPT ![t] = "idle"]
    BY <1>8, ImagesReadWhole DEF PyInitReturns, Draw, DrawImage, DrawFails, Return
  <2>2. State[t] = "served" /\ State' = [State EXCEPT ![t] = "idle"]
    BY <2>1, <1>e, StateExcept
  <2>3. Cell' = Cell /\ Request' = Request
    BY <1>8, <1>b, <1>c DEF PyInitReturns, Draw, DrawImage, DrawFails
  <2>4. QED
    BY <2>2, <2>3 DEF Once!Leave, Once!Next
<1>9. ASSUME NEW t \in Thread, DrawWithoutEngine(t) PROVE Silent
  <2>1. State' = [State EXCEPT ![t] = "served"] /\ State[t] = "served"
    BY <1>9, <1>e, StateExcept DEF DrawWithoutEngine
  <2>2. QED
    BY <1>9, <2>1, <1>b, <1>c, <1>f DEF DrawWithoutEngine
<1>10. ASSUME UNCHANGED vars PROVE Silent
  BY <1>10, <1>b, <1>c, <1>d DEF vars
<1>11. ASSUME NEW t \in Thread, PyInit(t) \/ Plot(t) PROVE Once!Next
  BY <1>11, <1>1, EmptyListIsList DEF PyInit, Plot
<1>12. QED
  BY <1>a, <1>2, <1>3, <1>4, <1>5, <1>6, <1>7, <1>8, <1>9, <1>10, <1>11 DEF Next, Step

\* The initialisation of the engine implements the first-wins cell.
THEOREM Refinement == Spec => ImplementsOnceCell
<1>1. QED
  BY CellInit, CellStep, SpecIInv, PTL DEF Spec, ImplementsOnceCell, Once!Spec

(***************************************************************************)
(* Every call returns.  Fairness is weak fairness of each thread's own     *)
(* steps, which says something of a stage only if the stage has a way on:  *)
(* that is OnlyTheFlagBlocks, which contains ENABLED and is a hypothesis   *)
(* here.  Fairness stands under a box because the provers do not exchange  *)
(* [] with \A; weak fairness, once true, is true from then on.             *)
(***************************************************************************)
Left(t) == pc[t] = "idle" \/ ~Defined

\* What the code and its scheduler do, from any moment on.
Running == []IInv /\ [][Next]_vars /\ []Fairness /\ []OnlyTheFlagBlocks

\* From any moment on, and no initialisation throws any more.
Calm == Running /\ [][~Throw]_vars

\* A thread that has a way on at every moment takes a step.
LEMMA GoesOn ==
  ASSUME NEW t \in Thread
  PROVE  Running => <>~Schedulable(t) \/ <><<Defined /\ Step(t)>>_vars
<1>1. Fairness => Fair(t)
  BY DEF Fairness
<1>2. QED
  BY <1>1, PTL DEF Running, Fair, Schedulable

\* No other thread moves a thread that is inside a call.
LEMMA OthersKeepPlace ==
  ASSUME NEW t \in Thread, IInv, [Next]_vars, pc[t] # "idle"
  PROVE  UNCHANGED pc[t] \/ Step(t)
<1> USE DEF IInv, TypeOK
<1>1. CASE UNCHANGED vars
  BY <1>1 DEF vars
<1>2. ASSUME NEW u \in Thread,
             PyInit(u) \/ Plot(u) \/ PlotRejected(u) \/ Shutdown(u)
      PROVE  UNCHANGED pc[t]
  BY <1>2 DEF PyInit, Plot, Call, PlotRejected, Shutdown
<1>3. ASSUME NEW u \in Thread, Step(u), u # t
      PROVE  UNCHANGED pc[t]
  BY <1>3 DEF Step, OncePass, OnceEnter, InitEngine, InitEngineFails, SetPaths, SetPathsFails,
              PyInitReturns, Draw, DrawImage, DrawWithoutEngine, DrawFails, Return
<1>4. QED
  BY <1>1, <1>2, <1>3 DEF Next

\* Where a thread's own step takes it, if the initialisation does not throw.
LEMMA OwnStep ==
  ASSUME NEW t \in Thread, IInv, Step(t), ~Throw
  PROVE  /\ pc[t] = "once" => pc'[t] \in {"engine", "ready"}
         /\ pc[t] = "engine" => pc'[t] = "paths"
         /\ pc[t] = "paths" => pc'[t] = "ready" /\ once' = "done"
         /\ pc[t] = "ready" => pc'[t] \in {"idle", "undefined"}
         /\ pc[t] \notin {"idle", "undefined"}
<1> USE DEF IInv, TypeOK
<1>1. ASSUME OncePass(t) \/ OnceEnter(t)
      PROVE  pc[t] = "once" /\ pc'[t] \in {"engine", "ready"}
  BY <1>1 DEF OncePass, OnceEnter
<1>2. ASSUME InitEngine(t)
      PROVE  pc[t] = "engine" /\ pc'[t] = "paths"
  BY <1>2 DEF InitEngine
<1>3. ASSUME SetPaths(t)
      PROVE  pc[t] = "paths" /\ pc'[t] = "ready" /\ once' = "done"
  BY <1>3 DEF SetPaths
<1>4. ASSUME PyInitReturns(t) \/ Draw(t) \/ DrawImage(t) \/ DrawWithoutEngine(t) \/ DrawFails(t)
      PROVE  pc[t] = "ready" /\ pc'[t] \in {"idle", "undefined"}
  BY <1>4 DEF PyInitReturns, Draw, DrawImage, DrawWithoutEngine, DrawFails, Return
<1>5. ~InitEngineFails(t) /\ ~SetPathsFails(t)
  BY DEF Throw
<1>6. QED
  BY <1>1, <1>2, <1>3, <1>4, <1>5 DEF Step

\* A step of any thread, seen from one thread, when nothing throws.
LEMMA CalmStep ==
  ASSUME NEW t \in Thread, IInv, [Next]_vars, [~Throw]_vars
  PROVE  /\ pc[t] = "once" => (pc[t] = "once")' \/ (pc[t] = "engine")' \/ (pc[t] = "ready")'
         /\ pc[t] = "engine" => (pc[t] = "engine")' \/ (pc[t] = "paths")'
         /\ pc[t] = "paths" => (pc[t] = "paths")' \/ (pc[t] = "ready" /\ once = "done")'
         /\ pc[t] = "ready" => (pc[t] = "ready")' \/ Left(t)'
<1>1. CASE UNCHANGED vars
  BY <1>1 DEF vars
<1>2. CASE ~Throw
  <2>1. pc'[t] = "undefined" => Left(t)'
    BY DEF Left, Defined
  <2>2. pc'[t] = "idle" => Left(t)'
    BY DEF Left
  <2>3. CASE pc[t] = "idle"
    BY <2>3
  <2>4. CASE pc[t] # "idle" /\ UNCHANGED pc[t]
    BY <2>4
  <2>5. CASE Step(t)
    BY <2>5, <1>2, <2>1, <2>2, OwnStep
  <2>6. QED
    BY <2>3, <2>4, <2>5, OthersKeepPlace
<1>3. QED
  BY <1>1, <1>2

\* A completed initialisation stays completed.
LEMMA DoneStays == IInv /\ [Next]_vars => (once = "done" => (once = "done")')
<1> SUFFICES ASSUME IInv, [Next]_vars, once = "done" PROVE once' = "done"
  OBVIOUS
<1>1. \A t \in Thread : ~Initialising(t)
  BY DEF IInv, SingleInitializer
<1>2. QED
  BY <1>1 DEF Next, vars, PyInit, Plot, Call, PlotRejected, Shutdown, Initialising, Step,
              OncePass, OnceEnter, InitEngine, InitEngineFails, SetPaths, SetPathsFails,
              PyInitReturns, Draw, DrawImage, DrawWithoutEngine, DrawFails

\* A thread at stage c does not stay there.
Leaves(t, c) == pc[t] = c => <>(~(pc[t] = c) \/ ~Defined)

\* A stage after call_once is left: its thread has a way on as long as it is there.
LEMMA StageEnds ==
  ASSUME NEW t \in Thread, NEW c \in {"engine", "paths", "ready"}
  PROVE  Calm => Leaves(t, c)
<1>1. Running => <>~Schedulable(t) \/ <><<Defined /\ Step(t)>>_vars
  BY GoesOn
<1>2. OnlyTheFlagBlocks => (pc[t] = c => Schedulable(t) \/ ~Defined)
  BY DEF OnlyTheFlagBlocks
<1>3. IInv /\ [~Throw]_vars /\ <<Defined /\ Step(t)>>_vars => (pc[t] = c => (~(pc[t] = c))')
  BY OwnStep
<1>4. QED
  BY <1>1, <1>2, <1>3, PTL DEF Calm, Running, Leaves

\* The flag does not stay "running": whoever initialises gets through.
LEMMA FlagSettles == Calm => [](once = "running" => <>(once = "done" \/ ~Defined))
<1>1. ASSUME NEW u \in Thread
      PROVE  Calm => (Initialising(u) => <>(once = "done" \/ ~Defined))
  <2>1. Calm => Leaves(u, "engine")
    BY StageEnds
  <2>2. Calm => Leaves(u, "paths")
    BY StageEnds
  <2>3. IInv /\ [Next]_vars /\ [~Throw]_vars =>
          (pc[u] = "engine" => (pc[u] = "engine")' \/ (pc[u] = "paths")')
    BY CalmStep
  <2>4. IInv /\ [Next]_vars /\ [~Throw]_vars =>
          (pc[u] = "paths" => (pc[u] = "paths")' \/ (once = "done")')
    BY CalmStep
  <2>5. Initialising(u) => pc[u] = "engine" \/ pc[u] = "paths"
    BY DEF Initialising
  <2>6. QED
    BY <2>1, <2>2, <2>3, <2>4, <2>5, PTL DEF Calm, Running, Leaves
<1>2. Calm => ((\E u \in Thread : Initialising(u)) => <>(once = "done" \/ ~Defined))
  BY <1>1
<1>3. IInv => (once = "running" => \E u \in Thread : Initialising(u))
  BY DEF IInv, SingleInitializer
<1>4. QED
  BY <1>2, <1>3, PTL DEF Calm, Running

\* A thread that waits at call_once gets past it.
LEMMA WaitEnds ==
  ASSUME NEW t \in Thread
  PROVE  Calm => Leaves(t, "once")
<1>1. Running => <>~Schedulable(t) \/ <><<Defined /\ Step(t)>>_vars
  BY GoesOn
<1>2. OnlyTheFlagBlocks => (pc[t] = "once" => Schedulable(t) \/ ~Defined \/ once = "running")
  BY DEF OnlyTheFlagBlocks
<1>3. IInv /\ [~Throw]_vars /\ <<Defined /\ Step(t)>>_vars =>
        (pc[t] = "once" => (~(pc[t] = "once"))')
  BY OwnStep
<1>4. once = "done" => ~(once = "running")
  OBVIOUS
<1>5. QED
  BY <1>1, <1>2, <1>3, <1>4, DoneStays, FlagSettles, PTL DEF Calm, Running, Leaves

\* Wherever a thread is, its call ends.
LEMMA CallEnds ==
  ASSUME NEW t \in Thread
  PROVE  Calm => <>Left(t)
<1>1. Calm => Leaves(t, "once")
  BY WaitEnds
<1>2. Calm => Leaves(t, "engine")
  BY StageEnds
<1>3. Calm => Leaves(t, "paths")
  BY StageEnds
<1>4. Calm => Leaves(t, "ready")
  BY StageEnds
<1>5. IInv /\ [Next]_vars /\ [~Throw]_vars =>
        /\ pc[t] = "once" => (pc[t] = "once")' \/ (pc[t] = "engine")' \/ (pc[t] = "ready")'
        /\ pc[t] = "engine" => (pc[t] = "engine")' \/ (pc[t] = "paths")'
        /\ pc[t] = "paths" => (pc[t] = "paths")' \/ (pc[t] = "ready")'
        /\ pc[t] = "ready" => (pc[t] = "ready")' \/ Left(t)'
  BY CalmStep
<1>6. ~Defined => Left(t)
  BY DEF Left
<1>7. IInv => Left(t) \/ pc[t] = "once" \/ pc[t] = "engine" \/ pc[t] = "paths" \/ pc[t] = "ready"
  BY DEF IInv, TypeOK, Left, Defined
<1>8. QED
  BY <1>1, <1>2, <1>3, <1>4, <1>5, <1>6, <1>7, PTL DEF Calm, Running, Leaves

\* A call that has to pass call_once returns, unless initialisations throw for ever:
\* no thread waits on a flag that nobody will clear, and no order of the threads'
\* steps holds one of them back.
THEOREM EveryCallReturns ==
  Spec /\ []Fairness /\ []OnlyTheFlagBlocks => CallsReturn \/ []<><<Throw>>_vars
<1> DEFINE Returns(t) == pc[t] = "once" ~> pc[t] = "idle" \/ ~Defined
           Assumed == Running /\ ~[]<><<Throw>>_vars
<1>1. ASSUME NEW t \in Thread
      PROVE  Assumed => Returns(t)
  <2>1. Calm => <>Left(t)
    BY CallEnds
  <2>2. QED
    BY <2>1, PTL DEF Calm, Running, Left
<1>2. Assumed => \A t \in Thread : Returns(t)
  BY <1>1
<1>3. Assumed => CallsReturn
  BY <1>2 DEF CallsReturn
<1>4. QED
  BY <1>3, SpecIInv, PTL DEF Spec, Running
================================================================================
