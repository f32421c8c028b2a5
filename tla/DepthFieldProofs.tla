---------------------------- MODULE DepthFieldProofs ----------------------------
(***************************************************************************)
(* Theorems about DepthField, for stacks of any size.                      *)
(***************************************************************************)
EXTENDS DepthField, TLAPS

\* The amplitudes in any layer are a finite product of interface matrices.
LEMMA SuffixType ==
  ASSUME n \in 2 .. MaxLayers, NEW a \in 0 .. n - 1
  PROVE  /\ Suffix(a) \in Seq(Matrix)
         /\ Len(Suffix(a)) = n - 1 - a
         /\ \A k \in 1 .. n - 1 - a : Suffix(a)[k] = a + k - 1
<1>1. MaxLayers \in Nat /\ n \in Nat /\ n - 1 - a \in Nat
  BY MaxLayersAssumption
<1>2. \A k \in 1 .. n - 1 - a : a + k - 1 \in Matrix
  BY <1>1 DEF Matrix
<1>3. QED
  BY <1>1, <1>2 DEF Suffix

\* The transmitted wave is the product of no matrices.
LEMMA SuffixLast == ASSUME n \in 2 .. MaxLayers PROVE Suffix(n - 1) = <<>>
<1>1. n \in Nat /\ n - 1 \in 0 .. n - 1
  BY MaxLayersAssumption
<1>2. Suffix(n - 1) \in Seq(Matrix) /\ Len(Suffix(n - 1)) = 0
  BY <1>1, SuffixType
<1>3. QED
  BY <1>2

\* One turn of the recurrence: matrix a on the amplitudes in layer a + 1 gives
\* those in layer a.
LEMMA SuffixStep ==
  ASSUME n \in 2 .. MaxLayers, NEW a \in 0 .. n - 2
  PROVE  <<a>> \o Suffix(a + 1) = Suffix(a)
<1>1. n \in Nat /\ a \in 0 .. n - 1 /\ a + 1 \in 0 .. n - 1
  BY MaxLayersAssumption
<1>2. /\ Suffix(a + 1) \in Seq(Matrix)
      /\ Len(Suffix(a + 1)) = n - 2 - a
      /\ \A k \in 1 .. n - 2 - a : Suffix(a + 1)[k] = a + k
  <2> DEFINE b == a + 1
  <2>1. b \in 0 .. n - 1
    BY <1>1
  <2> HIDE DEF b
  <2>2. /\ Suffix(b) \in Seq(Matrix)
        /\ Len(Suffix(b)) = n - 1 - b
        /\ \A k \in 1 .. n - 1 - b : Suffix(b)[k] = b + k - 1
    BY <2>1, SuffixType
  <2>3. b = a + 1 /\ b \in Int
    BY <1>1 DEF b
  <2>4. QED
    BY <1>1, <2>2, <2>3
<1>3. /\ Suffix(a) \in Seq(Matrix)
      /\ Len(Suffix(a)) = n - 1 - a
      /\ \A k \in 1 .. n - 1 - a : Suffix(a)[k] = a + k - 1
  BY <1>1, SuffixType
<1> DEFINE longer == <<a>> \o Suffix(a + 1)
<1>4. a \in Matrix
  BY <1>1, MaxLayersAssumption DEF Matrix
<1>5. longer \in Seq(Matrix) /\ Len(longer) = n - 1 - a
  BY <1>1, <1>2, <1>4
<1>6. ASSUME NEW k \in 1 .. n - 1 - a PROVE longer[k] = Suffix(a)[k]
  <2>1. CASE k = 1
    BY <1>1, <1>2, <1>3, <1>4, <2>1
  <2>2. CASE k > 1
    <3>1. longer[k] = Suffix(a + 1)[k - 1]
      BY <1>1, <1>2, <1>4, <2>2
    <3>2. Suffix(a + 1)[k - 1] = a + (k - 1)
      BY <1>1, <1>2, <2>2
    <3>3. QED
      BY <1>1, <1>3, <3>1, <3>2
  <2>3. k = 1 \/ k > 1
    BY <1>1
  <2>4. QED
    BY <2>1, <2>2, <2>3
<1> HIDE DEF longer
<1>7. longer = Suffix(a)
  BY <1>1, <1>3, <1>5, <1>6
<1>8. QED
  BY <1>7 DEF longer

(***************************************************************************)
(* The invariant.                                                          *)
(***************************************************************************)

\* The counting of the languages: the first row is row 0 or row 1.
LEMMA BaseType == ASSUME NEW p PROVE Base(p) \in 0 .. 1
  BY DEF Base

LEMMA InitIInv == Init => IInv
<1> SUFFICES ASSUME Init PROVE IInv
  OBVIOUS
<1>1. Garbage \in Seq(Matrix) /\ 0 \in Nat
  BY MaxLayersAssumption DEF Garbage, Matrix
<1>2. NoResult \in [word : Seq(Matrix), phase : Nat, angle : Nat, poynting : Nat,
                    absorbed : Nat]
  BY <1>1 DEF NoResult
<1>3. i \in -1 .. MaxLayers
  BY MaxLayersAssumption DEF Init
<1>4. TypeOK
  BY <1>1, <1>2, <1>3 DEF Init, TypeOK
<1>5. ListIsSuffix /\ LoopInv /\ HelperInv /\ FieldOfLayer
  BY DEF Init, ListIsSuffix, LoopInv, HelperInv, FieldOfLayer
<1>6. QED
  BY <1>4, <1>5 DEF IInv

\* Finished rows stay finished while nothing they depend on changes.
LEMMA SuffixKept ==
  ASSUME ListIsSuffix, UNCHANGED <<prog, n, i, list>>, pc # "start"
  PROVE  ListIsSuffix'
<1>1. SUFFICES ASSUME prog \in Example, NEW row \in (i + 1 .. n - 1 + Base(prog))'
               PROVE  list'[row] = Suffix(row - Base(prog))'
  BY DEF ListIsSuffix
<1>2. Suffix(row - Base(prog))' = Suffix(row - Base(prog))
  BY DEF Suffix, Base
<1>3. row \in i + 1 .. n - 1 + Base(prog)
  BY <1>1 DEF Base
<1>4. QED
  BY <1>1, <1>2, <1>3 DEF ListIsSuffix

\* The first row an Example 1 writes is that of the last layer.
LEMMA ListStartIInv == IInv /\ ListStart => IInv'
<1> SUFFICES ASSUME IInv, ListStart PROVE IInv'
  OBVIOUS
<1> DEFINE top == n - 1 + Base(prog)
<1>1. /\ n \in 2 .. MaxLayers /\ n \in Nat /\ MaxLayers \in Nat
      /\ Base(prog) \in 0 .. 1 /\ top \in 0 .. MaxLayers
      /\ list \in [0 .. MaxLayers -> Seq(Matrix)]
  BY MaxLayersAssumption, BaseType DEF IInv, TypeOK
<1>2. /\ prog \in Example /\ prog' = prog /\ n' = n /\ target' = target
      /\ result' = result /\ pc' = "loop" /\ i' = top - 1
      /\ list' = [list EXCEPT ![top] = <<>>]
  BY <1>1 DEF ListStart
<1> HIDE DEF top
<1>3. list' \in [0 .. MaxLayers -> Seq(Matrix)] /\ list'[top] = <<>>
  BY <1>1, <1>2
<1>4. i' \in -1 .. MaxLayers
  BY <1>1, <1>2
<1>5. TypeOK'
  BY <1>2, <1>3, <1>4 DEF IInv, TypeOK
<1>6. ListIsSuffix'
  <2>1. Suffix(top - Base(prog)) = <<>>
    BY <1>1, SuffixLast DEF top
  <2>2. Suffix(top - Base(prog))' = <<>>
    BY <1>2, <2>1 DEF Suffix, top, Base
  <2>3. \A row \in i' + 1 .. n - 1 + Base(prog) : row = top
    BY <1>1, <1>2 DEF top
  <2>4. QED
    BY <1>2, <1>3, <2>1, <2>3 DEF ListIsSuffix, Suffix, Base
<1>7. LoopInv'
  <2>1. i' \in Base(prog) - 1 .. n - 2 + Base(prog)
    BY <1>1, <1>2 DEF top
  <2>2. QED
    BY <1>2, <2>1 DEF LoopInv, Base
<1>8. HelperInv' /\ FieldOfLayer'
  BY <1>2 DEF HelperInv, FieldOfLayer, Example
<1>9. QED
  BY <1>5, <1>6, <1>7, <1>8 DEF IInv

\* Every turn of the list loop extends the written rows by one.
LEMMA ListRowIInv == IInv /\ ListRow => IInv'
<1> SUFFICES ASSUME IInv, ListRow PROVE IInv'
  OBVIOUS
<1> DEFINE a == i - Base(prog)
<1>1. /\ n \in 2 .. MaxLayers /\ n \in Nat /\ MaxLayers \in Nat
      /\ Base(prog) \in 0 .. 1 /\ Base(prog) \in Int
      /\ list \in [0 .. MaxLayers -> Seq(Matrix)]
  BY MaxLayersAssumption, BaseType DEF IInv, TypeOK
<1>2. /\ prog \in Example /\ prog' = prog /\ n' = n /\ target' = target
      /\ result' = result /\ pc = "loop" /\ pc' = pc /\ i' = i - 1
      /\ list' = [list EXCEPT ![i] = <<a>> \o list[i + 1]]
  BY DEF ListRow
<1>3. i \in Base(prog) .. n - 2 + Base(prog) /\ i \in Int
  <2>1. i \in Base(prog) - 1 .. n - 2 + Base(prog)
    BY <1>2 DEF IInv, LoopInv
  <2>2. i >= Base(prog)
    BY DEF ListRow, MoreRows
  <2>3. QED
    BY <1>1, <2>1, <2>2
<1>4. /\ a \in 0 .. n - 2 /\ i \in 0 .. MaxLayers /\ i + 1 \in 0 .. MaxLayers
      /\ (i + 1) - Base(prog) = a + 1
  BY <1>1, <1>3
<1>5. \A row \in i + 1 .. n - 1 + Base(prog) : list[row] = Suffix(row - Base(prog))
  BY <1>2 DEF IInv, ListIsSuffix
<1>6. list[i + 1] = Suffix(a + 1)
  <2>1. i + 1 \in i + 1 .. n - 1 + Base(prog)
    BY <1>1, <1>3
  <2>2. list[i + 1] = Suffix((i + 1) - Base(prog))
    BY <1>5, <2>1
  <2>3. QED
    BY <1>4, <2>2
<1>7. list' = [list EXCEPT ![i] = Suffix(a)]
  BY <1>1, <1>2, <1>4, <1>6, SuffixStep
<1>8. Suffix(a) \in Seq(Matrix)
  BY <1>1, <1>4, SuffixType
<1> HIDE DEF a
<1>9. list' \in [0 .. MaxLayers -> Seq(Matrix)]
  BY <1>1, <1>4, <1>7, <1>8
<1>10. i' \in -1 .. MaxLayers
  BY <1>1, <1>2, <1>3
<1>11. TypeOK'
  BY <1>2, <1>9, <1>10 DEF IInv, TypeOK
<1>12. ListIsSuffix'
  <2>1. ASSUME NEW row \in i' + 1 .. n - 1 + Base(prog)
        PROVE  list'[row] = Suffix(row - Base(prog))
    <3>1. row \in 0 .. MaxLayers /\ (row = i \/ row \in i + 1 .. n - 1 + Base(prog))
      BY <1>1, <1>2, <1>3
    <3>2. CASE row = i
      BY <1>1, <1>4, <1>7, <3>2 DEF a
    <3>3. CASE row # i
      BY <1>1, <1>5, <1>7, <3>1, <3>3
    <3>4. QED
      BY <3>2, <3>3
  <2>2. SUFFICES ASSUME NEW row \in (i + 1 .. n - 1 + Base(prog))'
                 PROVE  list'[row] = Suffix(row - Base(prog))'
    BY <1>2 DEF ListIsSuffix
  <2>3. Suffix(row - Base(prog))' = Suffix(row - Base(prog))
    BY <1>2 DEF Suffix, Base
  <2>4. row \in i' + 1 .. n - 1 + Base(prog)
    BY <1>2, <2>2 DEF Base
  <2>5. QED
    BY <2>1, <2>3, <2>4
<1>13. LoopInv'
  <2>1. i' \in Base(prog) - 1 .. n - 2 + Base(prog)
    BY <1>1, <1>2, <1>3
  <2>2. QED
    BY <1>2, <2>1 DEF LoopInv, Base
<1>14. HelperInv' /\ FieldOfLayer'
  BY <1>2 DEF HelperInv, FieldOfLayer, Example
<1>15. QED
  BY <1>11, <1>12, <1>13, <1>14 DEF IInv

\* The index of the depth's layer survives the way through the binding.
LEMMA IndexRoundTrip ==
  ASSUME NEW p \in Example, NEW layer \in Nat
  PROVE  /\ CIndex(p, FoundIndex(p, layer)) = layer
         /\ Row(p, FoundIndex(p, layer)) = layer + Base(p)
<1>1. CASE p = "fortran"
  BY <1>1 DEF CIndex, FoundIndex, Row, Base
<1>2. CASE p = "matlab"
  BY <1>2 DEF CIndex, FoundIndex, Row, Base
<1>3. CASE p \in {"c", "csharp"}
  BY <1>3 DEF CIndex, FoundIndex, Row, Base
<1>4. QED
  BY <1>1, <1>2, <1>3 DEF Example

\* The depth loop evaluates the layer its depth lies in.
LEMMA EvaluateIInv == IInv /\ Evaluate => IInv'
<1> SUFFICES ASSUME IInv, Evaluate PROVE IInv'
  OBVIOUS
<1> DEFINE id == FoundIndex(prog, target)
<1> DEFINE row == target + Base(prog)
<1>1. /\ n \in 2 .. MaxLayers /\ n \in Nat /\ MaxLayers \in Nat
      /\ target \in 0 .. n - 1 /\ target \in Nat
      /\ Base(prog) \in 0 .. 1 /\ Base(prog) \in Int
      /\ list \in [0 .. MaxLayers -> Seq(Matrix)]
  BY MaxLayersAssumption, BaseType DEF IInv, TypeOK
<1>2. /\ prog \in Example /\ prog' = prog /\ n' = n /\ target' = target
      /\ i' = i /\ list' = list /\ pc = "loop" /\ pc' = "done"
  BY DEF Evaluate
<1>3. CIndex(prog, id) = target /\ Row(prog, id) = row
  BY <1>1, <1>2, IndexRoundTrip
<1>4. result' = [word     |-> list[Row(prog, id)],
                 phase    |-> CIndex(prog, id),
                 angle    |-> Row(prog, id) - Base(prog),
                 poynting |-> PoyntingLayer(prog, id),
                 absorbed |-> CIndex(prog, id)]
  BY DEF Evaluate
<1>5. PoyntingLayer(prog, id) \in Nat
  BY <1>1, <1>3 DEF PoyntingLayer
<1>6. row - Base(prog) = target
  BY <1>1
<1>7. result' = [word |-> list[row], phase |-> target, angle |-> target,
                 poynting |-> PoyntingLayer(prog, id), absorbed |-> target]
  BY <1>3, <1>4, <1>6
<1> HIDE DEF id
<1>8. i = Base(prog) - 1
  <2>1. i \in Base(prog) - 1 .. n - 2 + Base(prog)
    BY <1>2 DEF IInv, LoopInv
  <2>2. ~(i >= Base(prog))
    BY DEF Evaluate, MoreRows
  <2>3. QED
    BY <1>1, <2>1, <2>2
<1>9. list[row] = Suffix(target)
  <2>1. row \in i + 1 .. n - 1 + Base(prog)
    BY <1>1, <1>8
  <2>2. list[row] = Suffix(row - Base(prog))
    BY <1>2, <2>1 DEF IInv, ListIsSuffix
  <2>3. QED
    BY <1>6, <2>2
<1> HIDE DEF row
<1>10. Suffix(target) \in Seq(Matrix)
  BY <1>1, SuffixType
<1>11. result' = [word |-> Suffix(target), phase |-> target, angle |-> target,
                  poynting |-> PoyntingLayer(prog, id), absorbed |-> target]
  BY <1>7, <1>9
<1>12. TypeOK'
  BY <1>1, <1>2, <1>5, <1>10, <1>11 DEF IInv, TypeOK
<1>13. ListIsSuffix'
  BY <1>2, SuffixKept DEF IInv
<1>14. LoopInv'
  BY <1>2, <1>8 DEF IInv, LoopInv, Base
<1>15. FieldOfLayer'
  <2>1. Suffix(target)' = Suffix(target)
    BY <1>2 DEF Suffix
  <2>2. QED
    BY <1>2, <1>11, <2>1 DEF FieldOfLayer
<1>16. HelperInv'
  BY <1>2 DEF HelperInv, Example
<1>17. QED
  BY <1>12, <1>13, <1>14, <1>15, <1>16 DEF IInv

(***************************************************************************)
(* The helper.                                                             *)
(***************************************************************************)

\* The helper starts from the transmitted wave.
LEMMA HelperStartIInv == IInv /\ HelperStart => IInv'
<1> SUFFICES ASSUME IInv, HelperStart PROVE IInv'
  OBVIOUS
<1>1. /\ n \in 2 .. MaxLayers /\ n \in Nat /\ MaxLayers \in Nat
      /\ list \in [0 .. MaxLayers -> Seq(Matrix)] /\ 0 \in 0 .. MaxLayers
  BY MaxLayersAssumption DEF IInv, TypeOK
<1>2. /\ prog = "helper" /\ prog' = prog /\ n' = n /\ target' = target
      /\ result' = result /\ pc' = "loop" /\ i' = n - 2
      /\ list' = [list EXCEPT ![0] = <<>>]
  BY DEF HelperStart
<1>3. list' \in [0 .. MaxLayers -> Seq(Matrix)] /\ list'[0] = <<>>
  BY <1>1, <1>2
<1>4. i' \in -1 .. MaxLayers /\ i' \in -1 .. n - 2 /\ i' + 1 = n - 1
  BY <1>1, <1>2
<1>5. TypeOK'
  BY <1>2, <1>3, <1>4 DEF IInv, TypeOK
<1>6. HelperInv'
  <2>1. Suffix(i' + 1) = <<>>
    BY <1>1, <1>4, SuffixLast
  <2>2. Suffix(i + 1)' = Suffix(i' + 1)
    BY <1>2 DEF Suffix
  <2>3. (list[0] = Suffix(i + 1))'
    BY <1>3, <2>1, <2>2
  <2>4. QED
    BY <1>2, <1>4, <2>3 DEF HelperInv
<1>7. ListIsSuffix' /\ LoopInv' /\ FieldOfLayer'
  BY <1>2 DEF ListIsSuffix, LoopInv, FieldOfLayer, Example
<1>8. QED
  BY <1>5, <1>6, <1>7 DEF IInv

\* Every turn of the helper's loop multiplies one more matrix into its vector.
LEMMA HelperStepIInv == IInv /\ HelperStep => IInv'
<1> SUFFICES ASSUME IInv, HelperStep PROVE IInv'
  OBVIOUS
<1>1. /\ n \in 2 .. MaxLayers /\ n \in Nat /\ MaxLayers \in Nat
      /\ list \in [0 .. MaxLayers -> Seq(Matrix)] /\ 0 \in 0 .. MaxLayers
  BY MaxLayersAssumption DEF IInv, TypeOK
<1>2. /\ prog = "helper" /\ prog' = prog /\ n' = n /\ target' = target
      /\ result' = result /\ pc = "loop" /\ pc' = pc /\ i' = i - 1
      /\ list' = [list EXCEPT ![0] = <<i>> \o list[0]]
  BY DEF HelperStep
<1>3. i \in 0 .. n - 2 /\ i \in 0 .. n - 1 /\ list[0] = Suffix(i + 1)
  <2>1. i \in -1 .. n - 2 /\ list[0] = Suffix(i + 1)
    BY <1>2 DEF IInv, HelperInv
  <2>2. i >= 0
    BY DEF HelperStep, HelperMore
  <2>3. QED
    BY <1>1, <2>1, <2>2
<1>4. list' = [list EXCEPT ![0] = Suffix(i)]
  BY <1>1, <1>2, <1>3, SuffixStep
<1>5. Suffix(i) \in Seq(Matrix)
  BY <1>1, <1>3, SuffixType
<1>6. list' \in [0 .. MaxLayers -> Seq(Matrix)] /\ list'[0] = Suffix(i)
  BY <1>1, <1>4, <1>5
<1>7. i' \in -1 .. MaxLayers /\ i' \in -1 .. n - 2 /\ i' + 1 = i
  BY <1>1, <1>2, <1>3
<1>8. TypeOK'
  BY <1>2, <1>6, <1>7 DEF IInv, TypeOK
<1>9. HelperInv'
  <2>1. Suffix(i + 1)' = Suffix(i' + 1)
    BY <1>2 DEF Suffix
  <2>2. (list[0] = Suffix(i + 1))'
    BY <1>6, <1>7, <2>1
  <2>3. QED
    BY <1>2, <1>7, <2>2 DEF HelperInv
<1>10. ListIsSuffix' /\ LoopInv' /\ FieldOfLayer'
  BY <1>2 DEF ListIsSuffix, LoopInv, FieldOfLayer, Example
<1>11. QED
  BY <1>8, <1>9, <1>10 DEF IInv

\* The phase of the found layer goes onto the product of all the matrices.
LEMMA HelperPhaseIInv == IInv /\ HelperPhase => IInv'
<1> SUFFICES ASSUME IInv, HelperPhase PROVE IInv'
  OBVIOUS
<1>1. /\ n \in Nat /\ MaxLayers \in Nat /\ target \in Nat
      /\ list \in [0 .. MaxLayers -> Seq(Matrix)] /\ list[0] \in Seq(Matrix)
  BY MaxLayersAssumption DEF IInv, TypeOK
<1>2. /\ prog = "helper" /\ prog' = prog /\ n' = n /\ target' = target
      /\ i' = i /\ list' = list /\ pc = "loop" /\ pc' = "done"
      /\ result' = [word |-> list[0], phase |-> target, angle |-> target,
                    poynting |-> target, absorbed |-> target]
  BY DEF HelperPhase
<1>3. i = -1 /\ i \in -1 .. n - 2 /\ list[0] = Suffix(i + 1)
  <2>1. i \in -1 .. n - 2 /\ list[0] = Suffix(i + 1)
    BY <1>2 DEF IInv, HelperInv
  <2>2. ~(i >= 0)
    BY DEF HelperPhase, HelperMore
  <2>3. QED
    BY <1>1, <2>1, <2>2
<1>4. TypeOK'
  BY <1>1, <1>2 DEF IInv, TypeOK
<1>5. HelperInv'
  <2>1. Suffix(i + 1)' = Suffix(i + 1)
    BY <1>2 DEF Suffix
  <2>2. (list[0] = Suffix(i + 1))'
    BY <1>2, <1>3, <2>1
  <2>3. (result.word = list[0] /\ result.phase = target)'
    BY <1>2
  <2>4. (i \in -1 .. n - 2 /\ i = -1)'
    BY <1>2, <1>3
  <2>5. QED
    BY <1>2, <2>2, <2>3, <2>4 DEF HelperInv
<1>6. ListIsSuffix' /\ LoopInv' /\ FieldOfLayer'
  BY <1>2 DEF ListIsSuffix, LoopInv, FieldOfLayer, Example
<1>7. QED
  BY <1>4, <1>5, <1>6 DEF IInv

(***************************************************************************)
(* The theorems.                                                           *)
(***************************************************************************)
LEMMA StutterIInv == IInv /\ UNCHANGED vars => IInv'
<1> SUFFICES ASSUME IInv, UNCHANGED vars PROVE IInv'
  OBVIOUS
<1>1. UNCHANGED <<prog, n, target, pc, i, list, result>>
  BY DEF vars
<1>2. TypeOK'
  BY <1>1 DEF IInv, TypeOK
<1>3. ListIsSuffix'
  <2>1. CASE pc = "start"
    BY <1>1, <2>1 DEF ListIsSuffix
  <2>2. CASE pc # "start"
    BY <1>1, <2>2, SuffixKept DEF IInv
  <2>3. QED
    BY <2>1, <2>2
<1>4. LoopInv'
  BY <1>1 DEF IInv, LoopInv, Base
<1>5. HelperInv'
  <2>1. Suffix(i + 1)' = Suffix(i + 1)
    BY <1>1 DEF Suffix
  <2>2. QED
    BY <1>1, <2>1 DEF IInv, HelperInv
<1>6. FieldOfLayer'
  <2>1. Suffix(target)' = Suffix(target)
    BY <1>1 DEF Suffix
  <2>2. QED
    BY <1>1, <2>1 DEF IInv, FieldOfLayer
<1>7. QED
  BY <1>2, <1>3, <1>4, <1>5, <1>6 DEF IInv

LEMMA SpecIInv == Spec => []IInv
<1>1. IInv /\ [Next]_vars => IInv'
  BY ListStartIInv, ListRowIInv, EvaluateIInv, HelperStartIInv, HelperStepIInv,
     HelperPhaseIInv, StutterIInv DEF Next, Done
<1>2. QED
  BY InitIInv, <1>1, PTL DEF Spec

\* Every variable has its shape, and no row outside the list is touched.
THEOREM TypeCorrect == Spec => []TypeOK
<1>1. IInv => TypeOK
  BY DEF IInv
<1>2. QED
  BY SpecIInv, <1>1, PTL

\* The rows the list loop has reached hold the amplitudes of their layers.
THEOREM ListCorrect == Spec => []ListIsSuffix
<1>1. IInv => ListIsSuffix
  BY DEF IInv
<1>2. QED
  BY SpecIInv, <1>1, PTL

\* Example 1 evaluates every depth with the data of the layer it lies in.
THEOREM FieldCorrect == Spec => []FieldOfLayer
<1>1. IInv => FieldOfLayer
  BY DEF IInv
<1>2. QED
  BY SpecIInv, <1>1, PTL

\* In the first layer, the helper computes what Example 1 computes.
THEOREM HelperSurfaceCorrect == Spec => []HelperAtSurface
<1>1. IInv => HelperAtSurface
  <2> SUFFICES ASSUME IInv, prog = "helper", pc = "done", target = 0
               PROVE  result.word = Suffix(0) /\ result.phase = 0
    BY DEF HelperAtSurface
  <2>1. i = -1 /\ result.word = list[0] /\ result.phase = target /\ list[0] = Suffix(i + 1)
    BY DEF IInv, HelperInv
  <2>2. i + 1 = 0
    BY <2>1
  <2>3. QED
    BY <2>1, <2>2
<1>2. QED
  BY SpecIInv, <1>1, PTL

\* Below the first layer the helper never computes what Example 1 computes: its
\* product has a matrix for every interface of the stack, whatever the depth.
THEOREM HelperDiffersBelowSurface ==
  Spec => [](prog = "helper" /\ pc = "done" => (HelperIsExample <=> target = 0))
<1>1. IInv => (prog = "helper" /\ pc = "done" => (HelperIsExample <=> target = 0))
  <2> SUFFICES ASSUME IInv, prog = "helper", pc = "done"
               PROVE  result.word = Suffix(target) <=> target = 0
    BY DEF HelperIsExample
  <2>1. n \in 2 .. MaxLayers /\ n \in Nat /\ target \in 0 .. n - 1 /\ 0 \in 0 .. n - 1
    BY MaxLayersAssumption DEF IInv, TypeOK
  <2>2. result.word = Suffix(0)
    <3>1. i = -1 /\ result.word = list[0] /\ list[0] = Suffix(i + 1)
      BY DEF IInv, HelperInv
    <3>2. i + 1 = 0
      BY <3>1
    <3>3. QED
      BY <3>1, <3>2
  <2>3. Len(Suffix(0)) = n - 1 /\ Len(Suffix(target)) = n - 1 - target
    BY <2>1, SuffixType
  <2>4. QED
    BY <2>1, <2>2, <2>3
<1>2. QED
  BY SpecIInv, <1>1, PTL

\* The layer of the Poynting vector is the one the program names.
PoyntingInv ==
  prog \in Example /\ pc = "done" =>
    result.poynting = PoyntingLayer(prog, FoundIndex(prog, target))

LEMMA SpecPoyntingInv == Spec => []PoyntingInv
<1>1. Init => PoyntingInv
  BY DEF Init, PoyntingInv
<1>2. PoyntingInv /\ [Next]_vars => PoyntingInv'
  <2> SUFFICES ASSUME PoyntingInv, [Next]_vars PROVE PoyntingInv'
    OBVIOUS
  <2>1. CASE ListStart \/ ListRow \/ HelperStart \/ HelperStep
    BY <2>1 DEF PoyntingInv, ListStart, ListRow, HelperStart, HelperStep, Example
  <2>2. CASE Evaluate
    BY <2>2 DEF PoyntingInv, Evaluate, PoyntingLayer, FoundIndex, CIndex
  <2>3. CASE HelperPhase
    BY <2>3 DEF PoyntingInv, HelperPhase, Example
  <2>4. CASE UNCHANGED vars
    BY <2>4 DEF PoyntingInv, vars, PoyntingLayer, FoundIndex, CIndex
  <2>5. QED
    BY <2>1, <2>2, <2>3, <2>4 DEF Next, Done
<1>3. QED
  BY <1>1, <1>2, PTL DEF Spec

\* Of the four versions of Example 1 only MATLAB's computes the Poynting vector with
\* the index of another layer, and it does so at every depth outside the second one.
THEOREM PoyntingCorrect ==
  Spec => [](prog \in Example /\ pc = "done" =>
               (PoyntingOfLayer <=> prog # "matlab" \/ target = 1))
<1>1. IInv /\ PoyntingInv =>
        (prog \in Example /\ pc = "done" =>
           (PoyntingOfLayer <=> prog # "matlab" \/ target = 1))
  <2> SUFFICES ASSUME IInv, PoyntingInv, prog \in Example, pc = "done"
               PROVE  result.poynting = target <=> prog # "matlab" \/ target = 1
    BY DEF PoyntingOfLayer
  <2>1. target \in Nat
    BY MaxLayersAssumption DEF IInv, TypeOK
  <2>2. result.poynting = IF prog = "matlab" THEN 1 ELSE target
    BY <2>1, IndexRoundTrip DEF PoyntingInv, PoyntingLayer
  <2>3. QED
    BY <2>1, <2>2
<1>2. QED
  BY SpecIInv, SpecPoyntingInv, <1>1, PTL
(***************************************************************************)
(* The loops end.                                                          *)
(***************************************************************************)
\* The steps a program has left: one per interface, one to begin and one to end.
Remaining == IF pc = "start" THEN n + 1
             ELSE IF pc = "loop" THEN i - Base(prog) + 2
             ELSE 0

LEMMA RemainingRange ==
  IInv => Remaining \in 0 .. n + 1 /\ (Remaining = 0 <=> pc = "done")
<1> SUFFICES ASSUME IInv
             PROVE  Remaining \in 0 .. n + 1 /\ (Remaining = 0 <=> pc = "done")
  OBVIOUS
<1>1. /\ n \in Nat /\ n >= 2 /\ prog \in Program
      /\ pc \in {"start", "loop", "done"} /\ i \in Int
  BY MaxLayersAssumption DEF IInv, TypeOK
<1>2. CASE pc # "loop"
  BY <1>1, <1>2 DEF Remaining
<1>3. CASE pc = "loop" /\ prog \in Example
  <2>1. Base(prog) \in Int /\ i \in Base(prog) - 1 .. n - 2 + Base(prog)
    BY <1>1, <1>3 DEF IInv, LoopInv, Base
  <2>2. QED
    BY <1>1, <1>3, <2>1 DEF Remaining
<1>4. CASE pc = "loop" /\ prog = "helper"
  <2>1. Base(prog) = 0 /\ i \in -1 .. n - 2
    BY <1>1, <1>4 DEF IInv, HelperInv, Base
  <2>2. QED
    BY <1>1, <1>4, <2>1 DEF Remaining
<1>5. QED
  BY <1>1, <1>2, <1>3, <1>4 DEF Program

LEMMA RemainingDecreases ==
  IInv /\ [Next]_vars =>
    [Remaining' = Remaining - 1 /\ UNCHANGED <<prog, n, target>>]_vars
<1> DEFINE Decreases == Remaining' = Remaining - 1 /\ UNCHANGED <<prog, n, target>>
<1> SUFFICES ASSUME IInv, Next, ~UNCHANGED vars PROVE Decreases
  OBVIOUS
<1>1. n \in Nat /\ i \in Int /\ prog \in Program /\ Base(prog) \in Int
  BY MaxLayersAssumption DEF IInv, TypeOK, Base
<1>2. Base("helper") = 0
  BY DEF Base
<1>3. CASE ListStart
  BY <1>1, <1>3 DEF ListStart, Remaining
<1>4. CASE ListRow
  BY <1>1, <1>4 DEF ListRow, Remaining
<1>5. CASE Evaluate
  <2>1. i = Base(prog) - 1
    BY <1>1, <1>5 DEF Evaluate, MoreRows, IInv, LoopInv
  <2>2. QED
    BY <1>1, <1>5, <2>1 DEF Evaluate, Remaining
<1>6. CASE HelperStart
  BY <1>1, <1>2, <1>6 DEF HelperStart, Remaining
<1>7. CASE HelperStep
  BY <1>1, <1>7 DEF HelperStep, Remaining
<1>8. CASE HelperPhase
  <2>1. i = -1
    BY <1>1, <1>8 DEF HelperPhase, HelperMore, IInv, HelperInv
  <2>2. QED
    BY <1>1, <1>2, <1>8, <2>1 DEF HelperPhase, Remaining
<1>9. QED
  BY <1>3, <1>4, <1>5, <1>6, <1>7, <1>8 DEF Next, Done

\* Whatever the language counts from, every program is done after exactly n + 1 steps:
\* it takes one of them with every step, and is done when and only when none is left.
THEOREM LoopsEnd ==
  Spec => /\ [](Remaining \in 0 .. n + 1 /\ (Remaining = 0 <=> pc = "done"))
          /\ [][Remaining' = Remaining - 1 /\ UNCHANGED <<prog, n, target>>]_vars
BY RemainingRange, RemainingDecreases, SpecIInv, PTL DEF Spec
================================================================================
