--------------------------- MODULE CSharpStackProofs ----------------------------
(***************************************************************************)
(* Proofs about CSharpStack, for any set of threads.                       *)
(***************************************************************************)
EXTENDS CSharpStack, TLAPS

LEMMA InitIInv == Init => IInv
BY DEF Init, IInv, TypeOK, FieldInv, OverlapInv, UndefinedOnlyByOverlap, LateUseThrows,
       Disposal

\* Every step keeps the types.
LEMMA NextTypes == TypeOK /\ [Next]_vars => TypeOK'
<1> SUFFICES ASSUME TypeOK, [Next]_vars PROVE TypeOK'
  OBVIOUS
<1> USE DEF TypeOK, Disposal
<1>1. ASSUME NEW t \in Thread, UseBegins(t) PROVE TypeOK'
  BY <1>1 DEF UseBegins, Begin, Overlapped
<1>2. ASSUME NEW t \in Thread, DisposeBegins(t) PROVE TypeOK'
  BY <1>2 DEF DisposeBegins, Begin, Overlapped
<1>3. ASSUME NEW t \in Thread, GetterChecks(t) PROVE TypeOK'
  BY <1>3 DEF GetterChecks, Goto, Return
<1>4. ASSUME NEW t \in Thread, GetterReads(t) PROVE TypeOK'
  BY <1>4 DEF GetterReads, Goto
<1>5. ASSUME NEW t \in Thread, Call(t) PROVE TypeOK'
  BY <1>5 DEF Call, Goto, Return
<1>6. ASSUME NEW t \in Thread, NativeReturns(t) PROVE TypeOK'
  BY <1>6 DEF NativeReturns, Goto, Return
<1>7. ASSUME NEW t \in Thread, DisposeChecks(t) PROVE TypeOK'
  BY <1>7 DEF DisposeChecks, Goto, Return
<1>8. ASSUME NEW t \in Thread, DisposeTests(t) PROVE TypeOK'
  BY <1>8 DEF DisposeTests, Goto
<1>9. ASSUME NEW t \in Thread, DisposeReads(t) PROVE TypeOK'
  BY <1>9 DEF DisposeReads, Goto
<1>10. ASSUME NEW t \in Thread, Free(t) PROVE TypeOK'
  BY <1>10 DEF Free, Goto
<1>11. ASSUME NEW t \in Thread, Reset(t) PROVE TypeOK'
  BY <1>11 DEF Reset, Goto
<1>12. ASSUME NEW t \in Thread, Flag(t) PROVE TypeOK'
  BY <1>12 DEF Flag, Return
<1>13. CASE UNCHANGED vars
  BY <1>13 DEF vars
<1>14. QED
  BY <1>1, <1>2, <1>3, <1>4, <1>5, <1>6, <1>7, <1>8, <1>9, <1>10, <1>11, <1>12, <1>13
     DEF Next

\* While nothing is undefined, an operation that no other Dispose overlaps and
\* that is past its test of _disposed works on a live stack.
LEMMA AloneIsLive ==
  ASSUME IInv, Defined, NEW t \in Thread, ~over[t],
         pc[t] \in {"read", "call", "native", "handle", "argument", "free"}
  PROVE  object = "live" /\ handle = "object"
<1>1. ~disposed
  BY DEF IInv, OverlapInv
<1>2. \A u \in Thread : pc[u] \notin {"reset", "flag", "undefined"}
  <2> SUFFICES ASSUME NEW u \in Thread, pc[u] \in {"reset", "flag", "undefined"}
               PROVE  FALSE
    OBVIOUS
  <2>1. pc[u] \in Disposal /\ u # t /\ pc[t] # "idle"
    BY DEF Defined, Disposal
  <2> QED BY <2>1 DEF IInv, OverlapInv
<1>3. object = "live"
  BY <1>1, <1>2 DEF IInv, FieldInv, TypeOK
<1> QED BY <1>3 DEF IInv, FieldInv, TypeOK

\* The fields and the stack.
LEMMA NextFields == IInv /\ [Next]_vars => FieldInv'
<1> SUFFICES ASSUME IInv, [Next]_vars PROVE FieldInv'
  OBVIOUS
<1> USE DEF IInv, TypeOK, FieldInv
<1>1. ASSUME NEW t \in Thread, UseBegins(t) \/ DisposeBegins(t) PROVE FieldInv'
  BY <1>1 DEF UseBegins, DisposeBegins, Begin
<1>2. ASSUME NEW t \in Thread, GetterChecks(t) PROVE FieldInv'
  BY <1>2 DEF GetterChecks, Goto, Return
<1>3. ASSUME NEW t \in Thread, GetterReads(t) PROVE FieldInv'
  BY <1>3 DEF GetterReads, Goto
<1>4. ASSUME NEW t \in Thread, Call(t) PROVE FieldInv'
  BY <1>4 DEF Call, Goto, Return
<1>5. ASSUME NEW t \in Thread, NativeReturns(t) PROVE FieldInv'
  BY <1>5 DEF NativeReturns, Goto, Return
<1>6. ASSUME NEW t \in Thread, DisposeChecks(t) PROVE FieldInv'
  BY <1>6 DEF DisposeChecks, Goto, Return
<1>7. ASSUME NEW t \in Thread, DisposeTests(t) PROVE FieldInv'
  BY <1>7 DEF DisposeTests, Goto
<1>8. ASSUME NEW t \in Thread, DisposeReads(t) PROVE FieldInv'
  BY <1>8 DEF DisposeReads, Goto
<1>9. ASSUME NEW t \in Thread, Free(t) PROVE FieldInv'
  BY <1>9 DEF Free, Goto
<1>10. ASSUME NEW t \in Thread, Reset(t) PROVE FieldInv'
  BY <1>10 DEF Reset, Goto
<1>11. ASSUME NEW t \in Thread, Flag(t) PROVE FieldInv'
  BY <1>11 DEF Flag, Return
<1>12. CASE UNCHANGED vars
  BY <1>12 DEF vars
<1>13. QED
  BY <1>1, <1>2, <1>3, <1>4, <1>5, <1>6, <1>7, <1>8, <1>9, <1>10, <1>11, <1>12 DEF Next

\* Beginning an operation records what overlaps it.
LEMMA BeginOverlap ==
  ASSUME IInv, NEW t \in Thread, UseBegins(t) \/ DisposeBegins(t)
  PROVE  OverlapInv'
<1>1. PICK place \in {"getter", "check"} : Begin(t, place)
  BY DEF UseBegins, DisposeBegins
<1>2. /\ pc[t] = "idle"
      /\ \A u \in Thread : pc'[u] = IF u = t THEN place ELSE pc[u]
      /\ \A u \in Thread : late'[u] = IF u = t THEN returned ELSE late[u]
      /\ \A u \in Thread : over'[u] = IF u = t THEN Overlapped(t)
                                      ELSE over[u] \/ (place \in Disposal /\ pc[u] # "idle")
      /\ disposed' = disposed
  BY <1>1 DEF Begin, IInv, TypeOK
<1>3. ASSUME NEW v \in Thread, NEW u \in Thread,
             v # u, pc'[u] \in Disposal, pc'[v] # "idle"
      PROVE  over'[v]
  <2>1. CASE v = t
    BY <1>2, <1>3, <2>1 DEF Overlapped
  <2>2. CASE u = t
    BY <1>2, <1>3, <2>2
  <2>3. CASE v # t /\ u # t
    BY <1>2, <1>3, <2>3 DEF IInv, OverlapInv
  <2> QED BY <2>1, <2>2, <2>3
<1>4. ASSUME NEW v \in Thread,
             pc'[v] \in {"read", "call", "native", "handle", "argument", "free"}
      PROVE  over'[v] \/ ~disposed'
  BY <1>1, <1>2, <1>4 DEF IInv, OverlapInv
<1>5. ASSUME NEW v \in Thread, late'[v] PROVE disposed'
  BY <1>2, <1>5 DEF IInv, OverlapInv, FieldInv
<1> QED BY <1>3, <1>4, <1>5 DEF OverlapInv

\* The other steps keep the record: only Flag sets _disposed, and by then every
\* other operation under way is known to be overlapped.
LEMMA NextOverlap == IInv /\ [Next]_vars => OverlapInv'
<1> SUFFICES ASSUME IInv, [Next]_vars PROVE OverlapInv'
  OBVIOUS
<1> USE DEF IInv, TypeOK, OverlapInv, Disposal
<1>1. ASSUME NEW t \in Thread, UseBegins(t) \/ DisposeBegins(t) PROVE OverlapInv'
  BY <1>1, BeginOverlap
<1>2. ASSUME NEW t \in Thread, GetterChecks(t) PROVE OverlapInv'
  BY <1>2 DEF GetterChecks, Goto, Return
<1>3. ASSUME NEW t \in Thread, GetterReads(t) PROVE OverlapInv'
  BY <1>3 DEF GetterReads, Goto
<1>4. ASSUME NEW t \in Thread, Call(t) PROVE OverlapInv'
  BY <1>4 DEF Call, Goto, Return
<1>5. ASSUME NEW t \in Thread, NativeReturns(t) PROVE OverlapInv'
  BY <1>5 DEF NativeReturns, Goto, Return
<1>6. ASSUME NEW t \in Thread, DisposeChecks(t) PROVE OverlapInv'
  BY <1>6 DEF DisposeChecks, Goto, Return
<1>7. ASSUME NEW t \in Thread, DisposeTests(t) PROVE OverlapInv'
  BY <1>7 DEF DisposeTests, Goto
<1>8. ASSUME NEW t \in Thread, DisposeReads(t) PROVE OverlapInv'
  BY <1>8 DEF DisposeReads, Goto
<1>9. ASSUME NEW t \in Thread, Free(t) PROVE OverlapInv'
  BY <1>9 DEF Free, Goto
<1>10. ASSUME NEW t \in Thread, Reset(t) PROVE OverlapInv'
  BY <1>10 DEF Reset, Goto
<1>11. ASSUME NEW t \in Thread, Flag(t) PROVE OverlapInv'
  BY <1>11 DEF Flag, Return
<1>12. CASE UNCHANGED vars
  BY <1>12 DEF vars
<1>13. QED
  BY <1>1, <1>2, <1>3, <1>4, <1>5, <1>6, <1>7, <1>8, <1>9, <1>10, <1>11, <1>12 DEF Next

\* The two properties, step by step: the dangerous steps are Call, NativeReturns
\* and Free.
LEMMA NextSafe == IInv /\ [Next]_vars => UndefinedOnlyByOverlap' /\ LateUseThrows'
<1> DEFINE Safe == UndefinedOnlyByOverlap /\ LateUseThrows
<1> SUFFICES ASSUME IInv, [Next]_vars PROVE Safe'
  OBVIOUS
<1> USE DEF TypeOK, UndefinedOnlyByOverlap, LateUseThrows, Safe
<1>0. TypeOK /\ Safe /\ (returned <=> disposed)
  BY DEF IInv, FieldInv
<1>1. ASSUME NEW t \in Thread, UseBegins(t) \/ DisposeBegins(t) PROVE Safe'
  <2>1. PICK place \in {"getter", "check"} : Begin(t, place)
    BY <1>1 DEF UseBegins, DisposeBegins
  <2> QED BY <1>0, <2>1 DEF Begin
<1>2. ASSUME NEW t \in Thread, GetterChecks(t) PROVE Safe'
  <2>1. late[t] => disposed
    BY DEF IInv, OverlapInv
  <2> QED BY <1>0, <1>2, <2>1 DEF GetterChecks, Goto, Return
<1>3. ASSUME NEW t \in Thread, GetterReads(t) PROVE Safe'
  BY <1>0, <1>3 DEF GetterReads, Goto
<1>4. ASSUME NEW t \in Thread, Call(t), Defined PROVE Safe'
  <2>1. ~over[t] => object = "live" /\ handle = "object"
    BY <1>4, AloneIsLive DEF Call
  <2>2. got[t] = "zero" => handle = "zero"
    BY <1>4 DEF Call, IInv, FieldInv
  <2> QED BY <1>0, <1>4, <2>1, <2>2 DEF Call, Goto, Return
<1>5. ASSUME NEW t \in Thread, NativeReturns(t), Defined PROVE Safe'
  <2>1. ~over[t] => object = "live"
    BY <1>5, AloneIsLive DEF NativeReturns
  <2> QED BY <1>0, <1>5, <2>1 DEF NativeReturns, Goto, Return
<1>6. ASSUME NEW t \in Thread, DisposeChecks(t) PROVE Safe'
  <2>1. late[t] => disposed
    BY DEF IInv, OverlapInv
  <2> QED BY <1>0, <1>6, <2>1 DEF DisposeChecks, Goto, Return
<1>7. ASSUME NEW t \in Thread, DisposeTests(t) PROVE Safe'
  BY <1>0, <1>7 DEF DisposeTests, Goto
<1>8. ASSUME NEW t \in Thread, DisposeReads(t) PROVE Safe'
  BY <1>0, <1>8 DEF DisposeReads, Goto
<1>9. ASSUME NEW t \in Thread, Free(t), Defined PROVE Safe'
  <2>1. ~over[t] => object = "live"
    BY <1>9, AloneIsLive DEF Free
  <2> QED BY <1>0, <1>9, <2>1 DEF Free, Goto
<1>10. ASSUME NEW t \in Thread, Reset(t) PROVE Safe'
  BY <1>0, <1>10 DEF Reset, Goto
<1>11. ASSUME NEW t \in Thread, Flag(t) PROVE Safe'
  BY <1>0, <1>11 DEF Flag, Return
<1>12. CASE UNCHANGED vars
  BY <1>0, <1>12 DEF vars
<1> HIDE DEF Safe
<1>13. QED
  BY <1>1, <1>2, <1>3, <1>4, <1>5, <1>6, <1>7, <1>8, <1>9, <1>10, <1>11, <1>12 DEF Next

LEMMA SpecIInv == Spec => []IInv
<1>1. IInv /\ [Next]_vars => IInv'
  BY NextTypes, NextFields, NextOverlap, NextSafe DEF IInv
<1> QED BY <1>1, InitIInv, PTL DEF Spec

\* Every variable keeps its shape.
THEOREM TypeCorrect == Spec => []TypeOK
BY SpecIInv, PTL DEF IInv

\* Only an overlapping Dispose makes an operation dangerous.
THEOREM AloneIsSafe == Spec => []UndefinedOnlyByOverlap
BY SpecIInv, PTL DEF IInv

\* After a Dispose has returned every operation is turned away.
THEOREM LateUsesThrow == Spec => []LateUseThrows
BY SpecIInv, PTL DEF IInv

\* A Dispose that has returned leaves the stack destroyed.
THEOREM DisposeDestroys == Spec => []ReturnedIsFreed
<1>1. IInv => ReturnedIsFreed
  BY DEF IInv, FieldInv, ReturnedIsFreed
<1> QED BY <1>1, SpecIInv, PTL
(***************************************************************************)
(* What a client has to do to be safe.                                     *)
(***************************************************************************)
\* Operations on the object, uses and disposals, do not overlap: the lock the class
\* does not take is taken by its clients.
Serialized == \A t, u \in Thread : pc[t] # "idle" /\ pc[u] # "idle" => t = u

NeverOver == \A t \in Thread : ~over[t]

LEMMA SerializedKeepsNeverOver ==
  IInv /\ NeverOver /\ Serialized' /\ [Next]_vars => NeverOver'
<1> SUFFICES ASSUME IInv, NeverOver, Serialized', [Next]_vars PROVE NeverOver'
  OBVIOUS
<1>1. ASSUME NEW t \in Thread, UseBegins(t) \/ DisposeBegins(t) PROVE NeverOver'
  <2>1. PICK place \in {"getter", "check"} : Begin(t, place)
    BY <1>1 DEF UseBegins, DisposeBegins
  <2>2. \A u \in Thread : pc'[u] = IF u = t THEN place ELSE pc[u]
    BY <2>1 DEF Begin, IInv, TypeOK
  <2>3. \A u \in Thread \ {t} : pc[u] = "idle"
    BY <2>2 DEF Serialized
  <2>4. ~Overlapped(t)
    BY <2>3 DEF Overlapped, Disposal
  <2>5. over' = [u \in Thread |-> IF u = t THEN Overlapped(t)
                                  ELSE over[u] \/ (place \in Disposal /\ pc[u] # "idle")]
    BY <2>1 DEF Begin
  <2>6. QED
    BY <2>3, <2>4, <2>5 DEF NeverOver
<1>2. CASE UNCHANGED over
  BY <1>2 DEF NeverOver
<1>3. ASSUME NEW t \in Thread,
             \/ GetterChecks(t) \/ GetterReads(t) \/ Call(t) \/ NativeReturns(t)
             \/ DisposeChecks(t) \/ DisposeTests(t) \/ DisposeReads(t)
             \/ Free(t) \/ Reset(t) \/ Flag(t)
      PROVE  UNCHANGED over
  BY <1>3 DEF GetterChecks, GetterReads, Call, NativeReturns, DisposeChecks,
              DisposeTests, DisposeReads, Free, Reset, Flag
<1>4. QED
  BY <1>1, <1>2, <1>3 DEF Next, vars

\* As long as the clients let no two operations overlap, none is undefined and none
\* passes a null handle, in whatever order threads use, dispose and dispose again.
THEOREM SerializedUseIsSafe ==
  Spec /\ []Serialized => [](Defined /\ \A t \in Thread : outcome[t] # "rejected")
<1>1. Init => NeverOver
  BY DEF Init, NeverOver
<1>2. IInv /\ NeverOver => Defined /\ \A t \in Thread : outcome[t] # "rejected"
  BY DEF IInv, NeverOver, UndefinedOnlyByOverlap, Defined
<1>3. QED
  BY <1>1, <1>2, SerializedKeepsNeverOver, SpecIInv, PTL DEF Spec
================================================================================
