--------------------------- MODULE ErrorBridgeProofs ---------------------------
(***************************************************************************)
(* Theorems about ErrorBridge, for any set of threads and of texts.        *)
(***************************************************************************)
EXTENDS ErrorBridge, TLAPS

(***************************************************************************)
(* The catch clauses.  Handler picks the first clause that matches, which  *)
(* is the clause of the exception's own class.                             *)
(***************************************************************************)

\* The first matching catch clause of guard, for each class of exception.
LEMMA HandlerOfKind ==
  ASSUME NEW e \in Exception
  PROVE  Handler(e) = IF e.kind = "foreign" THEN "..." ELSE e.kind
<1> DEFINE First(i) == /\ Matches(i, e)
                       /\ \A j \in 1..4 : Matches(j, e) => i <= j
<1>1. ASSUME NEW i \in 1..4, First(i)
      PROVE  Handler(e) = Clauses[i]
  <2>1. \A k \in 1..4 : First(k) => k = i
    BY <1>1
  <2>2. (CHOOSE k \in 1..4 : First(k)) = i
    BY <1>1, <2>1
  <2>3. QED
    BY <2>2 DEF Handler
<1>2. CASE e.kind = "invalid_argument"
  <2>1. First(1)
    BY <1>2 DEF Matches, Clauses, Classes, Kind
  <2>2. QED
    BY <1>1, <1>2, <2>1 DEF Clauses
<1>3. CASE e.kind = "bad_alloc"
  <2>1. First(2)
    BY <1>3 DEF Matches, Clauses, Classes, Kind
  <2>2. QED
    BY <1>1, <1>3, <2>1 DEF Clauses
<1>4. CASE e.kind = "exception"
  <2>1. First(3)
    BY <1>4 DEF Matches, Clauses, Classes, Kind
  <2>2. QED
    BY <1>1, <1>4, <2>1 DEF Clauses
<1>5. CASE e.kind = "foreign"
  <2>1. First(4)
    BY <1>5 DEF Matches, Clauses, Classes, Kind
  <2>2. QED
    BY <1>1, <1>5, <2>1 DEF Clauses
<1>6. QED
  BY <1>2, <1>3, <1>4, <1>5 DEF Exception, Kind

\* The status and the text guard gives each class of exception.
LEMMA HandlerByKind ==
  ASSUME NEW e \in Exception
  PROVE  [cause |-> e.kind, status |-> HandlerStatus(e), text |-> HandlerText(e)]
           \in Register!Failure
<1>1. e.kind \in Kind /\ e.what \in What
  BY DEF Exception
<1>2. CASE e.kind = "invalid_argument"
  BY <1>1, <1>2, HandlerOfKind DEF HandlerStatus, HandlerText, Register!Failure
<1>3. CASE e.kind = "bad_alloc"
  BY <1>1, <1>3, HandlerOfKind DEF HandlerStatus, HandlerText, Register!Failure
<1>4. CASE e.kind = "exception"
  BY <1>1, <1>4, HandlerOfKind DEF HandlerStatus, HandlerText, Register!Failure
<1>5. CASE e.kind = "foreign"
  BY <1>1, <1>5, HandlerOfKind DEF HandlerStatus, HandlerText, Register!Failure
<1>6. QED
  BY <1>1, <1>2, <1>3, <1>4, <1>5 DEF Kind

\* A failure has one of the three error statuses, a text, and only a text of
\* the exception itself can be too long for the in-place buffer.
LEMMA HandlerTypes ==
  ASSUME NEW e \in Exception
  PROVE  /\ HandlerStatus(e) \in GuardError
         /\ HandlerText(e) \in Text
         /\ Allocates(HandlerText(e)) => e.kind \in {"invalid_argument", "exception"}
<1>1. e.kind \in Kind /\ e.what \in What
  BY DEF Exception
<1>2. HandlerStatus(e) \in GuardError /\ HandlerText(e) \in Text
  BY <1>1, HandlerOfKind DEF HandlerStatus, HandlerText, GuardError, Text, Kind
<1>3. ASSUME e.kind \notin {"invalid_argument", "exception"}
      PROVE  HandlerText(e) \in {"out of memory", "unknown error"}
  BY <1>1, <1>3, HandlerOfKind DEF HandlerText, Kind
<1>4. QED
  BY <1>2, <1>3, TextAssumption DEF Allocates
--------------------------------------------------------------------------------
(***************************************************************************)
(* The inductive invariant.                                                *)
(***************************************************************************)
LEMMA InitIInv == Init => IInv
<1> SUFFICES ASSUME Init PROVE IInv
  OBVIOUS
<1>1. TypeOK
  BY DEF Init, TypeOK, Text
<1>2. CallInv
  BY DEF Init, CallInv, GuardError
<1>3. QED
  BY <1>1, <1>2 DEF IInv

LEMMA NextIInv == IInv /\ [Next]_vars => IInv'
<1> SUFFICES ASSUME IInv, [Next]_vars PROVE IInv'
  OBVIOUS
<1> USE DEF IInv, TypeOK, CallInv, GuardError, Slot
<1>1. ASSUME NEW t \in Thread, Enter(t) PROVE IInv'
  BY <1>1 DEF Enter, Text
<1>2. ASSUME NEW t \in Thread, BodyReturns(t) PROVE IInv'
  BY <1>2 DEF BodyReturns
<1>3. ASSUME NEW t \in Thread, BodyThrows(t) PROVE IInv'
  BY <1>3 DEF BodyThrows
<1>4. ASSUME NEW t \in Thread, Catch(t) PROVE IInv'
  <2>1. /\ HandlerStatus(exn[t]) \in GuardError
        /\ HandlerText(exn[t]) \in Text
    BY <1>4, HandlerTypes DEF Catch
  <2>2. TypeOK'
    BY <1>4, <2>1 DEF Catch
  <2>3. CallInv'
    BY <1>4, <2>1 DEF Catch
  <2>4. QED
    BY <2>2, <2>3
<1>5. ASSUME NEW t \in Thread, SetErrorThrows(t) PROVE IInv'
  BY <1>5 DEF SetErrorThrows
<1>6. ASSUME NEW t \in Thread, NotAvailable(t) PROVE IInv'
  BY <1>6 DEF NotAvailable
<1>7. ASSUME NEW t \in Thread, ClearError(t) PROVE IInv'
  BY <1>7 DEF ClearError, Text
<1>8. ASSUME NEW t \in Thread, Accept(t) PROVE IInv'
  BY <1>8 DEF Accept
<1>9. ASSUME NEW t \in Thread, GetLastError(t) PROVE IInv'
  BY <1>9 DEF GetLastError
<1>10. ASSUME NEW t \in Thread, CopyMessage(t) PROVE IInv'
  BY <1>10 DEF CopyMessage
<1>11. ASSUME NEW t \in Thread, Handled(t) PROVE IInv'
  BY <1>11 DEF Handled
<1>12. CASE UNCHANGED vars
  BY <1>12 DEF vars
<1>13. QED
  BY <1>1, <1>2, <1>3, <1>4, <1>5, <1>6, <1>7, <1>8, <1>9, <1>10, <1>11, <1>12
  DEF Next

LEMMA SpecIInv == Spec => []IInv
<1>1. QED
  BY InitIInv, NextIInv, PTL DEF Spec
--------------------------------------------------------------------------------
(***************************************************************************)
(* The properties of the bridge, for any number of threads.                *)
(***************************************************************************)

\* Type correctness of the bridge.
THEOREM TypeCorrect == Spec => []TypeOK
<1>1. IInv => TypeOK
  BY DEF IInv
<1>2. QED
  BY <1>1, SpecIInv, PTL

\* The last error of a thread is the text of its latest guarded call, or empty.
THEOREM LastErrorCorrect == Spec => []LastErrorDescribesCall
<1>1. IInv => LastErrorDescribesCall
  BY DEF IInv, CallInv, LastErrorDescribesCall
<1>2. QED
  BY <1>1, SpecIInv, PTL

\* What a client is shown is the text of the exception of its own call.
THEOREM ReportCorrect == Spec => []ReportIsOwn
<1>1. IInv => ReportIsOwn
  BY DEF IInv, CallInv, ReportIsOwn
<1>2. QED
  BY <1>1, SpecIInv, PTL

\* An out-of-memory error is never the one that ends the process.
THEOREM OutOfMemorySurvivable == Spec => []OutOfMemoryIsReported
<1>1. IInv => OutOfMemoryIsReported
  BY HandlerTypes DEF IInv, CallInv, OutOfMemoryIsReported
<1>2. QED
  BY <1>1, SpecIInv, PTL

\* An exception object is none of the values that stand for no exception.
LEMMA ExceptionIsOne == NoException \notin Exception
BY DEF NoException, Exception, Kind

\* Every text a client is shown is that of its own failed call, unless the call was
\* refused by a build without plugins, which does not clear the text of an earlier
\* call.  (The finding MessageIsOfLastError has no second cause.)
THEOREM OnlyRefusalsMislead ==
  Spec => [](\A t \in Thread :
               pc[t] = "reported" =>
                 \/ exn[t] \in Exception /\ report[t] = HandlerText(exn[t])
                 \/ status[t] = "NOT_AVAILABLE" /\ ~HasPlugins)
<1>1. IInv => \A t \in Thread :
                pc[t] = "reported" =>
                  \/ exn[t] \in Exception /\ report[t] = HandlerText(exn[t])
                  \/ status[t] = "NOT_AVAILABLE" /\ ~HasPlugins
  <2> SUFFICES ASSUME IInv, NEW t \in Thread, pc[t] = "reported"
               PROVE  \/ exn[t] \in Exception /\ report[t] = HandlerText(exn[t])
                      \/ status[t] = "NOT_AVAILABLE" /\ ~HasPlugins
    OBVIOUS
  <2>1. status[t] \in GuardError \cup {"NOT_AVAILABLE"}
    BY DEF IInv, TypeOK, CallInv, GuardError
  <2>2. QED
    BY <2>1 DEF IInv, CallInv
<1>2. QED
  BY <1>1, SpecIInv, PTL

\* So a build with plugins keeps what optics_toolkits.h says of optics_last_error.
THEOREM PluginsKeepThePromise == HasPlugins => (Spec => []MessageIsOfLastError)
<1> SUFFICES ASSUME HasPlugins PROVE Spec => []MessageIsOfLastError
  OBVIOUS
<1>1. ASSUME IInv, NEW t \in Thread, pc[t] = "reported"
      PROVE  exn[t] # NoException
  <2>1. status[t] \in GuardError
    BY <1>1 DEF IInv, TypeOK, CallInv, GuardError
  <2>2. QED
    BY <1>1, <2>1, ExceptionIsOne DEF IInv, CallInv
<1>2. IInv => MessageIsOfLastError
  BY <1>1 DEF MessageIsOfLastError
<1>3. QED
  BY <1>2, SpecIInv, PTL
--------------------------------------------------------------------------------
(***************************************************************************)
(* The refinement: one register per thread.                                *)
(***************************************************************************)
\* The mapped outcome of a thread, field by field.
LEMMA OutcomeAt ==
  ASSUME NEW t \in Thread
  PROVE  Outcome[t] = [cause  |-> IF status[t] = "PENDING" THEN "none" ELSE exn[t].kind,
                       status |-> status[t], text |-> lastError[t]]
BY DEF Outcome

\* A step that changes nothing but what belongs to t changes only t's outcome.
LEMMA OutcomeExcept ==
  ASSUME IInv, NEW t \in Thread, NEW o, Outcome'[t] = o,
         \A u \in Thread \ {t} : /\ exn'[u] = exn[u]
                                 /\ status'[u] = status[u]
                                 /\ lastError'[u] = lastError[u]
  PROVE  Outcome' = [Outcome EXCEPT ![t] = o]
<1>1. \A u \in Thread \ {t} : Outcome'[u] = Outcome[u]
  BY DEF Outcome
<1>2. \A u \in Thread : Outcome'[u] = [Outcome EXCEPT ![t] = o][u]
  BY <1>1 DEF Outcome
<1>3. QED
  BY <1>2 DEF Outcome

\* While the process runs, a step that aborts no thread leaves it running.
LEMMA NoCrash ==
  ASSUME IInv, NEW t \in Thread, NEW p, p # "aborted",
         pc' = [pc EXCEPT ![t] = p]
  PROVE  Running => ~Crashed /\ Crashed' = Crashed
BY DEF Running, Crashed, IInv, TypeOK

LEMMA RegisterInit == Init => Register!Init
<1> SUFFICES ASSUME Init PROVE Register!Init
  OBVIOUS
<1>1. \A t \in Thread : Outcome[t] = Register!Success
  BY DEF Init, Outcome, Register!Success, NoException
<1>2. Outcome = [t \in Thread |-> Register!Success]
  BY <1>1 DEF Outcome
<1>3. Crashed = FALSE
  BY DEF Init, Crashed
<1>4. QED
  BY <1>2, <1>3 DEF Init, Register!Init

LEMMA RegisterStep == IInv /\ [Next]_vars => [Register!Next]_(Register!vars)
<1> SUFFICES ASSUME IInv, [Next]_vars PROVE [Register!Next]_(Register!vars)
  OBVIOUS
<1> DEFINE Silent == Outcome' = Outcome /\ report' = report /\ Crashed' = Crashed
<1>a. ASSUME Silent PROVE [Register!Next]_(Register!vars)
  BY <1>a DEF Register!vars
<1>b. ASSUME Running PROVE ~Crashed
  BY <1>b DEF Running, Crashed
<1>c. ASSUME UNCHANGED <<exn, lastError, status>> PROVE Outcome' = Outcome
  BY <1>c DEF Outcome
<1>1. ASSUME Running, NEW t \in Thread, Enter(t) PROVE Register!Next
  <2>1. /\ Outcome'[t] = Register!Void
        /\ Outcome[t].status # "PENDING"
    BY <1>1, OutcomeAt DEF Enter, Slot, Outcome, Register!Void, IInv, TypeOK, CallInv
  <2>2. Outcome' = [Outcome EXCEPT ![t] = Register!Void]
    BY <1>1, <2>1, OutcomeExcept DEF Enter, Slot, IInv, TypeOK
  <2>3. ~Crashed /\ Crashed' = Crashed
    BY <1>1, NoCrash DEF Enter
  <2>4. Register!Begin(t)
    BY <1>1, <2>1, <2>2, <2>3 DEF Enter, Register!Begin
  <2>5. QED
    BY <2>3, <2>4 DEF Register!Next
<1>2. ASSUME Running, NEW t \in Thread, BodyReturns(t) PROVE Register!Next
  <2>1. /\ Outcome'[t] = Register!Success
        /\ Outcome[t].status = "PENDING"
    <3>1. exn[t] = NoException /\ lastError[t] = "" /\ status[t] = "PENDING"
      BY <1>2 DEF BodyReturns, IInv, CallInv
    <3>2. exn[t].kind = "none"
      <4>1. NoException.kind = "none"
        BY DEF NoException
      <4>2. QED
        BY <3>1, <4>1
    <3>3. exn' = exn /\ lastError' = lastError /\ status'[t] = "OK"
      BY <1>2 DEF BodyReturns, IInv, TypeOK
    <3>4. QED
      BY <3>1, <3>2, <3>3 DEF Outcome, Register!Success
  <2>2. Outcome' = [Outcome EXCEPT ![t] = Register!Success]
    BY <1>2, <2>1, OutcomeExcept DEF BodyReturns, IInv, TypeOK
  <2>3. ~Crashed /\ Crashed' = Crashed
    BY <1>2, NoCrash DEF BodyReturns
  <2>4. Register!Finish(t)
    BY <1>2, <2>1, <2>2, <2>3 DEF BodyReturns, Register!Finish
  <2>5. QED
    BY <2>3, <2>4 DEF Register!Next
<1>3. ASSUME Running, NEW t \in Thread, BodyThrows(t) PROVE Silent
  <2>1. status[t] = "PENDING" /\ UNCHANGED <<lastError, status, report>>
    BY <1>3 DEF BodyThrows, IInv, CallInv
  <2>2. \A u \in Thread \ {t} : exn'[u] = exn[u]
    BY <1>3 DEF BodyThrows, IInv, TypeOK
  <2>3. Outcome' = Outcome
    BY <2>1, <2>2 DEF Outcome
  <2>4. Crashed' = Crashed
    BY <1>3, NoCrash DEF BodyThrows
  <2>5. QED
    BY <2>1, <2>3, <2>4
<1>4. ASSUME Running, NEW t \in Thread, Catch(t) PROVE Register!Next
  <2> DEFINE o == [cause |-> exn[t].kind, status |-> HandlerStatus(exn[t]),
                   text |-> HandlerText(exn[t])]
  <2>1. o \in Register!Failure /\ HandlerStatus(exn[t]) # "PENDING"
    BY <1>4, HandlerByKind, HandlerTypes DEF Catch, IInv, CallInv, GuardError
  <2>2. Outcome[t].status = "PENDING"
    BY <1>4 DEF Catch, Outcome, IInv, CallInv
  <2>3. Outcome'[t] = o
    BY <1>4, <2>1 DEF Catch, Slot, Outcome, IInv, TypeOK
  <2>4. Outcome' = [Outcome EXCEPT ![t] = o]
    BY <1>4, <2>3, OutcomeExcept DEF Catch, Slot, IInv, TypeOK
  <2>5. ~Crashed /\ Crashed' = Crashed
    BY <1>4, NoCrash DEF Catch
  <2>6. Register!Finish(t)
    BY <1>4, <2>1, <2>2, <2>4, <2>5 DEF Catch, Register!Finish
  <2>7. QED
    BY <2>5, <2>6 DEF Register!Next
<1>5. ASSUME Running, NEW t \in Thread, SetErrorThrows(t) PROVE Register!Next
  <2>1. Outcome[t].status = "PENDING" /\ Outcome' = Outcome
    BY <1>5, <1>c DEF SetErrorThrows, Outcome, IInv, CallInv
  <2>2. Crashed'
    BY <1>5 DEF SetErrorThrows, Crashed, IInv, TypeOK
  <2>3. Register!Crash(t)
    BY <1>5, <2>1, <2>2 DEF SetErrorThrows, Register!Crash
  <2>4. QED
    BY <1>5, <1>b, <2>3 DEF Register!Next
<1>6. ASSUME Running, NEW t \in Thread, NotAvailable(t) PROVE Register!Next
  <2> DEFINE o == [cause |-> "none", status |-> "NOT_AVAILABLE", text |-> Outcome[t].text]
  <2>1. /\ Outcome'[t] = o
        /\ Outcome[t].status # "PENDING"
    BY <1>6 DEF NotAvailable, Outcome, NoException, IInv, TypeOK, CallInv
  <2>2. Outcome' = [Outcome EXCEPT ![t] = o]
    BY <1>6, <2>1, OutcomeExcept DEF NotAvailable, IInv, TypeOK
  <2>3. ~Crashed /\ Crashed' = Crashed
    BY <1>6, NoCrash DEF NotAvailable
  <2>4. Register!Refuse(t)
    BY <1>6, <2>1, <2>2, <2>3 DEF NotAvailable, Register!Refuse
  <2>5. QED
    BY <2>3, <2>4 DEF Register!Next
<1>7. ASSUME Running, NEW t \in Thread, ClearError(t) PROVE Register!Next
  <2> DEFINE o == [cause |-> Outcome[t].cause, status |-> Outcome[t].status, text |-> ""]
  <2>1. /\ Outcome'[t] = o
        /\ Outcome[t].status # "PENDING"
    BY <1>7 DEF ClearError, Slot, Outcome, IInv, TypeOK, CallInv
  <2>2. Outcome' = [Outcome EXCEPT ![t] = o]
    BY <1>7, <2>1, OutcomeExcept DEF ClearError, Slot, IInv, TypeOK
  <2>3. Crashed' = Crashed
    BY <1>7 DEF ClearError, Crashed
  <2>4. Register!Forget(t)
    BY <1>7, <2>1, <2>2, <2>3 DEF ClearError, Register!Forget
  <2>5. QED
    BY <1>7, <1>b, <2>4 DEF Register!Next
<1>8. ASSUME Running, NEW t \in Thread, Accept(t) PROVE Silent
  BY <1>8, <1>c, NoCrash DEF Accept
<1>9. ASSUME Running, NEW t \in Thread, GetLastError(t) PROVE Silent
  BY <1>9, <1>c, NoCrash DEF GetLastError
<1>10. ASSUME Running, NEW t \in Thread, CopyMessage(t) PROVE Register!Next
  <2>1. Outcome[t].status \notin {"PENDING", "OK"} /\ Outcome[t].text = lastError[t]
    BY <1>10 DEF CopyMessage, Outcome, IInv, CallInv
  <2>2. Outcome' = Outcome
    BY <1>10, <1>c DEF CopyMessage
  <2>3. ~Crashed /\ Crashed' = Crashed
    BY <1>10, NoCrash DEF CopyMessage
  <2>4. Register!Deliver(t)
    BY <1>10, <2>1, <2>2, <2>3 DEF CopyMessage, Slot, Register!Deliver
  <2>5. QED
    BY <2>3, <2>4 DEF Register!Next
<1>11. ASSUME Running, NEW t \in Thread, Handled(t) PROVE Silent
  BY <1>11, <1>c, NoCrash DEF Handled
<1>12. ASSUME UNCHANGED vars PROVE Silent
  BY <1>12 DEF vars, Outcome, Crashed
<1>13. QED
  BY <1>a, <1>1, <1>2, <1>3, <1>4, <1>5, <1>6, <1>7, <1>8, <1>9, <1>10, <1>11, <1>12
  DEF Next

\* The interleaved steps of the bridge implement one atomic outcome register
\* per thread.
THEOREM Refinement == Spec => ImplementsRegister
<1>1. QED
  BY RegisterInit, RegisterStep, SpecIInv, PTL
  DEF Spec, ImplementsRegister, Register!Spec
================================================================================
