------------------------------ MODULE ErrorBridge ------------------------------
(***************************************************************************)
(* The exception bridge of the C ABI (src/c/internal/exception_bridge.hpp) *)
(* and the clients that turn its status codes back into errors.            *)
(*                                                                         *)
(* Every guarded entry point runs as: clear g_last_error; run the body; on *)
(* an exception, the first matching catch clause stores a text with        *)
(* set_error and picks the status.  The client looks at the status, and    *)
(* only then makes a second call, optics_last_error, and copies the text   *)
(* behind the pointer it gets.  Between any two of these steps the other   *)
(* threads run.  g_last_error is thread_local.                             *)
(*                                                                         *)
(* set_error takes a std::string by value: a text that does not fit the    *)
(* string's in-place buffer is allocated while the handler runs, and the   *)
(* allocation may throw out of the handler, out of guard and through the C *)
(* ABI, which ends the process.                                            *)
(***************************************************************************)
EXTENDS Naturals

CONSTANTS Thread,      \* threads calling the library
          ShortWhat,   \* e.what() texts that fit the in-place string buffer
          LongWhat,    \* e.what() texts that have to be allocated
          HasPlugins   \* OPTICS_HAS_PYTHON_CORE_PLUGINS

What == ShortWhat \cup LongWhat

\* No exception has an empty message, and the two texts guard supplies itself
\* fit the in-place buffer (13 characters; the buffer takes 15 or 22).
ASSUME TextAssumption == /\ "" \notin What
                         /\ "out of memory" \notin LongWhat
                         /\ "unknown error" \notin LongWhat
ASSUME PluginsAssumption == HasPlugins \in BOOLEAN

VARIABLES pc,         \* where each thread is in the call protocol
          exn,        \* the exception the thread's current or latest call threw
          lastError,  \* g_last_error of each thread
          status,     \* the status the latest call returned ("PENDING" inside one)
          report      \* the text the client of the thread last copied

vars == <<pc, exn, lastError, status, report>>

Text == What \cup {"", "out of memory", "unknown error"}

\* Mutant: g_last_error declared without thread_local.
SlotShared(t) == CHOOSE u \in Thread : TRUE

\* The thread whose g_last_error an access by thread t reaches.
Slot(t) == t

(***************************************************************************)
(* The exceptions and the catch clauses of guard.                          *)
(***************************************************************************)
Kind == {"invalid_argument", "bad_alloc", "exception", "foreign"}
Exception == [kind : Kind, what : What]
NoException == [kind |-> "none", what |-> ""]

\* The classes of an exception object that a catch clause can name.
Classes == [k \in Kind |-> IF k = "foreign" THEN {} ELSE {k, "exception"}]

\* Mutant: the general clause written before the special ones.
ClausesGeneralFirst == <<"exception", "invalid_argument", "bad_alloc", "...">>

\* The catch clauses, in the order guard tries them.
Clauses == <<"invalid_argument", "bad_alloc", "exception", "...">>

Matches(i, e) == Clauses[i] = "..." \/ Clauses[i] \in Classes[e.kind]

\* The clause that handles e: the first that matches.
Handler(e) == Clauses[CHOOSE i \in 1..4 : /\ Matches(i, e)
                                          /\ \A j \in 1..4 : Matches(j, e) => i <= j]

HandlerStatus(e) == CASE Handler(e) = "invalid_argument" -> "INVALID_ARG"
                      [] Handler(e) = "bad_alloc"        -> "OUT_OF_MEMORY"
                      [] OTHER                           -> "INTERNAL"

\* Mutant: the clause for foreign exceptions has no text of its own.
HandlerTextUnset(e) == CASE Handler(e) = "bad_alloc" -> "out of memory"
                         [] Handler(e) = "..."       -> "uninitialized"
                         [] OTHER                    -> e.what

HandlerText(e) == CASE Handler(e) = "bad_alloc" -> "out of memory"
                    [] Handler(e) = "..."       -> "unknown error"
                    [] OTHER                    -> e.what

\* Mutant: every text is composed on the heap.
AllocatesAlways(text) == TRUE

\* Building the std::string argument of set_error allocates.
Allocates(text) == text \in LongWhat

(***************************************************************************)
(* The library's side of a call.                                           *)
(***************************************************************************)
Running == \A t \in Thread : pc[t] # "aborted"

\* Mutant: guard does not clear g_last_error before the body.
EnterKeepsText(t) ==
  /\ pc[t] = "idle"
  /\ pc' = [pc EXCEPT ![t] = "body"]
  /\ status' = [status EXCEPT ![t] = "PENDING"]
  /\ exn' = [exn EXCEPT ![t] = NoException]
  /\ UNCHANGED <<lastError, report>>

Enter(t) ==
  /\ pc[t] = "idle"
  /\ pc' = [pc EXCEPT ![t] = "body"]
  /\ lastError' = [lastError EXCEPT ![Slot(t)] = ""]
  /\ status' = [status EXCEPT ![t] = "PENDING"]
  /\ exn' = [exn EXCEPT ![t] = NoException]
  /\ UNCHANGED report

BodyReturns(t) ==
  /\ pc[t] = "body"
  /\ pc' = [pc EXCEPT ![t] = "returned"]
  /\ status' = [status EXCEPT ![t] = "OK"]
  /\ UNCHANGED <<exn, lastError, report>>

BodyThrows(t) ==
  /\ pc[t] = "body"
  /\ \E e \in Exception : exn' = [exn EXCEPT ![t] = e]
  /\ pc' = [pc EXCEPT ![t] = "thrown"]
  /\ UNCHANGED <<lastError, status, report>>

Catch(t) ==
  /\ pc[t] = "thrown"
  /\ lastError' = [lastError EXCEPT ![Slot(t)] = HandlerText(exn[t])]
  /\ status' = [status EXCEPT ![t] = HandlerStatus(exn[t])]
  /\ pc' = [pc EXCEPT ![t] = "returned"]
  /\ UNCHANGED <<exn, report>>

\* bad_alloc while the handler builds the text: nothing above guard catches it.
SetErrorThrows(t) ==
  /\ pc[t] = "thrown"
  /\ Allocates(HandlerText(exn[t]))
  /\ pc' = [pc EXCEPT ![t] = "aborted"]
  /\ UNCHANGED <<exn, lastError, status, report>>

\* optics_py_init and the optics_viz functions of a build without plugins.
NotAvailable(t) ==
  /\ ~HasPlugins
  /\ pc[t] = "idle"
  /\ pc' = [pc EXCEPT ![t] = "returned"]
  /\ status' = [status EXCEPT ![t] = "NOT_AVAILABLE"]
  /\ exn' = [exn EXCEPT ![t] = NoException]
  /\ UNCHANGED <<lastError, report>>

ClearError(t) ==
  /\ pc[t] = "idle"
  /\ lastError' = [lastError EXCEPT ![Slot(t)] = ""]
  /\ UNCHANGED <<pc, exn, status, report>>

(***************************************************************************)
(* The client's side: NativeMethods.Check and fail_status, and Fortran     *)
(* programs that call optics_last_error_message themselves (optics_check   *)
(* ends the program first, see FortranStack).                              *)
(***************************************************************************)
\* The status is OK, or the client (the C examples) does not look at it.
Accept(t) ==
  /\ pc[t] = "returned"
  /\ pc' = [pc EXCEPT ![t] = "idle"]
  /\ UNCHANGED <<exn, lastError, status, report>>

\* optics_last_error() returns a pointer into g_last_error.
GetLastError(t) ==
  /\ pc[t] = "returned"
  /\ status[t] # "OK"
  /\ pc' = [pc EXCEPT ![t] = "reading"]
  /\ UNCHANGED <<exn, lastError, status, report>>

\* PtrToStringUTF8, c_f_string or "%s" copies what the pointer shows by now.
CopyMessage(t) ==
  /\ pc[t] = "reading"
  /\ report' = [report EXCEPT ![t] = lastError[Slot(t)]]
  /\ pc' = [pc EXCEPT ![t] = "reported"]
  /\ UNCHANGED <<exn, lastError, status>>

\* The client handled the error and goes on.
Handled(t) ==
  /\ pc[t] = "reported"
  /\ pc' = [pc EXCEPT ![t] = "idle"]
  /\ UNCHANGED <<exn, lastError, status, report>>

Init == /\ pc = [t \in Thread |-> "idle"]
        /\ exn = [t \in Thread |-> NoException]
        /\ lastError = [t \in Thread |-> ""]
        /\ status = [t \in Thread |-> "OK"]
        /\ report = [t \in Thread |-> ""]

Next == /\ Running
        /\ \E t \in Thread :
             \/ Enter(t) \/ BodyReturns(t) \/ BodyThrows(t) \/ Catch(t)
             \/ SetErrorThrows(t) \/ NotAvailable(t) \/ ClearError(t)
             \/ Accept(t) \/ GetLastError(t) \/ CopyMessage(t) \/ Handled(t)

Spec == Init /\ [][Next]_vars
--------------------------------------------------------------------------------
(***************************************************************************)
(* Properties.                                                             *)
(***************************************************************************)
\* Every variable of the bridge has the shape the code gives it.
TypeOK ==
  /\ pc \in [Thread -> {"idle", "body", "thrown", "returned", "reading",
                        "reported", "aborted"}]
  /\ exn \in [Thread -> Exception \cup {NoException}]
  /\ lastError \in [Thread -> Text]
  /\ status \in [Thread -> {"PENDING", "OK", "INVALID_ARG", "OUT_OF_MEMORY",
                            "INTERNAL", "NOT_AVAILABLE"}]
  /\ report \in [Thread -> Text]

\* The statuses guard returns for a failure.
GuardError == {"INVALID_ARG", "OUT_OF_MEMORY", "INTERNAL"}

\* From the return of a guarded call until the client is done with it, the
\* thread's last error is the text of that very call, and empty after success:
\* no text of an earlier call or of another thread's call survives in it.
LastErrorDescribesCall ==
  \A t \in Thread : pc[t] \in {"returned", "reading", "reported"} =>
    /\ status[t] = "OK" => lastError[t] = ""
    /\ status[t] \in GuardError => lastError[t] = HandlerText(exn[t])

\* The text a client copies after a failed guarded call, in a second call made
\* while the other threads go on, is the text of the exception its own call threw.
ReportIsOwn ==
  \A t \in Thread :
    pc[t] = "reported" /\ status[t] \in GuardError => report[t] = HandlerText(exn[t])

\* Running out of memory in a body is always survivable: guard reports it with
\* a text that needs no memory. Only an exception whose own text is long can
\* take the process down, and it leaves no text of an earlier call behind.
OutOfMemoryIsReported ==
  \A t \in Thread : pc[t] = "aborted" =>
    /\ exn[t].kind \in {"invalid_argument", "exception"}
    /\ lastError[t] = ""

\* The inductive invariant behind the properties above: where the status is
\* pending, what the thread's exception is by then, what its text is, and which
\* builds refuse a call without clearing the text.
CallInv ==
  \A t \in Thread :
    /\ status[t] = "PENDING" <=> pc[t] \in {"body", "thrown", "aborted"}
    /\ status[t] = "PENDING" => lastError[t] = ""
    /\ pc[t] = "body" => exn[t] = NoException
    /\ pc[t] \in {"thrown", "aborted"} => exn[t] \in Exception
    /\ pc[t] = "aborted" => Allocates(HandlerText(exn[t]))
    /\ pc[t] \in {"returned", "reading", "reported"} =>
         /\ status[t] = "OK" => lastError[t] = ""
         /\ status[t] \in GuardError => lastError[t] = HandlerText(exn[t])
    /\ pc[t] \in {"reading", "reported"} => status[t] # "OK"
    /\ pc[t] = "reported" => report[t] = lastError[t]
    /\ status[t] \in GuardError => exn[t] \in Exception
    /\ status[t] = "NOT_AVAILABLE" => ~HasPlugins

IInv == TypeOK /\ CallInv

\* The library as the per-thread register of LastErrorRegister.
Outcome == [t \in Thread |-> [cause  |-> IF status[t] = "PENDING" THEN "none"
                                        ELSE exn[t].kind,
                             status |-> status[t],
                             text   |-> lastError[t]]]
Crashed == \E t \in Thread : pc[t] = "aborted"
Register == INSTANCE LastErrorRegister WITH outcome <- Outcome, crashed <- Crashed

\* The bridge, with its clear, throw, catch and copy steps interleaved between
\* threads, implements one atomic outcome register per thread.
ImplementsRegister == Register!Spec

\* optics_toolkits.h: "Human-readable message for the last error on this thread."
\* A text a client is shown describes the call that just failed on its thread.
MessageIsOfLastError ==
  \A t \in Thread :
    pc[t] = "reported" /\ report[t] # "" => exn[t] # NoException
================================================================================
