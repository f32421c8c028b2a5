--------------------------- MODULE LastErrorRegister ---------------------------
(***************************************************************************)
(* What the C ABI promises about optics_last_error(), abstractly: every    *)
(* thread owns a register holding the outcome of its latest guarded call.  *)
(* The register is void while the call runs, is filled in one step when    *)
(* the call ends, and is what a client of the same thread is shown.  How   *)
(* the exceptions become outcomes, and how the text reaches the client, is *)
(* ErrorBridge, which implements this module.                              *)
(***************************************************************************)
CONSTANTS Thread,   \* the threads that call the library
          What      \* the texts e.what() may return

VARIABLES outcome,  \* [Thread -> [cause, status, text]]
          report,   \* the text the client of each thread was last shown
          crashed   \* the process is gone

vars == <<outcome, report, crashed>>

Void    == [cause |-> "none", status |-> "PENDING", text |-> ""]
Success == [cause |-> "none", status |-> "OK", text |-> ""]

\* The outcomes a failed guarded call may have, by the class of its exception.
Failure ==
  [cause : {"invalid_argument"}, status : {"INVALID_ARG"}, text : What]
    \cup [cause : {"bad_alloc"}, status : {"OUT_OF_MEMORY"}, text : {"out of memory"}]
    \cup [cause : {"exception"}, status : {"INTERNAL"}, text : What]
    \cup [cause : {"foreign"}, status : {"INTERNAL"}, text : {"unknown error"}]

Init == /\ outcome = [t \in Thread |-> Success]
        /\ report = [t \in Thread |-> ""]
        /\ crashed = FALSE

Begin(t) == /\ outcome[t].status # "PENDING"
            /\ outcome' = [outcome EXCEPT ![t] = Void]
            /\ UNCHANGED <<report, crashed>>

Finish(t) == /\ outcome[t].status = "PENDING"
             /\ \E o \in Failure \cup {Success} : outcome' = [outcome EXCEPT ![t] = o]
             /\ UNCHANGED <<report, crashed>>

\* A function the build leaves out answers at once and describes nothing.
Refuse(t) == /\ outcome[t].status # "PENDING"
             /\ outcome' = [outcome EXCEPT ![t] = [cause  |-> "none",
                                                   status |-> "NOT_AVAILABLE",
                                                   text   |-> outcome[t].text]]
             /\ UNCHANGED <<report, crashed>>

Forget(t) == /\ outcome[t].status # "PENDING"
             /\ outcome' = [outcome EXCEPT ![t] = [cause  |-> outcome[t].cause,
                                                   status |-> outcome[t].status,
                                                   text   |-> ""]]
             /\ UNCHANGED <<report, crashed>>

Deliver(t) == /\ outcome[t].status \notin {"PENDING", "OK"}
              /\ report' = [report EXCEPT ![t] = outcome[t].text]
              /\ UNCHANGED <<outcome, crashed>>

\* The error text could not be stored: the exception leaves the C ABI.
Crash(t) == /\ outcome[t].status = "PENDING"
            /\ crashed' = TRUE
            /\ UNCHANGED <<outcome, report>>

Next == /\ ~crashed
        /\ \E t \in Thread : \/ Begin(t) \/ Finish(t) \/ Refuse(t)
                             \/ Forget(t) \/ Deliver(t) \/ Crash(t)

Spec == Init /\ [][Next]_vars
================================================================================
