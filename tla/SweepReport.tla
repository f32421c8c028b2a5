------------------------------- MODULE SweepReport -------------------------------
(***************************************************************************)
(* What a reader of the results may rely on, whichever of the twenty       *)
(* example programs wrote them, abstractly: a sweep that goes through its  *)
(* samples in order, settles the rows of each once and for all, and        *)
(* delivers its results when the sweep is over.  A row may be wrong only   *)
(* where a call failed, in its own sample or before the sweep; a strict    *)
(* program stops at its first failed call; nothing stops but for a call    *)
(* that failed in the same sample or before the sweep; and a program that  *)
(* ends has delivered everything, unless delivering failed.  ExampleSweep  *)
(* implements this module.                                                 *)
(***************************************************************************)
EXTENDS Naturals

CONSTANTS Samples,   \* the rows of the results
          Orders     \* what a program may be there to deliver: sets of results

VARIABLES strict,    \* the program ends at its first failed call
          due,       \* the results it has to deliver
          state,     \* "running", "done" or "stopped"
          at,        \* the sample: 0 before the sweep, more than Samples after it
          faulty,    \* the samples in which a call failed
          own,       \* the samples passed whose rows are their own
          out        \* the results delivered

vars == <<strict, due, state, at, faulty, own, out>>

Init == /\ strict \in BOOLEAN /\ due \in Orders
        /\ state = "running" /\ at = 0
        /\ faulty = {} /\ own = {} /\ out = {}

\* A call fails, and nobody looks.
Overlook == /\ state = "running" /\ ~strict
            /\ faulty' = faulty \cup {at}
            /\ UNCHANGED <<strict, due, state, at, own, out>>

\* A call fails, or one did earlier in this sample or before the sweep, and the
\* program ends.
Stop == /\ state = "running"
        /\ faulty' \in {faulty, faulty \cup {at}} /\ faulty' \cap {0, at} # {}
        /\ state' = "stopped"
        /\ UNCHANGED <<strict, due, at, own, out>>

\* The sample is over: its rows are its own, or a failed call excuses them.
Excused == faulty \cap {0, at} # {}
Pass == /\ state = "running" /\ at <= Samples
        /\ at' = at + 1
        /\ \/ at > 0 /\ own' = own \cup {at}
           \/ (at = 0 \/ Excused) /\ UNCHANGED own
        /\ UNCHANGED <<strict, due, state, faulty, out>>

Deliver == /\ state = "running" /\ at > Samples
           /\ \E r \in due \ out : out' = out \cup {r}
           /\ UNCHANGED <<strict, due, state, at, faulty, own>>

\* A result may be missing at the end only if a call that delivers failed.
Finish == /\ state = "running" /\ at > Samples
          /\ out = due \/ at \in faulty
          /\ state' = "done" /\ at' = at + 1
          /\ UNCHANGED <<strict, due, faulty, own, out>>

\* Another program in the same session.
Restart == /\ state # "running" /\ strict
           /\ due' \in Orders /\ state' = "running" /\ at' = 0
           /\ faulty' = {} /\ own' = {} /\ out' = {}
           /\ UNCHANGED strict

Next == Overlook \/ Stop \/ Pass \/ Deliver \/ Finish \/ Restart

Spec == Init /\ [][Next]_vars
================================================================================
