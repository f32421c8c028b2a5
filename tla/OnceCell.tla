-------------------------------- MODULE OnceCell --------------------------------
(***************************************************************************)
(* What the initialisation of the plotting engine promises, abstractly: a  *)
(* cell that callers ask to hold their value.  The first request that      *)
(* succeeds fills the cell; every later one succeeds too, with the value   *)
(* that is there.  A request may fail only while the cell is empty.        *)
(* VizEngine implements this module.                                       *)
(***************************************************************************)
EXTENDS Sequences

CONSTANTS Caller,   \* the threads that ask
          Value     \* what they ask for

VARIABLES cell,     \* <<>>, or the one value
          state,    \* of each caller: "idle", "asking" or "served"
          request   \* the value each caller last asked for

vars == <<cell, state, request>>

Init == /\ cell = <<>>
        /\ state = [c \in Caller |-> "idle"]
        /\ request \in [Caller -> Value]

Ask(c) == /\ state[c] = "idle"
          /\ state' = [state EXCEPT ![c] = "asking"]
          /\ \E v \in Value : request' = [request EXCEPT ![c] = v]
          /\ UNCHANGED cell

Fill(c) == /\ state[c] = "asking" /\ cell = <<>>
           /\ cell' = <<request[c]>>
           /\ state' = [state EXCEPT ![c] = "served"]
           /\ UNCHANGED request

Agree(c) == /\ state[c] = "asking" /\ cell # <<>>
            /\ state' = [state EXCEPT ![c] = "served"]
            /\ UNCHANGED <<cell, request>>

Fail(c) == /\ state[c] = "asking" /\ cell = <<>>
           /\ state' = [state EXCEPT ![c] = "idle"]
           /\ UNCHANGED <<cell, request>>

Leave(c) == /\ state[c] = "served"
            /\ state' = [state EXCEPT ![c] = "idle"]
            /\ UNCHANGED <<cell, request>>

Next == \E c \in Caller : Ask(c) \/ Fill(c) \/ Agree(c) \/ Fail(c) \/ Leave(c)

Spec == Init /\ [][Next]_vars
================================================================================
