----------------------------- MODULE GateWindow -----------------------------
(***************************************************************************)
(* What pkg/ipc/gate.go promises its users, with no slot, counter or       *)
(* condition variable: a sliding window of C executions and a callback     *)
(* that runs alone, less than two windows apart (gate.go:10-12, 22).       *)
(***************************************************************************)
EXTENDS Naturals

CONSTANTS Procs, C

VARIABLES
    hasF,       \* there is a callback
    inside,     \* the executions admitted and not finished
    lag,        \* how many were admitted after each of them
    calling,    \* the callback is running
    since       \* executions admitted since the callback last ran

vars == <<hasF, inside, lag, calling, since>>

Init ==
    /\ hasF \in BOOLEAN
    /\ inside = {}
    /\ lag = [p \in Procs |-> 0]
    /\ calling = FALSE
    /\ since = 0

Admit(p) ==
    /\ ~calling /\ p \notin inside
    /\ \A q \in inside : lag[q] + 1 < C
    /\ hasF => since + 1 < 2 * C
    /\ inside' = inside \cup {p}
    /\ lag' = [q \in Procs |-> IF q \in inside THEN lag[q] + 1 ELSE 0]
    /\ since' = IF hasF THEN since + 1 ELSE 0
    /\ UNCHANGED <<hasF, calling>>

Depart(p) ==
    /\ ~calling /\ p \in inside
    /\ inside' = inside \ {p}
    /\ lag' = [lag EXCEPT ![p] = 0]
    /\ UNCHANGED <<hasF, calling, since>>

\* The last execution out may start the callback in the same step.
BeginCall ==
    /\ hasF /\ ~calling /\ since > 0
    /\ \/ inside = {} /\ UNCHANGED <<inside, lag>>
       \/ \E p \in inside : /\ inside = {p}
                            /\ inside' = {}
                            /\ lag' = [lag EXCEPT ![p] = 0]
    /\ calling' = TRUE
    /\ UNCHANGED <<hasF, since>>

EndCall ==
    /\ calling
    /\ calling' = FALSE
    /\ since' = 0
    /\ UNCHANGED <<hasF, inside, lag>>

Next ==
    \/ \E p \in Procs : Admit(p) \/ Depart(p)
    \/ BeginCall
    \/ EndCall

Spec == Init /\ [][Next]_vars
=============================================================================
