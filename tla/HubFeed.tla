------------------------------ MODULE HubFeed -------------------------------
(***************************************************************************)
(* What syz-hub promises its managers about programs, with no numbers, seq *)
(* files, cut replies or lost calls: the hub keeps what some manager has,  *)
(* and owes each manager the programs that it has not come by yet.  A      *)
(* manager that comes by a program it can execute has it or is sent it,    *)
(* unless there are so many that the hub gives some of them up             *)
(* (state.go:284-290).                                                     *)
(***************************************************************************)
EXTENDS FiniteSets

CONSTANTS Managers, Progs, Supports

VARIABLES
    pool,       \* the hub's programs
    has,        \* what the hub takes each manager's corpus to be
    owed,       \* the programs of the pool that each manager has yet to come by
    seen        \* what each manager once had, was sent or was denied

vars == <<pool, has, owed, seen>>

Init ==
    /\ pool = {}
    /\ has = [m \in Managers |-> {}]
    /\ owed = [m \in Managers |-> {}]
    /\ seen = [m \in Managers |-> {}]

\* The pool when more programs come in: what no manager has goes.
Used(more) == {p \in pool \cup more : \E m \in Managers : p \in has'[m]}

\* Programs new to the pool are owed to everybody.
Owed(m) == {p \in pool' : p \in owed[m] \/ p \notin pool}

\* A manager tells its whole corpus; one that starts without any starts over.
Connect(m, H, over) ==
    /\ has' = [has EXCEPT ![m] = H]
    /\ pool' = Used(H)
    /\ owed' = [n \in Managers |-> IF over /\ n = m THEN pool' ELSE Owed(n)]
    /\ seen' = [seen EXCEPT ![m] = H \cup (IF over THEN {} ELSE @)]

\* A manager tells what has changed in its corpus and comes by some programs.
Sync(m, H, passed) ==
    /\ has' = [has EXCEPT ![m] = H]
    /\ pool' = Used(H)
    /\ passed \subseteq Owed(m)
    /\ owed' = [n \in Managers |-> IF n = m THEN Owed(n) \ passed ELSE Owed(n)]
    /\ seen' = [seen EXCEPT ![m] = @ \cup H \cup (passed \cap Supports[m])]

\* The hub starts again, and has another corpus on file for a manager whose call
\* it did not get through with.
Restart ==
    /\ \/ UNCHANGED has
       \/ \E m \in Managers, S \in SUBSET Progs : has' = [has EXCEPT ![m] = S]
    /\ pool' = Used({})
    /\ owed' = [m \in Managers |-> Owed(m)]
    /\ UNCHANGED seen

Next ==
    \/ \E m \in Managers, H \in SUBSET Progs :
          \/ \E over \in BOOLEAN : Connect(m, H, over)
          \/ \E passed \in SUBSET Progs : Sync(m, H, passed)
    \/ Restart

Spec == Init /\ [][Next]_vars
=============================================================================
