-------------------------------- MODULE Gate --------------------------------
(***************************************************************************)
(* pkg/ipc/gate.go: the gate every program execution of a fuzzer passes    *)
(* (syz-fuzzer/proc.go:768-769).  It bounds how many executions run at     *)
(* once and how far apart the oldest and the newest may be, and runs a     *)
(* callback once per lap with no execution in flight.                      *)
(*                                                                         *)
(* The mutex g.cv.L is held from one Lock or wake-up to the next Unlock or *)
(* Wait, which is one action here, except across the callback f, which     *)
(* runs with the mutex held: while some process is in "callback" no other  *)
(* process can take a locked step.  The condition variable is the set      *)
(* `asleep` of processes inside cv.Wait; Broadcast empties it.             *)
(***************************************************************************)
EXTENDS Integers, FiniteSets

CONSTANTS
    Procs,      \* the fuzzing processes that execute programs
    C           \* the concurrency window, len(g.busy)

ASSUME GateAssumption == C \in Nat \ {0}

Slots == 0 .. C - 1

VARIABLES
    hasF,       \* g.f is not nil: NewGate was given a callback
    busy,       \* g.busy
    pos,        \* g.pos
    running,    \* g.running
    stop,       \* g.stop
    asleep,     \* the processes inside g.cv.Wait
    pc,         \* where each process is
    ticket,     \* the index Enter returned to it
    broken,     \* a panic("broken gate") was reached
    lag,        \* history: executions admitted after this one was
    sinceF      \* history: executions admitted since f last ran

gateVars == <<hasF, busy, pos, running, stop, asleep, pc, ticket, broken, lag, sinceF>>

\* "idle": between executions; "enter": in Enter; "in": executing, between Enter
\* and Leave; "drain": in Leave, in the loop on running; "callback": in f.
PCs == {"idle", "enter", "in", "drain", "callback"}

TypeOK ==
    /\ hasF \in BOOLEAN
    /\ busy \in [Slots -> BOOLEAN]
    /\ pos \in Slots
    /\ running \in Int
    /\ stop \in BOOLEAN
    /\ asleep \in SUBSET Procs
    /\ pc \in [Procs -> PCs]
    /\ ticket \in [Procs -> Slots]
    /\ broken \in BOOLEAN
    /\ lag \in [Procs -> Nat]
    /\ sinceF \in Nat

GateInit ==
    /\ hasF \in BOOLEAN
    /\ busy = [i \in Slots |-> FALSE]
    /\ pos = 0
    /\ running = 0
    /\ stop = FALSE
    /\ asleep = {}
    /\ pc = [p \in Procs |-> "idle"]
    /\ ticket = [p \in Procs |-> 0]
    /\ broken = FALSE
    /\ lag = [p \in Procs |-> 0]
    /\ sinceF = 0

LockFree == \A q \in Procs : pc[q] # "callback"

\* Mutant: Enter waits for a draining callback only.
BlockedNoSlot == stop

\* Mutant: Enter waits for the head slot only.
BlockedNoStop == busy[pos]

\* The head slot is taken, or a callback is draining the gate.
Blocked == busy[pos] \/ stop

\* A process begins to execute a program.
CallEnter(p) ==
    /\ pc[p] = "idle"
    /\ pc' = [pc EXCEPT ![p] = "enter"]
    /\ UNCHANGED <<hasF, busy, pos, running, stop, asleep, ticket, broken, lag, sinceF>>

AtEnter(p) == pc[p] = "enter" /\ p \notin asleep /\ LockFree

EnterWait(p) ==
    /\ AtEnter(p)
    /\ Blocked
    /\ asleep' = asleep \cup {p}
    /\ UNCHANGED <<hasF, busy, pos, running, stop, pc, ticket, broken, lag, sinceF>>

\* Mutant: the index wraps around one slot late.
NextPosLate == IF pos >= C THEN 0 ELSE pos + 1

NextPos == IF pos + 1 >= C THEN 0 ELSE pos + 1

EnterTake(p) ==
    /\ AtEnter(p)
    /\ ~Blocked
    /\ ticket' = [ticket EXCEPT ![p] = pos]
    /\ pos' = NextPos
    /\ busy' = [busy EXCEPT ![pos] = TRUE]
    /\ running' = running + 1
    /\ broken' = (broken \/ running + 1 > C)
    /\ pc' = [pc EXCEPT ![p] = "in"]
    /\ lag' = [q \in Procs |-> IF q # p /\ pc[q] = "in" THEN lag[q] + 1 ELSE 0]
    /\ sinceF' = IF hasF THEN sinceF + 1 ELSE 0
    /\ UNCHANGED <<hasF, stop, asleep>>

\* What every Leave does before it looks at idx == 0.
Release(p) ==
    /\ busy' = [busy EXCEPT ![ticket[p]] = FALSE]
    /\ running' = running - 1
    /\ lag' = [lag EXCEPT ![p] = 0]

CallsF(p) == ticket[p] = 0 /\ hasF

\* Mutant: the broadcast forgets the process that drains the gate.
WakesEnterOnly(p) == ticket[p] = pos /\ ~stop

\* Mutant: the broadcast forgets the processes that wait for the head slot.
WakesDrainOnly(p) == running - 1 = 0 /\ stop

\* Leave broadcasts for whoever waits for this very slot, or for the drain that
\* this execution was the last to hold up.
Wakes(p) == (ticket[p] = pos /\ ~stop) \/ (running - 1 = 0 /\ stop)

\* Leave by an execution that does not run f.
LeavePlain(p) ==
    /\ pc[p] = "in" /\ LockFree
    /\ ~CallsF(p)
    /\ Release(p)
    /\ broken' = (broken \/ ~busy[ticket[p]] \/ running - 1 < 0)
    /\ asleep' = IF Wakes(p) THEN {} ELSE asleep
    /\ pc' = [pc EXCEPT ![p] = "idle"]
    /\ UNCHANGED <<hasF, pos, stop, ticket, sinceF>>

\* Mutant: f runs at once, with no wait for the executions in flight.
LeaveAndCallAtOnce(p) ==
    /\ pc[p] = "in" /\ LockFree
    /\ CallsF(p)
    /\ Release(p)
    /\ pc' = [pc EXCEPT ![p] = "callback"]
    /\ UNCHANGED <<hasF, pos, stop, asleep, ticket, broken, sinceF>>

\* Leave by the execution that holds slot 0: it stops admissions and runs f at
\* once if nothing else runs (stop is set and reset under the same lock), else
\* it sleeps until the gate has drained.
LeaveAndCall(p) ==
    /\ pc[p] = "in" /\ LockFree
    /\ CallsF(p)
    /\ Release(p)
    /\ broken' = (broken \/ ~busy[ticket[p]] \/ running - 1 < 0 \/ stop)
    /\ \/ /\ running - 1 # 0
          /\ stop' = TRUE
          /\ asleep' = asleep \cup {p}
          /\ pc' = [pc EXCEPT ![p] = "drain"]
       \/ /\ running - 1 = 0
          /\ stop' = FALSE
          /\ pc' = [pc EXCEPT ![p] = "callback"]
          /\ UNCHANGED asleep
    /\ UNCHANGED <<hasF, pos, ticket, sinceF>>

\* A woken drainer re-tests running and sleeps again or goes on to f.
DrainWake(p) ==
    /\ pc[p] = "drain" /\ p \notin asleep /\ LockFree
    /\ \/ /\ running # 0
          /\ asleep' = asleep \cup {p}
          /\ UNCHANGED <<stop, pc>>
       \/ /\ running = 0
          /\ stop' = FALSE
          /\ pc' = [pc EXCEPT ![p] = "callback"]
          /\ UNCHANGED asleep
    /\ UNCHANGED <<hasF, busy, pos, running, ticket, broken, lag, sinceF>>

\* f returns: Broadcast, Unlock.
EndCallback(p) ==
    /\ pc[p] = "callback"
    /\ asleep' = {}
    /\ pc' = [pc EXCEPT ![p] = "idle"]
    /\ sinceF' = 0
    /\ UNCHANGED <<hasF, busy, pos, running, stop, ticket, broken, lag>>

GateStep(p) ==
    \/ EnterWait(p) \/ EnterTake(p)
    \/ LeavePlain(p) \/ LeaveAndCall(p)
    \/ DrainWake(p) \/ EndCallback(p)

GateNext == \E p \in Procs : CallEnter(p) \/ GateStep(p)

GateSpec == GateInit /\ [][GateNext]_gateVars

-----------------------------------------------------------------------------
\* No call of Enter or Leave ever reaches one of its four panic("broken gate")
\* (gate.go:42-44, 52-54, 57-59, 61-63).
NeverBroken == ~broken

\* Nobody sleeps on the condition variable while what it waits for holds: a
\* process asleep in Enter is behind a taken head slot or a stopped gate, one
\* asleep in Leave is behind a running execution.  This is what the one
\* conditional Broadcast at the end of Leave (gate.go:71-73) has to ensure.
NoLostWakeup ==
    LockFree => \A p \in asleep :
        \/ pc[p] = "enter" /\ Blocked
        \/ pc[p] = "drain" /\ running # 0

\* f runs with no execution in flight (the leak checker scans a quiet machine).
CallbackAlone ==
    \A p \in Procs : pc[p] = "callback" => \A q \in Procs : pc[q] # "in"

\* "if a very old activity is still running it will not let new activities to
\* start" (gate.go:11-12): fewer than C executions are admitted while one runs.
WindowBound == \A p \in Procs : pc[p] = "in" => lag[p] < C

\* f is "called after each batch of c activities" (gate.go:22): fewer than two
\* full laps are admitted between two calls of f.
BatchBound == sinceF < 2 * C

-----------------------------------------------------------------------------
(* The inductive invariant behind the properties above.                    *)

BusySlots == {i \in Slots : busy[i]}

\* How many admissions ago slot t was at the head.
Dist(t) == IF t < pos THEN pos - t - 1 ELSE pos - t - 1 + C

\* The busy slots are the tickets of the running executions, one each, and
\* running counts them.
SlotsMatch ==
    /\ running = Cardinality(BusySlots)
    /\ \A p \in Procs : pc[p] = "in" => busy[ticket[p]]
    /\ \A p, q \in Procs :
          pc[p] = "in" /\ pc[q] = "in" /\ ticket[p] = ticket[q] => p = q
    /\ \A i \in Slots : busy[i] => \E p \in Procs : pc[p] = "in" /\ ticket[p] = i

\* At most one process is inside the callback part of Leave; stop says that it
\* still drains, and slot 0 stays free meanwhile.
OneLeader ==
    /\ \A p, q \in Procs :
          pc[p] \in {"drain", "callback"} /\ pc[q] \in {"drain", "callback"} => p = q
    /\ stop <=> \E p \in Procs : pc[p] = "drain"
    /\ stop => ~busy[0]
    /\ \A p \in Procs : pc[p] = "callback" => running = 0 /\ ~stop
    /\ \A p \in Procs : pc[p] \in {"drain", "callback"} => hasF

LagIsDist == \A p \in Procs : pc[p] = "in" => lag[p] = Dist(ticket[p])

\* Slot 0 comes up once per lap, and f runs when its execution has left.
BatchInv ==
    /\ ~hasF => sinceF = 0
    /\ hasF /\ (\E p \in Procs : pc[p] \in {"in", "drain", "callback"}) => sinceF > 0
    /\ busy[0] => sinceF <= C + Dist(0)
    /\ ~busy[0] /\ ~stop /\ LockFree => sinceF <= (IF pos = 0 THEN C ELSE pos) - 1

SleepersWait == \A p \in asleep : pc[p] \in {"enter", "drain"}

GateInv ==
    /\ TypeOK
    /\ SlotsMatch
    /\ OneLeader
    /\ LagIsDist
    /\ BatchInv
    /\ SleepersWait
    /\ NoLostWakeup
    /\ NeverBroken
    /\ BatchBound
=============================================================================
