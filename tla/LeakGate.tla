------------------------------ MODULE LeakGate ------------------------------
(***************************************************************************)
(* The gate as a fuzzer uses it: f is Fuzzer.gateCallback                  *)
(* (syz-fuzzer/fuzzer.go:475-497), which runs the kernel leak checker and  *)
(* is armed in two stages by fuzzer.triagedCandidates, which the poll loop *)
(* advances from 0 to 1 without the gate's mutex (fuzzer.go:646-648).      *)
(*                                                                         *)
(* An execution may leak at any time while it runs; a leak is remembered   *)
(* by the stage its execution was admitted in.  The error of the leak      *)
(* command stands for "it found leaks"; a command that fails for another   *)
(* reason is not modelled.                                                 *)
(***************************************************************************)
EXTENDS Gate

VARIABLES
    triagedCandidates,  \* fuzzer.triagedCandidates
    loaded,             \* the callback's local copy of it
    stage,              \* history: triagedCandidates when each execution began
    leaks,              \* the stages of the leaks not scanned for yet
    reported,           \* the stages of the leaks reported as bugs
    exited              \* the callback called os.Exit: the VM is to be restarted

leakVars == <<triagedCandidates, loaded, stage, leaks, reported, exited>>
vars == <<gateVars, leakVars>>

LeakTypeOK ==
    /\ TypeOK
    /\ triagedCandidates \in 0 .. 2 /\ loaded \in 0 .. 2
    /\ stage \in [Procs -> 0 .. 2]
    /\ leaks \subseteq 0 .. 2 /\ reported \subseteq 0 .. 2
    /\ exited \in BOOLEAN

Init ==
    /\ GateInit
    /\ triagedCandidates = 0 /\ loaded = 0
    /\ stage = [p \in Procs |-> 0]
    /\ leaks = {} /\ reported = {} /\ exited = FALSE

\* The poll that asked for candidates and got none.
CandidatesTriaged ==
    /\ triagedCandidates = 0
    /\ triagedCandidates' = 1
    /\ UNCHANGED <<gateVars, loaded, stage, leaks, reported, exited>>

\* The program a process executes leaks kernel memory.
Leak(p) ==
    /\ pc[p] = "in"
    /\ leaks' = leaks \cup {stage[p]}
    /\ UNCHANGED <<gateVars, triagedCandidates, loaded, stage, reported, exited>>

\* The steps that reach f load triagedCandidates as f's first statement.
Load == loaded' = IF \E q \in Procs : pc'[q] = "callback" /\ pc[q] # "callback"
                  THEN triagedCandidates ELSE loaded

PlainStep(p) ==
    /\ \/ /\ CallEnter(p) \/ EnterWait(p)
             \/ LeavePlain(p) \/ LeaveAndCall(p) \/ DrainWake(p)
          /\ UNCHANGED stage
       \/ /\ EnterTake(p)
          /\ stage' = [stage EXCEPT ![p] = triagedCandidates]
    /\ Load
    /\ UNCHANGED <<triagedCandidates, leaks, reported, exited>>

\* gateCallback runs: nothing at stage 0; at stage 1 the leak checker flushes
\* what it finds and the stage becomes 2; at stage 2 what it finds is reported.
FlushLeaks(p) ==
    /\ EndCallback(p)
    /\ \/ loaded = 0 /\ UNCHANGED <<leaks, triagedCandidates>>
       \/ loaded = 1 /\ leaks' = {} /\ triagedCandidates' = 2
       \/ loaded = 2 /\ leaks = {} /\ UNCHANGED <<leaks, triagedCandidates>>
    /\ UNCHANGED <<loaded, stage, reported, exited>>

\* A leak at stage 2: "BUG: leak checking failed" on the console and os.Exit.
ReportLeaks(p) ==
    /\ pc[p] = "callback"
    /\ loaded = 2 /\ leaks # {}
    /\ reported' = leaks
    /\ exited' = TRUE
    /\ UNCHANGED <<gateVars, triagedCandidates, loaded, stage, leaks>>

\* The manager reboots the VM and a fresh fuzzer starts.
Restart ==
    /\ exited
    /\ busy' = [i \in Slots |-> FALSE] /\ pos' = 0 /\ running' = 0 /\ stop' = FALSE
    /\ asleep' = {} /\ pc' = [p \in Procs |-> "idle"] /\ ticket' = [p \in Procs |-> 0]
    /\ broken' = FALSE /\ lag' = [p \in Procs |-> 0] /\ sinceF' = 0
    /\ triagedCandidates' = 0 /\ loaded' = 0 /\ leaks' = {} /\ exited' = FALSE
    /\ stage' = [p \in Procs |-> 0]
    /\ UNCHANGED <<hasF, reported>>

ProcStep(p) == ~exited /\ (PlainStep(p) \/ FlushLeaks(p) \/ ReportLeaks(p))

Next ==
    \/ \E p \in Procs : ProcStep(p) \/ (~exited /\ Leak(p))
    \/ ~exited /\ CandidatesTriaged
    \/ Restart

\* A process that is executing finishes (the executor enforces a timeout), a
\* process that may take the mutex takes it, and the leak command returns
\* (RunCmd's ten-minute limit).  A process need not start an execution.
Fairness ==
    \A p \in Procs : WF_vars(pc[p] # "idle" /\ ProcStep(p))

Spec == Init /\ [][Next]_vars
FairSpec == Spec /\ Fairness

-----------------------------------------------------------------------------
\* A leak reported as a bug is of an execution admitted after the flush: "we run
\* leak checking bug ignore the result to flush any previous leaks"
\* (fuzzer.go:476-480).
OnlyFreshLeaksReported == reported \subseteq {2}

\* The stage only moves forward under the callback, so that from stage 2 on all
\* that runs or leaked was admitted at stage 2.
StageInv ==
    /\ LeakTypeOK
    /\ triagedCandidates = 2 =>
          /\ leaks \subseteq {2}
          /\ \A p \in Procs : pc[p] = "in" => stage[p] = 2
    /\ \A p \in Procs : pc[p] = "callback" =>
          \/ loaded = triagedCandidates
          \/ loaded = 0 /\ triagedCandidates = 1
    /\ OnlyFreshLeaksReported

\* A process that stopped the gate in Leave gets out of it again: the drain
\* always ends, and with it the stop that holds every other process back.
DrainEnds == \A p \in Procs : pc[p] = "drain" ~> pc[p] = "callback"

\* The gate implements the sliding window with its callback: every step of
\* Enter and Leave is a step of GateWindow or changes nothing there.  (The exit
\* of a VM ends its gate: the window is stated for one VM's life, as
\* ReportLeaks leaves the gate as it is and Restart makes a new one.)
Window == INSTANCE GateWindow WITH
    inside <- {p \in Procs : pc[p] = "in"},
    calling <- \E p \in Procs : pc[p] = "callback",
    since <- sinceF
ImplementsWindow == Window!Init /\ [][Window!Next \/ Restart]_(Window!vars)
=============================================================================
