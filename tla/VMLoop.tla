------------------------------- MODULE VMLoop -------------------------------
(***************************************************************************)
(* The loop of syz-manager that owns the test machines (vmLoop of          *)
(* syz-manager/manager.go), with the goroutines it starts and the thread   *)
(* that talks to the hub (syz-manager/hub.go).  A VM is free, runs a       *)
(* fuzzer, or is one of those that reproduce a crash.  Crashes wait in     *)
(* pendingRepro until no other of the same title is being reproduced, then *)
(* in reproQueue until enough VMs are free; running VMs are asked to stop  *)
(* for that.                                                               *)
(*                                                                         *)
(* Crashes are told apart by their titles; a repro from the hub always has *)
(* the title External.  VMs are a set where the code has a stack, as they  *)
(* are alike.  The loop takes a step for each message, and steps for the   *)
(* loop's head: it never waits there.  Leak and data race frames, e-mails, *)
(* and memory leaks as a crash type are left out, and so is reproRequest,  *)
(* which reads only.                                                       *)
(***************************************************************************)
EXTENDS Integers, Sequences, FiniteSets

CONSTANTS
    VMs,
    Titles,             \* of crashes of the kernels that fuzzers run on
    External,           \* "external repro"
    MaxPerRepro,        \* the 4 of instancesPerRepro
    MaxReproAttempts,
    HubQueueCap,        \* capacity of hubReproQueue, 10
    Configs,            \* how the manager may be started
    MaxPending          \* bound: crashes of one title in pendingRepro

\* reproduce, dash, hub: cfg.Reproduce, mgr.dash # nil, cfg.HubClient # "".
\* drifts: of the kernel, whether a reproducer may show another crash than was looked for.
\* shows: the titles of the crashes that the kernels have.
AllConfigs == [reproduce : BOOLEAN, dash : BOOLEAN, hub : BOOLEAN, drifts : BOOLEAN,
               shows : SUBSET Titles]

ASSUME VMAssumption ==
    /\ IsFiniteSet(VMs) /\ VMs # {}
    /\ External \notin Titles
    /\ MaxPerRepro \in Nat \ {0}
    /\ MaxReproAttempts \in Nat \ {0}
    /\ HubQueueCap \in Nat \ {0}
    /\ Configs \subseteq AllConfigs
    /\ MaxPending \in Nat \ {0}

VARIABLES
    \* vmLoop
    pc,                 \* "head", "body", "exited", "panicked"
    instances,          \* free VMs
    pendingRepro,       \* [Crashes -> Nat]: how many of each title
    reproducing,        \* titles
    reproQueue,
    reproInstances,
    stopPending,
    shutdown,           \* the channel has been set to nil
    seenPhase,          \* phase as read at the head of the loop
    \* its goroutines
    running,            \* runInstance of each VM: "none", "booting", "fuzzing" or "ended"
    repros,             \* [Crashes -> SUBSET VMs]: the VMs of each repro.Run
    \* the rest of the manager
    phase,
    interrupted,        \* vm.Shutdown is closed
    attempts,           \* repro0, repro1, ... in the directory of each title
    reproduced,         \* titles with a repro.prog
    \* the hub thread
    hub,                \* "idle", "syncs", "needs" (with NeedRepros) or "sends"
    hubReproQueue,      \* repros in the channel
    \* how the manager was started; never changes
    config

loopVars == <<pc, instances, pendingRepro, reproducing, reproQueue, reproInstances,
              stopPending, shutdown, seenPhase>>
vars == <<loopVars, running, repros, phase, interrupted, attempts, reproduced,
          hub, hubReproQueue, config>>

Crashes == Titles \cup {External}

phaseInit == 0
phaseLoadedCorpus == 1
phaseTriagedCorpus == 2
phaseQueriedHub == 3
phaseTriagedHub == 4

instancesPerRepro ==
    IF MaxPerRepro > Cardinality(VMs) THEN Cardinality(VMs) ELSE MaxPerRepro

InQueue(k) == \E i \in 1..Len(reproQueue) : reproQueue[i] = k
Alive == pc \notin {"exited", "panicked"}

Init ==
    /\ config \in Configs
    /\ pc = "head"
    /\ instances = VMs
    /\ pendingRepro = [k \in Crashes |-> 0]
    /\ reproducing = {}
    /\ reproQueue = <<>>
    /\ reproInstances = 0
    /\ stopPending = FALSE
    /\ shutdown = FALSE
    /\ seenPhase = phaseInit
    /\ running = [v \in VMs |-> "none"]
    /\ repros = [k \in Crashes |-> {}]
    /\ phase = phaseInit
    /\ interrupted = FALSE
    /\ attempts = [t \in Titles |-> 0]
    /\ reproduced = {}
    /\ hub = "idle"
    /\ hubReproQueue = 0
-----------------------------------------------------------------------------
\* Mutant: one attempt more is wanted than can be noted.
NeedLocalReproOnceMore(t) ==
    /\ config.reproduce
    /\ t \notin reproduced
    /\ attempts[t] <= MaxReproAttempts

\* What a crash of title t is worth, by the directory of crashes.
NeedLocalRepro(t) ==
    /\ config.reproduce
    /\ t \notin reproduced
    /\ attempts[t] < MaxReproAttempts

\* Mutant: the dashboard may refuse repros from the hub.
NeedReproAsked(k) ==
    IF config.dash THEN BOOLEAN
    ELSE {k = External \/ NeedLocalRepro(k)}

\* Both outcomes that needRepro may have; the dashboard decides by rules of its own.
NeedRepro(k) ==
    IF k = External THEN {TRUE}
    ELSE IF config.dash THEN BOOLEAN
    ELSE {NeedLocalRepro(k)}

canRepro ==
    /\ seenPhase >= phaseTriagedHub
    /\ reproQueue # <<>>
    /\ reproInstances + instancesPerRepro <= Cardinality(VMs)

\* Mutant: two crashes of one title may be queued.
CanCollectAgain(k) == pendingRepro[k] > 0

\* Mutant: free VMs are given to fuzzers although a reproduction waits for VMs.
CanStartRunFirst == ~shutdown /\ instances # {}

\* Mutant: VMs are started during a shutdown.
CanStartRunAlways == ~canRepro /\ instances # {}

\* The three inner loops of an iteration, and what ends each.
CanCollect(k) == pendingRepro[k] > 0 /\ k \notin reproducing
AllCollected == pc = "body" /\ \A k \in Crashes : ~CanCollect(k)
CanStartRepro == ~shutdown /\ canRepro /\ Cardinality(instances) >= instancesPerRepro
CanStartRun == ~shutdown /\ ~canRepro /\ instances # {}

\* The loop is at its select.  Until then it shares nothing with other threads but the
\* phase, which it reads first; so what they do meanwhile can be taken to happen before
\* or after all of it.
Waiting == AllCollected /\ ~CanStartRepro /\ ~CanStartRun

\* The condition of the loop, and the phase.
LoopHead ==
    /\ pc = "head"
    /\ IF shutdown /\ instances = VMs
       THEN pc' = "exited" /\ UNCHANGED seenPhase
       ELSE pc' = "body" /\ seenPhase' = phase
    /\ UNCHANGED <<instances, pendingRepro, reproducing, reproQueue, reproInstances,
                   stopPending, shutdown, running, repros, phase, interrupted,
                   attempts, reproduced, hub, hubReproQueue, config>>

\* One pending crash whose title is not being reproduced, in the order of the map.
Collect(k) ==
    /\ pc = "body" /\ CanCollect(k)
    /\ pendingRepro' = [pendingRepro EXCEPT ![k] = @ - 1]
    /\ \E needed \in NeedRepro(k) :
          IF needed
          THEN /\ reproducing' = reproducing \cup {k}
               /\ reproQueue' = Append(reproQueue, k)
          ELSE UNCHANGED <<reproducing, reproQueue>>
    /\ UNCHANGED <<pc, instances, reproInstances, stopPending, shutdown, seenPhase,
                   running, repros, phase, interrupted, attempts, reproduced, hub,
                   hubReproQueue, config>>

\* The last crash of the queue, on the last free VMs.
StartRepro(vms) ==
    LET k == reproQueue[Len(reproQueue)]
    IN  /\ AllCollected /\ CanStartRepro
        /\ vms \subseteq instances /\ Cardinality(vms) = instancesPerRepro
        /\ reproQueue' = SubSeq(reproQueue, 1, Len(reproQueue) - 1)
        /\ instances' = instances \ vms
        /\ reproInstances' = reproInstances + instancesPerRepro
        /\ repros' = [repros EXCEPT ![k] = vms]
        /\ UNCHANGED <<pc, pendingRepro, reproducing, stopPending, shutdown, seenPhase,
                       running, phase, interrupted, attempts, reproduced, hub,
                       hubReproQueue, config>>

StartRun(v) ==
    /\ AllCollected /\ CanStartRun
    /\ v \in instances
    /\ instances' = instances \ {v}
    /\ running' = [running EXCEPT ![v] = "booting"]
    /\ UNCHANGED <<pc, pendingRepro, reproducing, reproQueue, reproInstances,
                   stopPending, shutdown, seenPhase, repros, phase, interrupted,
                   attempts, reproduced, hub, hubReproQueue, config>>
-----------------------------------------------------------------------------
\* Mutant: the channel has a buffer, so that nobody need have received the request.
StopRequestBuffered(v) ==
    /\ Waiting /\ ~stopPending /\ canRepro
    /\ running[v] \in {"fuzzing", "ended"}
    /\ stopPending' = TRUE
    /\ pc' = "head"
    /\ UNCHANGED <<running, instances, pendingRepro, reproducing, reproQueue, reproInstances,
                   shutdown, seenPhase, repros, phase, interrupted, attempts,
                   reproduced, hub, hubReproQueue, config>>

\* The cases of the select.  A stop request is received by a VM that runs a fuzzer, or
\* whose crash is just being read; its Run ends and may still report the crash.
StopRequest(v) ==
    /\ Waiting /\ ~stopPending /\ canRepro
    /\ running[v] \in {"fuzzing", "ended"}
    /\ running' = [running EXCEPT ![v] = "ended"]
    /\ stopPending' = TRUE
    /\ pc' = "head"
    /\ UNCHANGED <<instances, pendingRepro, reproducing, reproQueue, reproInstances,
                   shutdown, seenPhase, repros, phase, interrupted, attempts,
                   reproduced, hub, hubReproQueue, config>>

\* runDone, the part that does not depend on the result.
RunReturned(v) ==
    /\ Waiting
    /\ running' = [running EXCEPT ![v] = "none"]
    /\ instances' = instances \cup {v}
    /\ stopPending' = FALSE
    /\ UNCHANGED <<reproducing, reproQueue, reproInstances, shutdown, seenPhase, repros,
                   phase, interrupted, attempts, reproduced, hub, hubReproQueue, config>>

\* A run without a crash that is to be reproduced: a failed boot, an hour that has
\* passed, a crash that is suppressed, corrupted, not wanted, or of a shutdown.
RunFinished(v) ==
    /\ running[v] \in {"booting", "ended"}
    /\ RunReturned(v)
    /\ pc' = "head"
    /\ UNCHANGED pendingRepro

\* A crash is saved and its reproduction wanted: by the dashboard, or by
\* needLocalRepro, which takes checkResult for set.
RunCrashed(v, t) ==
    /\ running[v] = "ended" /\ ~shutdown /\ t \in config.shows
    /\ RunReturned(v)
    /\ \/ /\ config.dash \/ (NeedLocalRepro(t) /\ phase # phaseInit)
          /\ pendingRepro[t] < MaxPending
          /\ pendingRepro' = [pendingRepro EXCEPT ![t] = @ + 1]
          /\ pc' = "head"
       \/ /\ config.reproduce /\ phase = phaseInit
          /\ pc' = "panicked"
          /\ UNCHANGED pendingRepro

\* Mutant: the VMs of a reproduction are still counted when it has ended.
ReproReturnedCounted(k) ==
    /\ Waiting /\ repros[k] # {}
    /\ reproducing' = reproducing \ {k}
    /\ instances' = instances \cup repros[k]
    /\ repros' = [repros EXCEPT ![k] = {}]
    /\ pc' = "head"
    /\ UNCHANGED <<pendingRepro, reproQueue, reproInstances, stopPending, shutdown, seenPhase,
                   running, phase, interrupted, hub, hubReproQueue, config>>

\* reproDone, the part that does not depend on the result.
ReproReturned(k) ==
    /\ Waiting /\ repros[k] # {}
    /\ reproducing' = reproducing \ {k}
    /\ instances' = instances \cup repros[k]
    /\ reproInstances' = reproInstances - instancesPerRepro
    /\ repros' = [repros EXCEPT ![k] = {}]
    /\ pc' = "head"
    /\ UNCHANGED <<pendingRepro, reproQueue, stopPending, shutdown, seenPhase, running,
                   phase, interrupted, hub, hubReproQueue, config>>

\* Only a crash of our own is noted as failed, and only if the dashboard does not do so.
ReproFailed(k) ==
    /\ ReproReturned(k)
    /\ IF k = External THEN UNCHANGED attempts
       ELSE \/ attempts' = [attempts EXCEPT ![k] = IF @ < MaxReproAttempts THEN @ + 1 ELSE @]
            \/ config.dash /\ UNCHANGED attempts
    /\ UNCHANGED reproduced

\* The reproducer is kept under the title of the crash that it shows.
ReproSucceeded(k, t) ==
    /\ ReproReturned(k)
    /\ t \in config.shows
    /\ k = External \/ config.drifts \/ t = k
    /\ \/ reproduced' = reproduced \cup {t}
       \/ config.dash /\ UNCHANGED reproduced
    /\ UNCHANGED attempts

SeeShutdown ==
    /\ Waiting /\ interrupted /\ ~shutdown
    /\ shutdown' = TRUE
    /\ pc' = "head"
    /\ UNCHANGED <<instances, pendingRepro, reproducing, reproQueue, reproInstances,
                   stopPending, seenPhase, running, repros, phase, interrupted,
                   attempts, reproduced, hub, hubReproQueue, config>>

TakeHubRepro ==
    /\ Waiting /\ hubReproQueue > 0
    /\ pendingRepro[External] < MaxPending
    /\ hubReproQueue' = hubReproQueue - 1
    /\ pendingRepro' = [pendingRepro EXCEPT ![External] = @ + 1]
    /\ pc' = "head"
    /\ UNCHANGED <<instances, reproducing, reproQueue, reproInstances, stopPending,
                   shutdown, seenPhase, running, repros, phase, interrupted, attempts,
                   reproduced, hub, config>>

\* needMoreRepros: the answer, and what sync puts into the request.
NoRepros ==
    /\ seenPhase >= phaseTriagedHub
    /\ reproQueue = <<>> /\ reproducing = {}
    /\ \A k \in Crashes : pendingRepro[k] = 0

AnswerHub ==
    /\ Waiting
    /\ hub = "idle" /\ phase >= phaseTriagedCorpus /\ config.hub
    /\ config.reproduce /\ config.dash
    /\ hub' = IF NoRepros THEN "needs" ELSE "syncs"
    /\ UNCHANGED <<loopVars, running, repros, phase, interrupted, attempts, reproduced,
                   hubReproQueue, config>>
-----------------------------------------------------------------------------
\* A VM has booted and runs the fuzzer.
Booted(v) ==
    /\ Waiting /\ running[v] = "booting"
    /\ running' = [running EXCEPT ![v] = "fuzzing"]
    /\ UNCHANGED <<loopVars, repros, phase, interrupted, attempts, reproduced, hub,
                   hubReproQueue, config>>

\* It crashes, or its hour is over.
Ends(v) ==
    /\ Waiting /\ running[v] = "fuzzing"
    /\ running' = [running EXCEPT ![v] = "ended"]
    /\ UNCHANGED <<loopVars, repros, phase, interrupted, attempts, reproduced, hub,
                   hubReproQueue, config>>

\* The RPCs of a fuzzer that change the phase: Check, and a Poll that leaves no candidates.
Fuzzes(v) ==
    /\ Waiting /\ running[v] = "fuzzing"
    /\ \/ phase = phaseInit /\ phase' = phaseLoadedCorpus
       \/ /\ phase = phaseLoadedCorpus
          /\ phase' = IF config.hub THEN phaseTriagedCorpus ELSE phaseTriagedHub
       \/ phase = phaseQueriedHub /\ phase' = phaseTriagedHub
    /\ UNCHANGED <<loopVars, running, repros, interrupted, attempts, reproduced, hub,
                   hubReproQueue, config>>

\* The hub thread does not ask when repros are not wanted from the hub.
SyncsUnasked ==
    /\ Waiting
    /\ hub = "idle" /\ phase >= phaseTriagedCorpus /\ config.hub
    /\ ~(config.reproduce /\ config.dash)
    /\ hub' = "syncs"
    /\ UNCHANGED <<loopVars, running, repros, phase, interrupted, attempts, reproduced,
                   hubReproQueue, config>>

\* Mutant: each reply counts as the first.
HubRepliedAgain ==
    /\ Waiting /\ hub \in {"needs", "syncs"}
    /\ phase' = phase + 1
    /\ hub' \in IF hub = "needs" THEN {"idle", "sends"} ELSE {"idle"}
    /\ UNCHANGED <<loopVars, running, repros, interrupted, attempts, reproduced,
                   hubReproQueue, config>>

\* The reply brings candidates, and a repro if it was asked for one and has one.
HubReplied ==
    /\ Waiting /\ hub \in {"needs", "syncs"}
    /\ phase' = IF phase = phaseTriagedCorpus THEN phaseQueriedHub ELSE phase
    /\ hub' \in IF hub = "needs" THEN {"idle", "sends"} ELSE {"idle"}
    /\ UNCHANGED <<loopVars, running, repros, interrupted, attempts, reproduced,
                   hubReproQueue, config>>

HubFailed ==
    /\ Waiting /\ hub \in {"needs", "syncs"}
    /\ hub' = "idle"
    /\ UNCHANGED <<loopVars, running, repros, phase, interrupted, attempts, reproduced,
                   hubReproQueue, config>>

SendRepro ==
    /\ Waiting /\ hub = "sends" /\ hubReproQueue < HubQueueCap
    /\ hubReproQueue' = hubReproQueue + 1
    /\ hub' = "idle"
    /\ UNCHANGED <<loopVars, running, repros, phase, interrupted, attempts, reproduced, config>>

Interrupt ==
    /\ Waiting /\ ~interrupted
    /\ interrupted' = TRUE
    /\ UNCHANGED <<loopVars, running, repros, phase, attempts, reproduced, hub,
                   hubReproQueue, config>>

\* The process has ended, and with it all its threads.
Ended == ~Alive /\ UNCHANGED vars
-----------------------------------------------------------------------------
Loop ==
    \/ LoopHead
    \/ \E k \in Crashes : Collect(k)
    \/ \E vms \in SUBSET VMs : StartRepro(vms)
    \/ \E v \in VMs : StartRun(v)

RunReturns(v) == RunFinished(v) \/ \E t \in Titles : RunCrashed(v, t)
ReproReturns(k) == ReproFailed(k) \/ \E t \in Titles : ReproSucceeded(k, t)

Next ==
    \/ Loop
    \/ \E v \in VMs : StopRequest(v) \/ RunReturns(v) \/ Booted(v) \/ Ends(v) \/ Fuzzes(v)
    \/ \E k \in Crashes : ReproReturns(k)
    \/ SeeShutdown \/ TakeHubRepro \/ AnswerHub
    \/ SyncsUnasked \/ HubReplied \/ HubFailed \/ SendRepro
    \/ Interrupt \/ Ended

Spec == Init /\ [][Next]_vars

\* A VM that boots gets on, fuzzes for an hour at most (runInstance), and a reproduction
\* is a bounded search; the hub answers or fails.  The select takes each of the messages
\* that are ready with the same chance, so none waits for ever.  Fairness is strong because
\* the loop's head disables all of this; it asks no fuzzer to crash and nobody to interrupt.
Fairness ==
    /\ WF_vars(Loop)
    /\ SF_vars(\E v \in VMs : Booted(v) \/ Ends(v) \/ RunReturns(v))
    /\ SF_vars(\E k \in Crashes : ReproReturns(k))
    /\ SF_vars(SeeShutdown) /\ SF_vars(TakeHubRepro)
    /\ SF_vars(HubReplied \/ HubFailed \/ SendRepro)

FairSpec == Spec /\ Fairness
-----------------------------------------------------------------------------
TypeOK ==
    /\ config \in Configs
    /\ pc \in {"head", "body", "exited", "panicked"}
    /\ instances \subseteq VMs
    /\ pendingRepro \in [Crashes -> Nat]
    /\ reproducing \subseteq Crashes
    /\ reproQueue \in Seq(Crashes)
    /\ reproInstances \in Nat
    /\ stopPending \in BOOLEAN /\ shutdown \in BOOLEAN /\ interrupted \in BOOLEAN
    /\ seenPhase \in phaseInit..phaseTriagedHub /\ phase \in phaseInit..phaseTriagedHub
    /\ running \in [VMs -> {"none", "booting", "fuzzing", "ended"}]
    /\ repros \in [Crashes -> SUBSET VMs]
    /\ attempts \in [Titles -> 0..MaxReproAttempts]
    /\ reproduced \subseteq Titles
    /\ hub \in {"idle", "syncs", "needs", "sends"}
    /\ hubReproQueue \in 0..HubQueueCap

\* Each VM is free, with one fuzzer or with one reproduction, and reproInstances counts
\* the last: the loop never starts a machine that something else still uses, and never
\* loses one (manager.go:332-362, 388, 413-414).
OneUser ==
    /\ \A v \in instances : running[v] = "none" /\ \A k \in Crashes : v \notin repros[k]
    /\ \A k \in Crashes : \A v \in repros[k] :
          running[v] = "none" /\ \A l \in Crashes \ {k} : v \notin repros[l]
NoneLost ==
    \A v \in VMs : v \in instances \/ running[v] # "none" \/ \E k \in Crashes : v \in repros[k]
InstancesAccounted ==
    /\ OneUser
    /\ NoneLost
    /\ reproInstances = Cardinality(UNION {repros[k] : k \in Crashes})

\* reproducing holds a title exactly while one crash of it is queued or being
\* reproduced (manager.go:316-326, 412): two at once would take turns in one directory.
OneReproPerTitle ==
    /\ reproducing = {k \in Crashes : InQueue(k) \/ repros[k] # {}}
    /\ \A i, j \in 1..Len(reproQueue) : reproQueue[i] = reproQueue[j] => i = j
    /\ \A k \in Crashes : InQueue(k) => repros[k] = {}

\* A failed reproduction can always be noted: the number of attempts cannot have
\* reached the limit since it was tested (needRepro, saveFailedRepro).
FailuresNoted ==
    \A t \in reproducing \cap Titles : ~config.dash => attempts[t] < MaxReproAttempts

\* While no new stop request is made because one is pending, a VM is on its way back:
\* the loop cannot wait for a stop that nobody received (manager.go:373-376, 382-387).
StopIsAnswered == stopPending => \E v \in VMs : running[v] = "ended"

\* A crash that waits is reproduced, or turns out not to be needed, once the phase
\* allows it and unless the manager shuts down.  It holds only of kernels whose
\* reproducers show the crash they are for: the queue is a stack, and a title that is
\* reproduced as another one stays wanted for ever.  The dashboard may do the same.
Waits(t) == pendingRepro[t] > 0 \/ InQueue(t)
ReproServed ==
    \A t \in Titles :
        (Waits(t) /\ phase = phaseTriagedHub /\ ~config.drifts /\ ~config.dash)
            ~> (repros[t] # {} \/ ~Waits(t) \/ interrupted \/ ~Alive)

\* The hub thread is never stuck in a question to the loop or in the queue of repros
\* (hub.go:130-131, 191).  And a repro that the hub sent is taken up, if a reproduction
\* takes all VMs: with more of them, crashes that are found meanwhile are served first,
\* and for ever if the dashboard wants them all.
HubServed ==
    /\ hub # "idle" ~> (hub = "idle" \/ ~Alive)
    /\ (hubReproQueue > 0 /\ Cardinality(VMs) = instancesPerRepro)
           ~> (repros[External] # {} \/ interrupted \/ ~Alive)

\* A shutdown waits for all VMs and comes to an end (manager.go:309).
ShutdownEnds == interrupted ~> ~Alive

\* "Once syzkaller detected a kernel crash in one of the VMs, it will automatically start
\* the process of reproducing this crash" (docs/usage.md:16).
ManagerSurvives == pc # "panicked"
=============================================================================
