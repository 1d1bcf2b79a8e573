# TLA+ models of SyzVegas

SyzVegas is syzkaller with a multi-armed-bandit scheduler: a manager boots VMs, a
fuzzer in each of them executes programs and finds the ones that show new kernel
coverage ("signal"), and the manager collects these as the corpus. This directory
models the parts of it that keep shared state between threads, processes and
machines; checks the models with TLC on small instances; and proves what matters
most with TLAPS.

    tlc -workers 2 -config MCLeakGate.cfg MCLeakGate     # a run (see the table below)
    for m in LeakGate ManagerCorpus TriageSync CorpusDB HubState VMLoop FuzzerSched; do
        tlapm ${m}Proofs.tla; done; tlapm Extrema.tla    # the proofs

## 1. The system

| part | source | state it keeps | operations |
|---|---|---|---|
| execution gate | `pkg/ipc/gate.go` | ring of busy slots, head, counter, stop flag, one condition variable | `Enter`, `Leave`, callback once per lap |
| leak checking | `syz-fuzzer/fuzzer.go` (`gateCallback`) | `triagedCandidates` 0, 1, 2 | armed by the poll loop, flushed and then reporting under the gate's mutex |
| manager | `syz-manager/manager.go` | phase, candidates, corpus, `corpus.db`, disabled hashes (`mgr.mu`) | `loadCorpus`, `candidateBatch`, `newInput`, `minimizeCorpus`, `addNewCandidates` |
| VM loop | `syz-manager/manager.go` (`vmLoop`) | free VMs, pending, queued and running reproductions, stop and shutdown requests; only its own goroutine touches them | a `select` over results of runs and reproductions, stop requests, hub repros, questions and the shutdown |
| RPC server | `syz-manager/rpc.go` | per-fuzzer inputs and signal, maximal and corpus signal, pending triages (`serv.mu`) | `Connect`, `Check`, `NewInput`, `Poll` |
| fuzzer | `syz-fuzzer/fuzzer.go`, `proc.go`, `workqueue.go` | three signals, work queue, corpus and weights, pending triages | poll loop; procs execute, triage, smash, mutate |
| MAB scheduler | `syz-fuzzer/mab_gmt.go`, `pkg/glc` | arm weights, rounds, per-seed gains (`MABMu`) | choice, update, synchronization with polls |
| corpus database | `pkg/db/db.go` | records in memory, pending writes, the file | `Open`, `Save`, `Delete`, `Flush`, compaction |
| hub | `syz-hub/hub.go`, `state/state.go` | union of the managers' corpora, repros, sequence numbers, seq files (`hub.mu`) | `Connect`, `Sync`, restart |
| hub connector | `syz-manager/hub.go` | what the hub knows of this manager; a bounded queue of repros for the VM loop | `connect`, `sync` in a loop; asks the VM loop whether it needs repros |

The parts meet as follows. Procs pass the gate around each execution. The fuzzer
calls the manager: `Connect` and `Check` when its VM has booted, `Poll` every few
seconds (new signal up; candidates, inputs, signal and pending triages down),
`NewInput` when a triage has ended. `Connect` and `NewInput` call from `rpc.go` into
`manager.go` and take two mutexes one after the other. The manager calls the hub
with what has changed in its corpus and gets other managers' programs as candidates
and their repros, which it passes to the VM loop. That loop and the goroutines that run
fuzzers and reproductions talk over channels. The poll thread of a fuzzer shares the
bandit's status with the manager, under a mutex that it holds over the call.
Manager and hub keep their corpora in database files.

What is hard: handlers that read under one lock and act under another; signal,
inputs and candidates that overtake each other; VMs that crash at any moment with
all the fuzzer knew; a manager or hub that is killed and has its files only; polls
and hub calls whose reply is lost; one condition variable for several conditions;
unsynchronized maps and counters; settings that change under those who read them; threads
that wait for each other over channels. `PROJECT.json` lists each such place as a hazard with the
property that covers it, or the reason why none does.

What makes each part correct: the gate never breaks, wakes everyone it has to, and
is a sliding window; leaks reported are fresh; the corpus never loses coverage and is
always in `corpus.db`; no fuzzer takes coverage for known that the corpus lacks, but for
what its own inputs showed that `NewInput` could not parse; signal found by one reaches
all; of each program whose triages were reported one is begun, also when their finder
crashes; the database file reads as a past of the records; the hub passes over nothing,
keeps exactly what its managers have, and sends no repro twice; each VM has one user and
none is lost; every crash that is wanted is reproduced, once at a time, and a shutdown
ends; the bandit ends when it should, a poll replaces no status but the one it answers, and
no proc is kept from its work.

## 2. The modules

Three modules are abstract specifications: `GateWindow` of `Gate` (the refinement is stated
in `LeakGate`, which extends `Gate`), `DurableMap` of `CorpusDB`, `HubFeed` of `HubState`.
The `...Proofs` modules hold the proofs, and `Extrema` what two of them need to know about
`Min` and `Max`. The `MC...` modules hold
the constants of the runs. Definitions marked "Mutant" are plausible bugs; no run uses
them, and each property is violated when one of them takes the place of what it follows.

**Gate, GateWindow, LeakGate.** One action per stretch of code between taking the
mutex and giving it up (`Unlock`, `Wait`). The callback runs with the mutex held, so
while a process is in `"callback"` no other takes a locked step (`LockFree`). The
condition variable is the set `asleep`; `hasF` says whether `NewGate` was given a callback
(the manager's leak checking switches it on) and never changes. A woken process re-tests its condition in a
step of its own. A `Leave` that finds `running = 0` sets and resets `stop` under one
lock, which is one step. `lag` and `sinceF` are history variables (admissions since
an execution began, since the callback ran): they are what `GateWindow` is about.
`LeakGate` adds the stage of leak checking, the leaks found and reported, and the VM
restart after a report. `triagedCandidates` is set to 1 without the mutex, so
`CandidatesTriaged` may come at any moment, also inside the callback.

**ManagerCorpus.** One action per critical section of `mgr.mu` or `serv.mu`:
`FuzzerConnect` then `Connect`; `NewInputStore` then `NewInputMerge` (serv.mu is held
from one to the other, `ServFree`), or `NewInputKnown` for an input that is not new, or
`NewInputUnread` for a program that the manager cannot parse (one of `Garbled`): the handler
then returns without an error and the fuzzer goes on as if the input were stored.
`unstored` is a history variable, the signal of such inputs of each fuzzer since its VM
started. A poll asks for candidates while fewer than `Procs` are queued. Programs are model
values, a signal is a set of
elements (a higher priority counts as one more element), an execution shows one of
`Signals[p]`, `prog.Minimize` returns one of `Minimal[p]`, which may by itself show less
than the signal recorded for it. Of a fuzzer the model has its signals, its candidate
queue, its triages and the poll reply on its way. `TriageSend` does not test the
corpus signal, because `triageInput` tests it at its start only and it may be stale by
then. The order of map iterations and shuffles is free (`Orders`, `MinimizedKeys`,
`Parts`). A VM crash throws away the fuzzer; an RPC of a VM that is dying is handled
before the crash or not at all, which is the same as its handler running after the
crash and before the next `Connect`. A manager restart keeps the records of
`corpus.db`; that these survive is the subject of `CorpusDB`. Left out: the database's
version (candidates of an old version are not taken for minimized, `manager.go:459-470`),
the larger first batch of inputs (`rpc.go:370`; `BatchSize` is a parameter), the empty
programs in front of those of a hub's reply (`state.go:315-316`; they become candidates
that show nothing), rotation
(dead code behind `false &&`), coverage, statistics, crash handling.

**TriageSync** models `fuzzerconfig_syncTriage`. `Find` and `NewTriage` are the two
halves of `enqueueCallTriage`, with the queue filled before the maps; `CompleteTriage`
is the start of `triageInput`. `Poll` builds the batch and has it handled by the manager,
which stores works until it meets a duplicate and then `Returns`, or stores all and
`Answers`; `PollReply` works the reply off. Works of a program in `Garbled` may be skipped
there (`Readable`), neither recorded nor queued, and the manager still has them. What is
handed out is any part of the right size, as Go's map iteration has no order. The batch
code is modelled as written, with the counter reset before the cut (`fuzzer.go:582-583`),
and the manager's early return on a duplicate. The maps are used without a lock; the Go runtime may detect that and
end the process, which is `Crash`. `begun` and `lost` are history variables.
`MABTriageInfo` is not modelled.

**CorpusDB.** `file` is a sequence of entries, the last of which may be torn. A crash
or a failed write leaves a first part of what was pending. Parsing stops at a torn
entry, because the bytes of the next one are taken for the missing ones; of the entries
parsed, the last one of each key counts (`Applied`). The
compaction ratio `10*9` is generalized to `Div*Num` so that small files reach it. Data
handed to the operating system is taken to be on disk (the code never calls fsync).
`DurableMap` has no file, pending entries or compaction: a map in memory, the map that the
next `Open` would find, and the maps there were since the last flush that succeeded. A crash
or a failed write brings a first part of the changes over (`Brought`). It has one flaw
of the code on purpose: once a record is torn, `disk` may be `stuck` through flushes that
report success. The mapping is `disk <- Read(file)`, `stuck <- FirstTorn(file) # 0`.

**HubState** has the hub and the connectors of its managers. An RPC is one action
with the caller's work on the reply; `lost = 1` loses the reply, `RequestLost` the
request, `Refused` is the hub's "unconnected manager" after a restart. `Restart` reads
numbers back from records and seq files and may find one manager's corpus file half
way through a call. `Capped` and `Reached` are the cut of `pendingInputs`. Each manager
supports a fixed set of programs. History: `seen`, `seenRepros`,
`origin` (who was the first to bring a repro), `resent` (what was sent to a manager that had it
in `seenRepros`).
`HubFeed` has no numbers, cut replies or seq files: a pool of programs, and for each
manager those it is still owed. What comes in new is owed to everybody, a sync takes some
off what its manager is owed, and all of these that the manager supports go to it, or are
given up, in that step; a restart changes nothing that is owed. The mapping takes for owed
what is numbered higher than the manager has reached.

**VMLoop** is `vmLoop` with `runInstance`, `saveCrash`, `needRepro`, `saveRepro` and
`saveFailedRepro` as far as they decide what is reproduced, and the hub thread's side of
its channels. The three inner loops of an iteration are `Collect`, `StartRepro` and
`StartRun`, the cases of the `select` are actions of their own (`StopRequest` to
`AnswerHub`). Everything that other threads do is enabled only while the loop is at its
`select` (`Waiting`): before that the loop shares nothing with them but the phase, which
it reads first, so that what they do meanwhile may as well happen before or after. `phase`
and `seenPhase` keep that read apart. A VM is asked to stop over a channel without a
buffer, so the request and its receipt are one step; a VM whose crash is just being read
may receive it too. `NeedRepro` is the set of outcomes: the dashboard decides by rules of
its own, also against `reproduce: false` (`manager.go:714-733`). The kernel is an input:
`config.shows` has the titles it crashes with, `config.drifts` says whether a reproducer
may show another title than the one it is for. Left out: e-mails, leak and data-race
frames, memory leaks as a crash type, statistics, and `reproRequest` (it only reads).

**FuzzerSched** is the loop of a proc (`loop`, `MABLoop`, `DoCandidate`) over the work
queue, and the poll thread. A proc's iteration is cut where it reads what others write:
the increment of `MABRound` (two steps), the tests of the round, the two locked stretches
of the bandit, and `ResetConfig`, which turns the algorithm off before it resets the rest.
`MABMu` is "poll" while the poll thread holds it over its call; the short locked stretches
are one step each, enabled while it is free. What the bandit has learnt is a flag,
`learnt`: something has been learnt since the status was read for the manager, so that a
reply which replaces the status would replace another than the manager was sent and
compared rounds with. (That one is discarded: the manager takes nothing from a status with
a lower round than its own, and sends its own only then, `rpc.go:272-284`.) Any arm may be pulled, since the weights are
floating point. The manager is `ServerPoll` with `SyncMABStatus`, by its rounds only.

## 3. The runs

| run | expect | what it shows | bounds |
|---|---|---|---|
| `leak_gate` | pass | `NeverBroken`, `NoLostWakeup`, `OnlyFreshLeaksReported`; `DrainEnds`; `ImplementsWindow` | 3 processes, 2 slots, with and without a callback: level, window and drain all block somebody |
| `corpus_hub` | pass | `CorpusCoversSignal`, `NoPhantomCoverage`, `MaxSignalReachesAll` | 2 VMs, 1 crash; a seed, a disabled and a broken record, one hub program whose signal covers the seed's (so that minimization drops the seed), another that `NewInput` may not parse; 2 procs; splits and batches of 1 |
| `corpus_restart` | pass | `PersistentCorpus` over lives of the manager, `FoundSignalReported` | without a hub, with a generated program, which may not parse, 1 proc and one restart |
| `corpus_deleted` | violation | records go from `corpus.db` while queued in fuzzers | 2 VMs, no crash |
| `triage_sync` | pass | `DroppedOnlyBegun`, `ReportedIsBegun` | 2 fuzzers, 2 programs, one of which may not parse, 2 finds, 1 crash, batches of 1; a hand-out has room for all that is pending |
| `triage_batch` | violation | a batch is not taken off the buffer | 1 fuzzer, 1 program with 2 works |
| `corpus_db` | pass | `OpenFindsAPrefix`, `OpenFindsOwnValues`; `ImplementsDurableMap` | 2 keys, 2 values, 4 changes, 2 faults, compaction from 4 entries on |
| `hub` | pass | `NothingSkipped`, `HubMirrors`, `CorpusIsUsed`, `ReprosNotSkipped`, `ReprosSentOnce`; `ImplementsFeed`; `EventuallySent` | 2 managers, 4 programs (one that only the first supports), 2 repros, 2 changes, 1 fault; one number per reply, cap of 2 |
| `vm_loop` | pass | `InstancesAccounted`, `OneReproPerTitle`, `FailuresNoted`, `StopIsAnswered`; `ReproServed`, `HubServed`, `ShutdownEnds` | 2 VMs that a reproduction needs both, so that one must be stopped for it; 2 titles and the hub's; 1 attempt; a hub queue of 1; 1 pending crash of a title; with dashboard and hub, with the hub alone, and on a kernel that drifts |
| `vm_no_check` | violation | a crash before the first `Check` ends the manager | the same with 1 title |
| `fuzzer_sched` | pass | `ReplacedWasSent`; `BanditEnds`, `CandidatesExecuted`, `ProcsGoOn` | 2 procs and the poll thread, 1 candidate, at most 1 item of a kind queued by executions, rounds up to 2; the bandit for ever, for two rounds with triage first, and seed selection only |
| `mab_reset` | violation | a reset during a poll leaves the mutex locked | the same |

Each property's comment names the code it is about. The bounds are the least at which
the interesting case happens: every property is violated by a mutation of the code
(`PROJECT.json`, `mutants`) under the same bounds. The named bounds in the modules are
`MaxCrashes`, `MaxRestarts`, `MaxFinds`, `MaxOps`, `MaxFaults`, `MaxPending`, `MaxQueue` and
`MaxRound`; they limit how often the environment acts, not the code. Two of them saturate
rather than stop: an execution that would queue one item more than `MaxQueue` queues none,
and rounds beyond `MaxRound` count as that one. No setting asks for a later round. VMs are symmetric in the runs of `ManagerCorpus`,
which check invariants only. A fuzzer's gate has twice as many slots as processes
(`fuzzer.go:414`), so that the window and the drain block and the level never does; the
run has fewer slots than processes, which blocks in every way `gate.go` has, and the
proofs are for any number of either. Deadlock is checked everywhere but in the runs of `ManagerCorpus` and `CorpusDB` and in
`triage_batch`, whose bounded environment comes to rest.

**Fairness.** Gate: a process that is not idle makes progress, because the executor
kills overlong executions, mutexes are handed on and the leak command has a time limit;
nobody has to start an execution, and a process may be overtaken in `Enter` for ever,
so nothing is claimed of a single `Enter`. Triages: the procs take triages before they fuzz,
the poll loop has a ticker, and the manager restarts crashed VMs. (Were there more works
than a hand-out carries, their turn would rest on Go's random map order; the run does not ask
that.) Hub: the connector's
loop never ends; only finitely many calls are lost, which is the bound `MaxFaults`. VM loop:
a VM that boots gets on and fuzzes for an hour at most, a reproduction is a bounded search,
and the hub answers or fails; the fairness of these is strong, because the loop's head
disables them again and again and a `select` takes ready cases with equal chance. Nobody
has to crash and nobody has to interrupt the manager. Scheduling: each proc with strong
fairness, as Go's mutex is handed to a goroutine that has waited for a millisecond, and the
poll thread with weak fairness, as its ticker ticks.

## 4. What the violations show

- `corpus_deleted`: the phase that allows deletion is set when the last candidate is
  handed out (`manager.go:1000-1012`), not when it has been triaged, as the comment at
  `manager.go:905` says. A crash then loses the seed for good.
- `triage_batch`: `count = 0` stands before the slice that uses it (`fuzzer.go:582-583`), so
  each poll sends the same works and the manager returns early on the first.
- `vm_no_check`: `needLocalRepro` reads `mgr.checkResult.Features` (`manager.go:696`), which is
  nil until a fuzzer has sent its `Check`. Without a dashboard, a VM that crashes before
  that ends the manager, which by `docs/usage.md:16` would reproduce the crash.
- `mab_reset`: `poll` tests the settings to lock `MABMu` and again to unlock it
  (`fuzzer.go:571-572`, `682-684`). A proc that ends the bandit in between leaves the mutex
  locked, and the procs in the bandit's loop wait for ever.

Other deviations, which the models have and no run singles out:

- The reported signal of a candidate whose triage is lost in a crash makes its second copy
  look uninteresting, against the comment at `manager.go:489-494`.
- "Notify the manager as soon as the triage is scheduled" (`proc.go:405`) is a note for the
  next poll; a triage that crashes its VM is handed out again.
- `NewInput` returns without an error when it cannot parse the program (`rpc.go:292-296`), and
  the fuzzer merges the signal into what its comment calls the "signal of inputs in corpus"
  (`fuzzer.go:67`) all the same: until its VM restarts, that fuzzer triages nothing for
  coverage that the corpus lacks. `NoPhantomCoverage` has this as its one exception.
- One call begun drops the pending triages of all calls of its program (`rpc.go:411-416`): a
  call that was reported but is queued at its finder only is lost if the finder then crashes.
  And works whose program does not parse in a fuzzer are skipped there and handed out again
  (`fuzzer.go:666-670`). `ReportedIsBegun` therefore speaks of programs, and of those that parse.
- A fuzzer's bandit status with a lower round than the manager's is discarded, with all that was
  learnt since the last one that was accepted (`rpc.go:272-284`).
- A manager that brings a repro which the hub has is sent it, though the reply is the "Set of
  repros from other managers" (`rpctype.go:137`): `AddRepro` returns before it notes that the
  repro is the manager's own (`state.go:211-213`).
- Appends behind a torn record succeed and are not found by the next open (`db.go:92`):
  the exception in `MirroredOnDisk`, and `stuck` in `DurableMap`.
- After a restart of the hub a manager may be sent a repro that it was the first to bring, since
  `ownRepros` is not kept (`state.go:42`, `214`, `242`), and a manager with repro number 0 skips
  all repros that wait (`state.go:127`). Hence `restarts` in two properties. (The first of these
  needs three repros; it is out of the bounds of the run, not of the theorem.)
- `pendingInputs` sends one record more than the maximum its comment states, and puts an
  empty program in front for each (`state.go:292`, `306`, `315`).
- The reproduction queue is a stack, and a title whose reproducer shows another title stays
  wanted: on such a kernel, or if the dashboard wants everything, a crash at the bottom may
  wait for ever. `ReproServed` and `HubServed` exclude these cases by name.
- The end of any run clears `stopPending` (`manager.go:388`), so a second VM may be stopped
  for one reproduction; no VM is lost by it.

## 5. The proofs

`LeakGateProofs` proves about the gate, for any set `Procs` and any `C > 0`
(`GateAssumption`), with and without a callback:

- `GateCorrect`, `GateInvariant`: `GateInv` is inductive, for the gate alone and for the
  gate inside a fuzzer whose VM is rebooted. The properties are not inductive by
  themselves. `NeverBroken` needs that `running` counts the busy slots and that these
  are the tickets of the executions in flight, one each (`SlotsMatch`), and that at most
  one process is past slot 0's `Leave` (`OneLeader`); `NoLostWakeup` needs both, since
  what `Leave` broadcasts for is stated by `running` and `stop`. The window follows from
  `LagIsDist` (an execution's lag is the ring distance of its ticket from the head), the
  distance of two callbacks from `BatchInv` (slot 0 comes up once per lap).
- `GateNeverBroken`, `GateNoLostWakeup`: the two safety properties.
- `GateIsWindow`: every step of `Enter` and `Leave` is a step of `GateWindow` or stutters
  there, by cases on the actions.
- `FreshLeaks`: by `StageInv`. Once the stage is 2, all that runs or leaked was admitted at
  stage 2, because the callback that raises the stage runs with nothing in flight
  (lemma `QuietGate`).

`ManagerCorpusProofs` proves about `ManagerCorpus`, for any finite set of programs and any
VMs, signals, outcomes of executions and of `prog.Minimize`, batch sizes and bounds
(`CorpusAssumption`):

- `CorpusTypes`: type correctness, one lemma per action.
- `CorpusPersists`: `PersistentInv` adds that the hashes of disabled seeds are remembered
  from the loading of the corpus on (else `minimizeCorpus` would delete them) and that
  nothing comes into the corpus before it was loaded (else `loadCorpus` could delete the
  record of an input: it deletes records that do not parse).
- `CorpusCovers`, `CorpusNoPhantoms` (what a fuzzer takes for covered is covered or in its
  `unstored`, and nothing of that is passed on): `CoverInv` adds that at most one `NewInput` is half
  done and that the snapshot a `Connect` handler took under `mgr.mu` is still covered when
  it gets `serv.mu`: the corpus may have been minimized meanwhile, but minimization keeps
  the union of the signal (lemma `MinimizedCovers`, which rests only on each element
  having an owner that is kept).
- `SignalReachesAll`, `SignalReported`: `SignalInv` adds `InFlight`: a fuzzer knows what it
  is to report and what its triages have shown, a reply carries signal only while a poll is in flight, and all that is
  queued for a fuzzer is the server's.

`VMLoopProofs` proves all the safety of `VMLoop`, for any finite set of VMs, any titles,
limits and settings (`VMAssumption`), by one inductive invariant, `VMInv`:

- `VMTypes` and `VMInstances` need each other and `ReproSizes`, which says that a reproduction
  has its full number of VMs: `reproInstances` is reduced by `instancesPerRepro`, whatever
  VMs come back. Lemmas `ReproducersAdd` and `ReproducersDrop` count the union of the
  reproductions' VMs.
- `VMOneRepro`: the title taken from the queue is not in what is left of it, since a title
  is queued only if nothing of it is queued or reproduced; and so a reproduction never
  overwrites the VMs of another of the same title, which `VMInstances` needs.
- `VMFailures` needs `OneReproPerTitle`: only the reproduction that ends adds an attempt to
  its title, and the title is then no longer reproduced.
- `VMStops` needs `InstancesAccounted`: a VM that is started was not being waited for.

`FuzzerSchedProofs` proves about `FuzzerSched`, for any procs, supply, bounds and settings
(`SchedAssumption`), that nothing is taken from an empty queue and no candidate is handed
out twice (`SchedTypes`), and `SchedReplaces`, by `StatusLocked`: the settings change in one
direction only (lemma `ResetTurnsOff`), so a poll that needs the mutex when it ends had
locked it, and while it is locked nothing is learnt. The theorem does not say that nothing is
lost: what a fuzzer learnt in a round behind the manager's is discarded by design.

`HubStateProofs` proves all the safety of `HubState`, for any managers and finite sets of
programs and repros, what each manager supports, limits of a reply and bounds
(`HubAssumption`). Programs and repros do not touch each other in the hub, so there are two
inductive invariants:

- `CorpusInv` has the types of what is about programs, `HubMirrors` and `CorpusIsUsed`, and three
  facts that `NothingSkipped` is too weak to keep. `SeenOrAhead` leaves the corpus file out of
  it: the file may lose a program half way through a call, and what was passed over because
  the manager had it must still count. `ReportedIsSeen` says that what a connected manager
  has, it has reported; `UnknownAtZero` that a manager the hub has not heard of has reached
  nothing. `ReplyFacts` is about `pendingInputs`: what a reply does not bring is behind the
  number it reaches or given up. `LoadedSeqFacts` says that the number found by a restart is
  no less than any record or manager's, though no file has the counter.
- `ReproInv` adds `OwnAreSeen`, what is its own a manager has seen, and `SeenIsBehind`, what it has
  seen is not ahead of its number, unless it was the first to bring it and then it is among its
  own until the hub restarts. That numbers never go back, over `Connect`, `AddRepro`,
  `PendingRepro` and a restart, gives `ReprosSentOnce`. A manager that has been sent everything
  skips the numbers of what it adds and nothing else; of what waits, the least is sent, which
  exists (`LeastExists`).
- `HubIsFeed`: `HubState` implements `HubFeed`, by cases on the actions from `CorpusInv`.
  `FeedStep` tells old programs from new ones by their numbers, `ReplyIsPrefix` says that a
  reply brings or gives up exactly what is numbered up to where it reaches, `SyncFeeds` needs
  `CorpusIsUsed` to show that a sync purges nothing that the same call adds again.

`CorpusDBProofs` proves all the safety of `CorpusDB`, for any finite set of keys, any values,
compaction ratio and bounds (`DBAssumption`):

- `DBInvHolds`: `DBInv` adds `PendingIsHistory`, the pending entries are the changes since the
  last flush in their order, and `FileFits`, the file reads as that flush left it but for
  keys that are pending, and exactly so if no append has failed. `OpenFindsAPrefix`,
  `OpenFindsOwnValues` and `MirroredOnDisk` (`RecordsAreMirrored`) follow; that a failed append may
  be repeated behind its own first part rests on `Applied` taking the last entry of a key.
- `DBIsDurableMap`: `CorpusDB` implements `DurableMap`, from `DBInv` and `ChangesAreReal` (each
  pending entry changed its key, so that `Brought` finds the keys touched by looking at the
  maps alone). `CutIsPartly` maps the first part of an append that was written, `CutBehindTorn`
  and `ReadBehindTorn` the writes behind a torn record.

`TriageSyncProofs` proves `TypeCorrect` and `OnlyBegunIsDropped` for any fuzzers, programs (which of
them may not parse), calls, batch sizes and bounds (`TriageAssumption`). The action property,
by which the fuzzer that has begun the program still runs, needs one thing of the state
it starts in, `DoneIsBegun`: a record that says "started" is of a program which that fuzzer has
begun. Only `CompleteTriage` sets it, in the step that begins the program, and a crash takes
both away.

`Extrema` proves what `CHOOSE` in `Min` and `Max` of the community modules returns, from
the well-foundedness of the natural numbers: a minimal counterexample takes the place of an
induction, whose theorems have an operator for a parameter that no prover here can
instantiate. All proofs rest on the standard library's facts about finite sets, functions,
sequences and well-founded relations, and on no other assumption than those named above.

Only model-checked:

- liveness under fairness, which is out of the prover's reach: `DrainEnds`, `ReportedIsBegun`,
  `EventuallySent`, `ReproServed`, `HubServed`, `ShutdownEnds`, `BanditEnds`, `CandidatesExecuted`,
  `ProcsGoOn`;
- the four violations, which are about what the code does not keep.

Every invariant, action property and refinement that a passing run checks is a theorem.
Where `tlapm` cannot reason about a recursive operator of the community modules, the model
says what it means instead: `Applied` takes the last entry of each key rather than folding over
them, and `TriageSync` speaks of places in the buffer rather than of a sequence put together.

## 6. Not modelled

- The bandit's weights, the gains of single seeds (`CorpusGLC`) and the choice of a program
  by priority (`addInputToCorpus`, `chooseProgram`): floating-point sums. The models have all
  choices instead.
- Mutation, generation and minimization of programs, hints and smashing: transformations of
  data. What they execute is an input of the models.
- Crash reproduction (`pkg/repro`): a sequential search whose outcome is the kernel's; the VM
  loop has its start and end.
- The executor and VM back ends: C++ code and I/O. `syz-ci`, bisection and the dashboard:
  services of their own on git, build tools and a cloud datastore.
- The description compiler, report parsing and the tools: text processing.
- In the modelled parts: `syncSmash`, `rotateCorpus` (dead code behind `false &&`), HTTP pages,
  statistics, authentication, the version of the database's header, e-mails.

More than four fifths of the code in the repository, some 450,000 lines, are tables generated
from system-call descriptions (`sys/*/gen`), and most of the rest is the tool set listed
above. The code that runs as concurrent threads and processes over shared state is the
7,000 lines of `syz-manager`, `syz-fuzzer`, `syz-hub`, `pkg/db` and `pkg/ipc/gate.go`; the
models are about these, so the share of all lines that they stand for stays small.
`PROJECT.json` lists each part that is left out with its reason.

## 7. Plan

1. Abstract specifications, with the refinement proved as for the gate, the database and the
   hub: a set of programs with the union of their signal, for `ManagerCorpus`; a pool of
   resources, for `VMLoop`.
2. `BumpVersion` and the version of the database's header (`db.go:103`), with the candidates
   that an old version makes the manager minimize again (`manager.go:459-470`).
3. `CorpusPrios`: the indices of `corpus`, `corpusHashes` and `corpusPriosSum` under
   concurrent additions and choices.
