--------------------------- MODULE ManagerCorpus ---------------------------
(***************************************************************************)
(* The corpus of syz-manager and the signal it shares with the fuzzers in  *)
(* its VMs: Manager (manager.go: phases, candidates, corpus, persistent    *)
(* corpus) behind mgr.mu, RPCServer (rpc.go: fuzzers, maxSignal,           *)
(* corpusSignal) behind serv.mu, and of each fuzzer what these depend on   *)
(* (fuzzer.go: maxSignal, newSignal, corpusSignal, the candidates queued   *)
(* and the triages pending).  VMs crash at any moment; the manager itself  *)
(* may be restarted and then has corpus.db only.                           *)
(*                                                                         *)
(* An action is one critical section of mgr.mu or serv.mu.  An RPC handler *)
(* that takes both (Connect, NewInput) is split where the other lock's     *)
(* users can come in between.  A signal is a set: an element that a higher *)
(* priority would make new again stands as one more element.  Rotation     *)
(* (rpc.go:126, `false &&`) is dead code, so f.rotatedSignal is nil.       *)
(***************************************************************************)
EXTENDS Integers, FiniteSets, Sequences

CONSTANTS
    VMs,            \* names of the VMs, which are names of fuzzers
    Progs,          \* programs; the key of a record is the hash of its program
    Elems,          \* elements of coverage signal
    Signals,        \* [Progs -> SUBSET SUBSET Elems]: what an execution may show
    Minimal,        \* [Progs -> SUBSET Progs]: what prog.Minimize may make of it
    Seeds,          \* the records of corpus.db when the manager first starts
    DisabledProgs,  \* programs with a syscall this machine does not support
    BrokenProgs,    \* records of corpus.db that do not parse any more
    Flaky,          \* re-executions may fail to show a signal again
    Generated,      \* programs a fuzzer may generate or mutate by itself
    Garbled,        \* programs whose text may not parse at the manager
    HubProgs,       \* programs other managers have put on the hub
    HubClient,      \* cfg.HubClient # ""
    Procs,          \* wq.procs
    BatchSize,      \* serv.batchSize
    SplitSize,      \* the 500 of f.newMaxSignal.Split(500)
    MaxCrashes,     \* bound: VM crashes over the whole run
    MaxRestarts     \* bound: restarts of the manager

ASSUME CorpusAssumption ==
    /\ IsFiniteSet(Progs)
    /\ Signals \in [Progs -> SUBSET SUBSET Elems]
    /\ Minimal \in [Progs -> SUBSET Progs]
    /\ Seeds \subseteq Progs /\ DisabledProgs \subseteq Progs
    /\ BrokenProgs \subseteq Progs \ DisabledProgs
    /\ Generated \subseteq Progs /\ HubProgs \subseteq Progs /\ Garbled \subseteq Progs
    /\ HubClient \in BOOLEAN /\ Flaky \in BOOLEAN
    /\ Procs \in Nat \ {0} /\ BatchSize \in Nat \ {0} /\ SplitSize \in Nat \ {0}
    /\ MaxCrashes \in Nat /\ MaxRestarts \in Nat

\* Manager.phase (manager.go:90-103).
PhaseInit == 0
PhaseLoadedCorpus == 1
PhaseTriagedCorpus == 2
PhaseQueriedHub == 3
PhaseTriagedHub == 4

VARIABLES
    phase,          \* mgr.phase
    candidates,     \* mgr.candidates: sequence of [prog, minimized]
    disabledHashes, \* mgr.disabledHashes
    corpus,         \* mgr.corpus: [Progs -> SUBSET Elems], {} where there is no entry
    lastMinCorpus,  \* mgr.lastMinCorpus
    db,             \* the keys of mgr.corpusDB.Records
    hub,            \* hubSyncLoop: "off", "minimize" or "receive"
    hubLeft,        \* hub programs not sent to this manager yet
    checked,        \* serv.checkResult # nil
    maxSignal,      \* serv.maxSignal
    corpusSignal,   \* serv.corpusSignal
    inputs,         \* serv.fuzzers[name].inputs: set of [prog, signal]
    newMaxSignal,   \* serv.fuzzers[name].newMaxSignal
    accepting,      \* {}, or the input a NewInput handler has stored and not merged yet
    vm,             \* each VM: "down", "connecting", "checking" or "up"
    snapshot,       \* the corpus its Connect handler got from fuzzerConnect
    fuzzer,         \* the state of each syz-fuzzer
    unstored,       \* history: signal of the inputs of each fuzzer that NewInput threw away
    crashes, restarts

mgrVars == <<phase, candidates, disabledHashes, corpus, lastMinCorpus, db>>
hubVars == <<hub, hubLeft>>
servVars == <<checked, maxSignal, corpusSignal, inputs, newMaxSignal, accepting>>
vmVars == <<vm, snapshot, fuzzer, unstored>>
vars == <<mgrVars, hubVars, servVars, vmVars, crashes, restarts>>

Input == [prog : Progs, signal : SUBSET Elems]
Candidate == [prog : Progs, minimized : BOOLEAN]
Triage == [prog : Progs, minimized : BOOLEAN, signal : SUBSET Elems]

\* A syz-fuzzer: its three signals, its candidate queue (candidates come off
\* the end), its triage queue, and the poll reply on its way to it.
Fuzzer == [maxSignal : SUBSET Elems, newSignal : SUBSET Elems, corpusSignal : SUBSET Elems,
           queue : Seq(Candidate), triages : SUBSET Triage,
           polling : BOOLEAN, gotSignal : SUBSET Elems, gotInputs : SUBSET Input,
           gotCandidates : Seq(Candidate)]

NewFuzzer == [maxSignal |-> {}, newSignal |-> {}, corpusSignal |-> {},
              queue |-> <<>>, triages |-> {},
              polling |-> FALSE, gotSignal |-> {}, gotInputs |-> {}, gotCandidates |-> <<>>]

TypeOK ==
    /\ phase \in PhaseInit .. PhaseTriagedHub
    /\ candidates \in Seq(Candidate)
    /\ disabledHashes \subseteq Progs
    /\ corpus \in [Progs -> SUBSET Elems]
    /\ lastMinCorpus \in Nat
    /\ db \subseteq Progs
    /\ hub \in {"off", "minimize", "receive"}
    /\ hubLeft \subseteq HubProgs
    /\ checked \in BOOLEAN
    /\ maxSignal \subseteq Elems
    /\ corpusSignal \subseteq Elems
    /\ inputs \in [VMs -> SUBSET Input]
    /\ newMaxSignal \in [VMs -> SUBSET Elems]
    /\ accepting \subseteq [vm : VMs, input : Input]
    /\ vm \in [VMs -> {"down", "connecting", "checking", "up"}]
    /\ snapshot \in [VMs -> SUBSET Input]
    /\ fuzzer \in [VMs -> Fuzzer]
    /\ unstored \in [VMs -> SUBSET Elems]
    /\ crashes \in Nat
    /\ restarts \in Nat

InitManager ==
    /\ phase = PhaseInit
    /\ candidates = <<>>
    /\ disabledHashes = {}
    /\ corpus = [p \in Progs |-> {}]
    /\ lastMinCorpus = 0
    /\ hub = "off"

InitServer ==
    /\ checked = FALSE
    /\ maxSignal = {}
    /\ corpusSignal = {}
    /\ inputs = [v \in VMs |-> {}]
    /\ newMaxSignal = [v \in VMs |-> {}]
    /\ accepting = {}

InitVMs ==
    /\ vm = [v \in VMs |-> "down"]
    /\ snapshot = [v \in VMs |-> {}]
    /\ fuzzer = [v \in VMs |-> NewFuzzer]
    /\ unstored = [v \in VMs |-> {}]

Init ==
    /\ InitManager
    /\ db = Seeds
    /\ hubLeft = HubProgs
    /\ InitServer
    /\ InitVMs
    /\ crashes = 0 /\ restarts = 0

-----------------------------------------------------------------------------
(* Manager: critical sections of mgr.mu.                                   *)

Keys(c) == {p \in Progs : c[p] # {}}
SignalOf(c) == UNION {c[p] : p \in Progs}

\* Mutant: an input goes as soon as one of its elements is covered.
MinimizedKeysDisjoint(c) ==
    {K \in SUBSET Keys(c) :
        /\ \A p, q \in K : p # q => c[p] \cap c[q] = {}
        /\ \A p \in Keys(c) \ K : \E q \in K : c[p] \cap c[q] # {}}

\* signal.Minimize: each covered element keeps the input that is first, in the
\* order of the map iteration, among those that have it; the others go.
MinimizedKeys(c) ==
    {{owner[e] : e \in SignalOf(c)} : owner \in
        {o \in [SignalOf(c) -> Keys(c)] :
            /\ \A e \in SignalOf(c) : e \in c[o[e]]
            /\ \E rank \in [Keys(c) -> 1 .. Cardinality(Keys(c))] :
                  \A e \in SignalOf(c) : \A p \in Keys(c) \ {o[e]} :
                      e \in c[p] => rank[o[e]] < rank[p]}}

\* What is left of corpus.db when the corpus has been minimized to K.
KeptRecords(K) == db \cap (K \cup disabledHashes)

\* minimizeCorpus: at 3% growth the corpus is minimized, and from
\* phaseTriagedCorpus on corpus.db is cut down to it and to the disabled programs.
MinimizeCorpus ==
    \/ /\ phase < PhaseLoadedCorpus \/ Cardinality(Keys(corpus)) <= (lastMinCorpus * 103) \div 100
       /\ UNCHANGED <<corpus, lastMinCorpus, db>>
    \/ /\ phase >= PhaseLoadedCorpus
       /\ Cardinality(Keys(corpus)) > (lastMinCorpus * 103) \div 100
       /\ \E K \in MinimizedKeys(corpus) :
             /\ corpus' = [p \in Progs |-> IF p \in K THEN corpus[p] ELSE {}]
             /\ lastMinCorpus' = Cardinality(K)
             /\ db' = IF phase < PhaseTriagedCorpus THEN db ELSE KeptRecords(K)

\* newInput: an input already there merges its signal, a new one goes to disk.
StoreInput(inp) ==
    /\ corpus' = [corpus EXCEPT ![inp.prog] = @ \cup inp.signal]
    /\ db' = db \cup {inp.prog}

\* candidateBatch(size): the last `size` candidates, and the phase when none are left.
BatchOf(size) == IF Len(candidates) < size THEN Len(candidates) ELSE size

CandidateBatch(size) ==
    /\ candidates' = SubSeq(candidates, 1, Len(candidates) - BatchOf(size))
    /\ phase' = IF candidates' # <<>> THEN phase
                ELSE IF phase = PhaseLoadedCorpus
                     THEN IF HubClient THEN PhaseTriagedCorpus ELSE PhaseTriagedHub
                     ELSE IF phase = PhaseQueriedHub THEN PhaseTriagedHub ELSE phase
    /\ hub' = IF phase = PhaseLoadedCorpus /\ phase' = PhaseTriagedCorpus THEN "minimize" ELSE hub

Batch(size) == SubSeq(candidates, Len(candidates) - BatchOf(size) + 1, Len(candidates))

\* The orders map iteration and rand.Shuffle can put a set of programs in.
Orders(S) == {s \in [1 .. Cardinality(S) -> S] : \A p \in S : \E i \in DOMAIN s : s[i] = p}

\* loadCorpus: every record that parses and is enabled twice, the second copies
\* shuffled; records that do not parse are deleted.
LoadCandidates ==
    LET enabled == db \ (DisabledProgs \cup BrokenProgs)
        asCandidates(s) == [i \in DOMAIN s |-> [prog |-> s[i], minimized |-> TRUE]]
    IN  \E first, second \in Orders(enabled) :
            candidates' = candidates \o asCandidates(first) \o asCandidates(second)

\* Mutant: disabled programs are skipped without remembering their hashes.
LoadCorpusForgetful ==
    /\ LoadCandidates
    /\ db' = db \ BrokenProgs
    /\ phase' = PhaseLoadedCorpus
    /\ UNCHANGED disabledHashes

LoadCorpus ==
    /\ LoadCandidates
    /\ db' = db \ BrokenProgs
    /\ disabledHashes' = disabledHashes \cup (db \cap DisabledProgs)
    /\ phase' = PhaseLoadedCorpus

-----------------------------------------------------------------------------
(* RPCServer: Connect, Check, NewInput and Poll.                           *)

ServFree == accepting = {}

\* Connect, first half: mgr.fuzzerConnect() under mgr.mu only.
FuzzerConnect(v) ==
    /\ vm[v] = "down"
    /\ MinimizeCorpus
    /\ snapshot' = [snapshot EXCEPT ![v] = {[prog |-> p, signal |-> corpus'[p]] : p \in Keys(corpus')}]
    /\ vm' = [vm EXCEPT ![v] = "connecting"]
    /\ UNCHANGED <<phase, candidates, disabledHashes, hubVars, servVars, fuzzer, unstored,
                   crashes, restarts>>

\* Mutant: the new fuzzer is not given the signal found before it connected.
ConnectNoSignal(v) ==
    /\ vm[v] = "connecting" /\ ServFree
    /\ inputs' = [inputs EXCEPT ![v] = snapshot[v]]
    /\ newMaxSignal' = [newMaxSignal EXCEPT ![v] = {}]
    /\ snapshot' = [snapshot EXCEPT ![v] = {}]
    /\ vm' = [vm EXCEPT ![v] = IF checked THEN "up" ELSE "checking"]
    /\ UNCHANGED <<mgrVars, hubVars, checked, maxSignal, corpusSignal, accepting, fuzzer,
                   unstored, crashes, restarts>>

\* Connect, second half: the fuzzer's record, from the snapshot taken before.
Connect(v) ==
    /\ vm[v] = "connecting" /\ ServFree
    /\ inputs' = [inputs EXCEPT ![v] = snapshot[v]]
    /\ newMaxSignal' = [newMaxSignal EXCEPT ![v] = maxSignal]
    /\ snapshot' = [snapshot EXCEPT ![v] = {}]
    /\ vm' = [vm EXCEPT ![v] = IF checked THEN "up" ELSE "checking"]
    /\ UNCHANGED <<mgrVars, hubVars, checked, maxSignal, corpusSignal, accepting, fuzzer, unstored,
                   crashes, restarts>>

\* Check, from a fuzzer whose ConnectRes had no CheckResult: the first one loads
\* the corpus, the others find serv.checkResult set.
Check(v) ==
    /\ vm[v] = "checking" /\ ServFree
    /\ vm' = [vm EXCEPT ![v] = "up"]
    /\ \/ checked /\ UNCHANGED <<candidates, disabledHashes, phase, db, checked>>
       \/ ~checked /\ LoadCorpus /\ checked' = TRUE
    /\ UNCHANGED <<corpus, lastMinCorpus, hubVars, maxSignal, corpusSignal, inputs,
                   newMaxSignal, accepting, snapshot, fuzzer, unstored, crashes, restarts>>

\* addInputToCorpus at the end of triageInput, whatever NewInput has done.
Added(f, t, inp) == [f EXCEPT !.triages = @ \ {t}, !.corpusSignal = @ \cup inp.signal,
                              !.maxSignal = @ \cup inp.signal]

\* NewInput for a program that does not parse, which happens "episodically, reason
\* unknown": it returns without an error, before it takes serv.mu and with nothing
\* stored or merged, and the fuzzer adds the input to its own corpus all the same.
NewInputUnread(v, t, inp) ==
    /\ inp.prog \in Garbled
    /\ fuzzer' = [fuzzer EXCEPT ![v] = Added(@, t, inp)]
    /\ unstored' = [unstored EXCEPT ![v] = @ \cup inp.signal]
    /\ UNCHANGED <<mgrVars, servVars>>

\* NewInput for an input with no signal beyond corpusSignal returns at once; the
\* fuzzer adds this one to its own corpus too.
NewInputKnown(v, t, inp) ==
    /\ ServFree
    /\ inp.signal \subseteq corpusSignal
    /\ fuzzer' = [fuzzer EXCEPT ![v] = Added(@, t, inp)]
    /\ UNCHANGED <<mgrVars, servVars, unstored>>

\* NewInput for a genuine input, first half: mgr.newInput() under mgr.mu, with
\* serv.mu held to the end of the handler.
NewInputStore(v, t, inp) ==
    /\ ServFree
    /\ ~(inp.signal \subseteq corpusSignal)
    /\ StoreInput(inp)
    /\ accepting' = {[vm |-> v, input |-> inp]}
    /\ fuzzer' = [fuzzer EXCEPT ![v].triages = @ \ {t}]
    /\ UNCHANGED <<phase, candidates, disabledHashes, lastMinCorpus, checked, maxSignal,
                   corpusSignal, inputs, newMaxSignal, unstored>>

\* NewInput, second half: merge the signal, queue the input for the other
\* fuzzers, and on its return the sender adds it to its own corpus.
NewInputMerge ==
    /\ \E a \in accepting :
          /\ corpusSignal' = corpusSignal \cup a.input.signal
          \* (Connect overwrites what this queues for a VM that never connected.)
          /\ inputs' = [w \in VMs |-> IF w = a.vm THEN inputs[w] ELSE inputs[w] \cup {a.input}]
          /\ fuzzer' = IF vm[a.vm] # "up" THEN fuzzer
                       ELSE [fuzzer EXCEPT ![a.vm].corpusSignal = @ \cup a.input.signal,
                                           ![a.vm].maxSignal = @ \cup a.input.signal]
    /\ accepting' = {}
    /\ UNCHANGED <<mgrVars, hubVars, checked, maxSignal, newMaxSignal, vm, snapshot,
                   unstored, crashes, restarts>>

Parts(S, n) == {T \in SUBSET S : Cardinality(T) = (IF Cardinality(S) < n THEN Cardinality(S) ELSE n)}

\* Poll: the fuzzer hands over the signal it found since its last poll; what is
\* new to the manager goes to every other fuzzer.  It gets part of the signal
\* the others found, and a batch of candidates or else of inputs.
Poll(v, needCandidates) ==
    LET f == fuzzer[v]
        new == f.newSignal \ maxSignal
        cands == IF needCandidates THEN Batch(BatchSize) ELSE <<>>
    IN  /\ vm[v] = "up" /\ ~f.polling /\ ServFree
        /\ needCandidates => Len(f.queue) < Procs
        /\ maxSignal' = maxSignal \cup new
        /\ IF needCandidates THEN CandidateBatch(BatchSize)
                             ELSE UNCHANGED <<candidates, phase, hub>>
        /\ \E sig \in Parts(newMaxSignal[v], SplitSize),
              ins \in IF cands # <<>> THEN {{}} ELSE Parts(inputs[v], BatchSize) :
              /\ newMaxSignal' = [w \in VMs |-> IF w = v THEN newMaxSignal[v] \ sig
                                                ELSE newMaxSignal[w] \cup new]
              /\ inputs' = [inputs EXCEPT ![v] = @ \ ins]
              /\ fuzzer' = [fuzzer EXCEPT ![v].newSignal = {}, ![v].polling = TRUE,
                               ![v].gotSignal = sig, ![v].gotInputs = ins,
                               ![v].gotCandidates = cands]
        /\ UNCHANGED <<disabledHashes, corpus, lastMinCorpus, db, hubLeft, checked, corpusSignal,
                       accepting, vm, snapshot, unstored, crashes, restarts>>

-----------------------------------------------------------------------------
(* The fuzzer and its VM.                                                  *)

\* Mutant: signal others have found counts as corpus signal.
LearntAsCorpus(f) ==
    LET ofInputs == UNION {inp.signal : inp \in f.gotInputs}
    IN  [f EXCEPT !.maxSignal = @ \cup f.gotSignal \cup ofInputs,
                  !.corpusSignal = @ \cup f.gotSignal \cup ofInputs]

\* The rest of Fuzzer.poll, when the reply has arrived: the signal of others is
\* known, that of new inputs is in the corpus as well, candidates are queued.  (A
\* program of the reply that does not parse ends the fuzzer: that is a Crash.)
Learnt(f) ==
    LET ofInputs == UNION {inp.signal : inp \in f.gotInputs}
    IN  [f EXCEPT !.maxSignal = @ \cup f.gotSignal \cup ofInputs,
                  !.corpusSignal = @ \cup ofInputs]

PollReply(v) ==
    /\ vm[v] = "up" /\ fuzzer[v].polling
    /\ fuzzer' = [fuzzer EXCEPT
          ![v] = [Learnt(fuzzer[v]) EXCEPT !.queue = @ \o fuzzer[v].gotCandidates,
                      !.polling = FALSE, !.gotSignal = {}, !.gotInputs = {},
                      !.gotCandidates = <<>>]]
    /\ UNCHANGED <<mgrVars, hubVars, servVars, vm, snapshot, unstored, crashes, restarts>>

\* Mutant: the signal to report is that of the last execution only.
ExecutedLast(f, c, sig) ==
    IF sig \subseteq f.maxSignal THEN f
    ELSE [f EXCEPT !.maxSignal = @ \cup sig,
                   !.newSignal = sig \ f.maxSignal,
                   !.triages = @ \cup {[prog |-> c.prog, minimized |-> c.minimized, signal |-> sig]}]

\* Proc.execute and checkNewSignal: new signal is recorded and queued for triage.
Executed(f, c, sig) ==
    IF sig \subseteq f.maxSignal THEN f
    ELSE [f EXCEPT !.maxSignal = @ \cup sig,
                   !.newSignal = @ \cup (sig \ f.maxSignal),
                   !.triages = @ \cup {[prog |-> c.prog, minimized |-> c.minimized, signal |-> sig]}]

\* A proc takes the last candidate off the work queue and executes it.
ExecuteCandidate(v) ==
    LET f == fuzzer[v]
        c == f.queue[Len(f.queue)]
    IN  /\ vm[v] = "up" /\ f.queue # <<>>
        /\ \E sig \in Signals[c.prog] :
              fuzzer' = [fuzzer EXCEPT ![v] =
                  Executed([f EXCEPT !.queue = SubSeq(@, 1, Len(@) - 1)], c, sig)]
        /\ UNCHANGED <<mgrVars, hubVars, servVars, vm, snapshot, unstored, crashes, restarts>>

\* A proc executes a program it generated or mutated.  (One that shows nothing
\* new changes nothing.)
ExecuteGenerated(v, p) ==
    /\ vm[v] = "up"
    /\ \E sig \in Signals[p] :
          /\ ~(sig \subseteq fuzzer[v].maxSignal)
          /\ fuzzer' = [fuzzer EXCEPT ![v] =
                Executed(@, [prog |-> p, minimized |-> FALSE], sig)]
    /\ UNCHANGED <<mgrVars, hubVars, servVars, vm, snapshot, unstored, crashes, restarts>>

\* triageInput ends with nothing to send: the signal has meanwhile come into the
\* corpus, or the re-executions do not show it again.
TriageDrop(v, t) ==
    /\ vm[v] = "up"
    /\ Flaky \/ t.signal \subseteq fuzzer[v].corpusSignal
    /\ fuzzer' = [fuzzer EXCEPT ![v].triages = @ \ {t}]
    /\ UNCHANGED <<mgrVars, hubVars, servVars, vm, snapshot, unstored, crashes, restarts>>

\* triageInput ends with an input for the manager: the program, minimized unless
\* it came minimized, with the signal of the execution that queued it.  (That the
\* signal is new to the fuzzer's corpus is tested at the start of triageInput, which
\* a proc may reach as soon as the triage is queued; it is not tested again.)
TriageSend(v, t) ==
    /\ vm[v] = "up"
    /\ \E p \in IF t.minimized THEN {t.prog} ELSE Minimal[t.prog] :
          LET inp == [prog |-> p, signal |-> t.signal]
          IN  NewInputUnread(v, t, inp) \/ NewInputKnown(v, t, inp) \/ NewInputStore(v, t, inp)
    /\ UNCHANGED <<hubVars, vm, snapshot, crashes, restarts>>

\* The VM crashes (or is stopped) and all its fuzzer knew is gone.  The server
\* keeps the fuzzer's record until the next Connect replaces it.
Crash(v) ==
    /\ vm[v] # "down" /\ crashes < MaxCrashes
    /\ vm' = [vm EXCEPT ![v] = "down"]
    /\ snapshot' = [snapshot EXCEPT ![v] = {}]
    /\ fuzzer' = [fuzzer EXCEPT ![v] = NewFuzzer]
    /\ unstored' = [unstored EXCEPT ![v] = {}]
    /\ crashes' = crashes + 1
    /\ UNCHANGED <<mgrVars, hubVars, servVars, restarts>>

-----------------------------------------------------------------------------
(* The hub loop (syz-manager/hub.go:55-74) and manager restarts.           *)

\* getMinimizedCorpus.
HubMinimize ==
    /\ hub = "minimize"
    /\ MinimizeCorpus
    /\ hub' = "receive"
    /\ UNCHANGED <<phase, candidates, disabledHashes, hubLeft, servVars, vmVars,
                   crashes, restarts>>

\* Mutant: the phase advances with every reply of the hub.
PhaseAfterHubAlways == phase + 1

PhaseAfterHub == IF phase = PhaseTriagedCorpus THEN PhaseQueriedHub ELSE phase

\* One Hub.Sync reply: addNewCandidates, also of an empty list.  The loop
\* repeats the call until a reply is empty, then sleeps and minimizes again.  (The
\* empty programs that the hub puts in a reply, state.go:315, are left out: they
\* become candidates like others, but their execution shows nothing.)
HubReceive ==
    /\ hub = "receive"
    /\ \E ps \in SUBSET hubLeft : \E s \in Orders(ps) :
          /\ candidates' = candidates \o [i \in DOMAIN s |-> [prog |-> s[i], minimized |-> FALSE]]
          /\ hubLeft' = hubLeft \ ps
          /\ hub' = IF ps = {} THEN "minimize" ELSE "receive"
    /\ phase' = PhaseAfterHub
    /\ UNCHANGED <<disabledHashes, corpus, lastMinCorpus, db, servVars, vmVars,
                   crashes, restarts>>

\* The manager process ends and is started again: its VMs are gone, and of its
\* own state corpus.db is left.
Restart ==
    /\ restarts < MaxRestarts
    /\ restarts' = restarts + 1
    /\ phase' = PhaseInit /\ candidates' = <<>> /\ disabledHashes' = {}
    /\ corpus' = [p \in Progs |-> {}] /\ lastMinCorpus' = 0 /\ hub' = "off"
    /\ checked' = FALSE /\ maxSignal' = {} /\ corpusSignal' = {} /\ accepting' = {}
    /\ inputs' = [v \in VMs |-> {}] /\ newMaxSignal' = [v \in VMs |-> {}]
    /\ vm' = [v \in VMs |-> "down"] /\ snapshot' = [v \in VMs |-> {}]
    /\ fuzzer' = [v \in VMs |-> NewFuzzer]
    /\ unstored' = [v \in VMs |-> {}]
    /\ UNCHANGED <<db, hubLeft, crashes>>

-----------------------------------------------------------------------------
VMStep(v) ==
    \/ FuzzerConnect(v) \/ Connect(v) \/ Check(v)
    \/ \E need \in BOOLEAN : Poll(v, need)
    \/ PollReply(v)
    \/ ExecuteCandidate(v)
    \/ \E t \in fuzzer[v].triages : TriageDrop(v, t) \/ TriageSend(v, t)

Next ==
    \/ \E v \in VMs : VMStep(v)
    \/ \E v \in VMs : Crash(v)
    \/ \E v \in VMs, p \in Generated : ExecuteGenerated(v, p)
    \/ NewInputMerge
    \/ HubMinimize \/ HubReceive
    \/ Restart

Spec == Init /\ [][Next]_vars

-----------------------------------------------------------------------------
\* Minimization never loses coverage: what the server reports as covered is the
\* signal of the corpus, but for the one input whose NewInput is half done
\* (manager.go:883-903 against rpc.go:317-323).
CorpusCoversSignal ==
    SignalOf(corpus) = corpusSignal \cup UNION {a.input.signal : a \in accepting}

\* Every input of the corpus, and every seed that this machine cannot run, is in
\* corpus.db, whatever minimizeCorpus deleted in this life of the manager or an
\* earlier one: killed at any moment, it starts again with all of its coverage
\* (manager.go:905-914, and "remember its hash so it is not deleted", 485-488).
PersistentCorpus == Keys(corpus) \cup (Seeds \cap DisabledProgs) \subseteq db

\* A fuzzer holds signal for covered (and skips triages for it) that the manager's
\* corpus does not cover only if it is that of an input the fuzzer itself has sent
\* in this life and the manager could not parse (rpc.go:292-296, proc.go:551-567);
\* and no such coverage is passed on, whatever order signal and inputs arrive in.
NoPhantomCoverage ==
    \A v \in VMs :
        /\ fuzzer[v].corpusSignal \subseteq corpusSignal \cup unstored[v]
        /\ \A inp \in inputs[v] \cup fuzzer[v].gotInputs : inp.signal \subseteq corpusSignal

\* Signal that one fuzzer found and reported reaches every other: the manager's
\* maximal signal is known to each running fuzzer, queued for it or on its way.
MaxSignalReachesAll ==
    \A v \in VMs : vm[v] \in {"checking", "up"} =>
        maxSignal \subseteq fuzzer[v].maxSignal \cup fuzzer[v].gotSignal \cup newMaxSignal[v]

\* The signal a fuzzer has is accounted for: known to the manager or to be sent.
FoundSignalReported ==
    \A v \in VMs : fuzzer[v].maxSignal \subseteq
        maxSignal \cup corpusSignal \cup fuzzer[v].newSignal

-----------------------------------------------------------------------------
\* "Don't minimize persistent corpus until fuzzers have triaged all inputs from
\* it" (manager.go:905): no record is deleted from corpus.db while a copy of it
\* still waits in the manager or in a fuzzer, to be executed or triaged.
Waiting(p) ==
    \/ \E i \in DOMAIN candidates : candidates[i].prog = p
    \/ \E v \in VMs :
          \/ \E i \in DOMAIN fuzzer[v].queue : fuzzer[v].queue[i].prog = p
          \/ \E i \in DOMAIN fuzzer[v].gotCandidates : fuzzer[v].gotCandidates[i].prog = p
          \/ \E t \in fuzzer[v].triages : t.prog = p
DeletedOnlyTriaged == [][\A p \in Seeds \cap (db \ db') : ~Waiting(p)]_vars
=============================================================================
