------------------------------ MODULE HubState ------------------------------
(***************************************************************************)
(* syz-hub (syz-hub/hub.go, syz-hub/state/state.go) and the connectors of  *)
(* the managers it serves (syz-manager/hub.go).  The hub keeps every       *)
(* program that some manager has, numbers what each call brings, and sends *)
(* a manager what came after the number it has reached; repros travel the  *)
(* same way, one at a time.                                                *)
(*                                                                         *)
(* An RPC is handled under hub.mu in one action, together with the work    *)
(* its caller does on the reply; a fault may lose the request or the reply.*)
(* The hub may end between two calls, or half way through one, and starts  *)
(* again from its directory.  A manager sends programs it can itself       *)
(* execute, and its set of syscalls does not change.  The empty programs   *)
(* that stand in front of those of a reply (state.go:315-316) are left out.*)
(***************************************************************************)
EXTENDS Integers, FiniteSets, FiniteSetsExt

CONSTANTS
    Managers,
    Progs, Repros,
    Supports,       \* [Managers -> SUBSET (Progs \cup Repros)]: by mgr.Calls
    StartCorpus,    \* [Managers -> SUBSET Progs]: of each manager when its hub loop starts
    MaxRecords,     \* maxRecords, 100
    CapRecords,     \* capRecords, 100000
    MaxOps,         \* bound: changes of the managers' corpora and new repros
    MaxFaults       \* bound: lost calls and restarts of the hub

ASSUME HubAssumption ==
    /\ IsFiniteSet(Progs) /\ IsFiniteSet(Repros)
    /\ Supports \in [Managers -> SUBSET (Progs \cup Repros)]
    /\ StartCorpus \in [Managers -> SUBSET Progs]
    /\ \A m \in Managers : StartCorpus[m] \subseteq Supports[m]
    /\ MaxRecords \in Nat /\ CapRecords \in Nat /\ MaxRecords < CapRecords
    /\ MaxOps \in Nat /\ MaxFaults \in Nat

VARIABLES
    \* the hub
    corpusSeq,      \* st.corpusSeq
    reproSeq,       \* st.reproSeq
    corpus,         \* st.Corpus: the seq of each program, 0 if there is no record
    repros,         \* st.Repros, likewise
    known,          \* the keys of st.Managers
    connected,      \* the managers with Connected set
    mgrCorpusSeq,   \* mgr.corpusSeq
    mgrReproSeq,    \* mgr.reproSeq
    mgrCorpus,      \* mgr.Corpus
    ownRepros,      \* mgr.ownRepros
    \* the connector of each manager
    local,          \* the manager's minimized corpus
    hubCorpus,      \* hc.hubCorpus
    newRepros,      \* hc.newRepros
    fresh,          \* the managers with hc.fresh, which started with no corpus
    link,           \* "none" (hub = nil), "idle", or "again" in the loop of sync
    \* history
    seen,           \* programs m reported, was sent or was denied by the cap, since its corpusSeq was 0
    seenRepros,     \* repros m was sent, had added or is not to get as they were there before it
    origin,         \* the manager that was the first to bring each repro to the hub
    resent,         \* <<m, r>>: m was sent r when it was in seenRepros[m] already
    ops, faults, restarts

hubVars == <<corpusSeq, reproSeq, corpus, repros, known, connected, mgrCorpusSeq,
             mgrReproSeq, mgrCorpus, ownRepros>>
clientVars == <<local, hubCorpus, newRepros, fresh, link>>
historyVars == <<seen, seenRepros, origin, resent>>
vars == <<hubVars, clientVars, historyVars, ops, faults, restarts>>

TypeOK ==
    /\ corpusSeq \in Nat /\ reproSeq \in Nat
    /\ corpus \in [Progs -> 0 .. corpusSeq]
    /\ repros \in [Repros -> 0 .. reproSeq]
    /\ connected \subseteq known /\ known \subseteq Managers
    /\ mgrCorpusSeq \in [Managers -> 0 .. corpusSeq]
    /\ mgrReproSeq \in [Managers -> 0 .. reproSeq]
    /\ mgrCorpus \in [Managers -> SUBSET Progs]
    /\ ownRepros \in [Managers -> SUBSET Repros]
    /\ local \in [Managers -> SUBSET Progs]
    /\ hubCorpus \in [Managers -> SUBSET Progs]
    /\ newRepros \in [Managers -> SUBSET Repros]
    /\ fresh \subseteq Managers
    /\ link \in [Managers -> {"none", "idle", "again"}]
    /\ seen \in [Managers -> SUBSET Progs]
    /\ seenRepros \in [Managers -> SUBSET Repros]
    /\ origin \in [Repros -> SUBSET Managers]
    /\ resent \subseteq Managers \X Repros
    /\ ops \in 0 .. MaxOps /\ faults \in 0 .. MaxFaults /\ restarts \in 0 .. faults

ForEach(x) == [m \in Managers |-> x]

Init ==
    /\ corpusSeq = 0 /\ reproSeq = 0
    /\ corpus = [p \in Progs |-> 0] /\ repros = [r \in Repros |-> 0]
    /\ known = {} /\ connected = {}
    /\ mgrCorpusSeq = ForEach(0) /\ mgrReproSeq = ForEach(0)
    /\ mgrCorpus = ForEach({}) /\ ownRepros = ForEach({})
    /\ local = StartCorpus /\ hubCorpus = ForEach({}) /\ newRepros = ForEach({})
    /\ fresh = {m \in Managers : StartCorpus[m] = {}} /\ link = ForEach("none")
    /\ seen = ForEach({}) /\ seenRepros = ForEach({})
    /\ origin = [r \in Repros |-> {}] /\ resent = {}
    /\ ops = 0 /\ faults = 0 /\ restarts = 0

-----------------------------------------------------------------------------
(* The managers' own work, as far as the hub sees it.                      *)

Find(m, p) ==
    /\ ops < MaxOps /\ p \notin local[m] /\ p \in Supports[m]
    /\ local' = [local EXCEPT ![m] = @ \cup {p}]
    /\ ops' = ops + 1
    /\ UNCHANGED <<hubVars, hubCorpus, newRepros, fresh, link, historyVars, faults, restarts>>

Minimize(m, p) ==
    /\ ops < MaxOps /\ p \in local[m]
    /\ local' = [local EXCEPT ![m] = @ \ {p}]
    /\ ops' = ops + 1
    /\ UNCHANGED <<hubVars, hubCorpus, newRepros, fresh, link, historyVars, faults, restarts>>

FindRepro(m, r) ==
    /\ ops < MaxOps /\ r \notin newRepros[m] /\ r \in Supports[m]
    /\ newRepros' = [newRepros EXCEPT ![m] = @ \cup {r}]
    /\ ops' = ops + 1
    /\ UNCHANGED <<hubVars, local, hubCorpus, fresh, link, historyVars, faults, restarts>>

-----------------------------------------------------------------------------
(* The hub's corpus.                                                       *)

Present == {p \in Progs : corpus[p] > 0}

\* Mutant: programs that no manager has any more stay.
PurgedNever(c, has) == c

\* purgeCorpus: what no manager has goes.
Purged(c, has) == [p \in Progs |-> IF \E m \in Managers : p \in has[m] THEN c[p] ELSE 0]

\* addInputs: one number for the call, given to the programs that are new.
SeqAfter(add) == IF add = {} THEN corpusSeq ELSE corpusSeq + 1
Added(c, add) == [p \in Progs |-> IF p \in add /\ c[p] = 0 THEN SeqAfter(add) ELSE c[p]]

\* Mutant: the manager's old corpus file is not removed.
ReplacedKeeps(m) == [mgrCorpus EXCEPT ![m] = @ \cup local[m]]

\* Connect starts the manager's corpus over.
Replaced(m) == [mgrCorpus EXCEPT ![m] = local[m]]

HubConnect(m) ==
    /\ known' = known \cup {m}
    /\ connected' = connected \cup {m}
    /\ mgrCorpusSeq' = [mgrCorpusSeq EXCEPT ![m] = IF m \in fresh THEN 0 ELSE @]
    /\ mgrReproSeq' = [mgrReproSeq EXCEPT ![m] = IF m \in fresh \/ m \notin known THEN reproSeq ELSE @]
    /\ mgrCorpus' = Replaced(m)
    /\ corpusSeq' = SeqAfter(local[m])
    /\ corpus' = Purged(Added(corpus, local[m]), mgrCorpus')
    /\ seen' = [seen EXCEPT ![m] = local[m] \cup (IF m \in fresh THEN {} ELSE @)]
    /\ seenRepros' = [seenRepros EXCEPT ![m] =
          @ \cup (IF m \in fresh \/ m \notin known THEN {r \in Repros : repros[r] > 0} ELSE {})]
    /\ UNCHANGED <<reproSeq, repros, ownRepros, origin, resent>>

\* hc.connect, whose reply may be lost; the connector then starts over.
Connect(m, lost) ==
    /\ link[m] = "none"
    /\ faults + lost <= MaxFaults /\ faults' = faults + lost
    /\ HubConnect(m)
    /\ IF lost = 0
       THEN /\ hubCorpus' = [hubCorpus EXCEPT ![m] = local[m]]
            /\ fresh' = fresh \ {m}
            /\ link' = [link EXCEPT ![m] = "idle"]
       ELSE UNCHANGED <<hubCorpus, fresh, link>>
    /\ UNCHANGED <<local, newRepros, ops, restarts>>

\* The records a manager has still to be sent.
Pending(m, c) ==
    {p \in Progs : c[p] > mgrCorpusSeq[m] /\ p \notin mgrCorpus'[m] /\ p \in Supports[m]}

\* At most CapRecords of them, the last ones.
Capped(P, c) ==
    IF Cardinality(P) <= MaxRecords \/ Cardinality(P) <= CapRecords THEN {P}
    ELSE {K \in SUBSET P : Cardinality(K) = CapRecords /\ \A k \in K, p \in P \ K : c[p] <= c[k]}

\* The number a reply reaches: of record MaxRecords, counting from 0.
Reached(K, c) ==
    CHOOSE s \in {c[k] : k \in K} :
        /\ Cardinality({k \in K : c[k] < s}) <= MaxRecords
        /\ Cardinality({k \in K : c[k] <= s}) > MaxRecords

Fits(K) == Cardinality(K) <= MaxRecords

\* Mutant: the manager is taken to have reached the end although some were cut off.
UptoEnd(K, c, seq) == seq

Upto(K, c, seq) == IF Fits(K) THEN seq ELSE Reached(K, c)

\* pendingInputs: the programs of the reply, the number it reaches, and the
\* programs given up.  Many records are cut off behind the number reached.
Replies(m, c, seq) ==
    IF mgrCorpusSeq[m] = seq THEN {[progs |-> {}, upto |-> seq, givenUp |-> {}]}
    ELSE {[progs |-> {k \in K : Fits(K) \/ c[k] <= Reached(K, c)},
           upto |-> Upto(K, c, seq),
           givenUp |-> Pending(m, c) \ K] :
          K \in Capped(Pending(m, c), c)}

-----------------------------------------------------------------------------
(* The hub's repros.                                                       *)

\* Mutant: a manager that adds a repro skips those it has not been sent yet.
SkipsOwnAlways(m) == TRUE

\* A manager that has been sent everything need not come by its own repro.
SkipsOwn(m) == mgrReproSeq[m] = reproSeq

NewTo(rs) == {r \in rs : repros[r] = 0}

\* Mutant: it is not noted which repros a manager has brought.
OwnedNever(m, new) == ownRepros

Owned(m, new) == [ownRepros EXCEPT ![m] = @ \cup new]

\* AddRepro for each repro of a call, numbered in the order they come in.
AddRepros(m, rs) ==
    LET new == NewTo(rs)
    IN  /\ reproSeq' = reproSeq + Cardinality(new)
        /\ \E seq \in [new -> reproSeq + 1 .. reproSeq']:
              /\ \A q, r \in new : seq[q] = seq[r] => q = r
              /\ repros' = [r \in Repros |-> IF r \in new THEN seq[r] ELSE repros[r]]
        /\ ownRepros' = Owned(m, new)
        /\ origin' = [r \in Repros |-> IF r \in new THEN {m} ELSE origin[r]]

\* PendingRepro, after AddRepro: the first repro behind the number reached.
SendRepro(m, rs, need) ==
    LET at == IF SkipsOwn(m) THEN mgrReproSeq[m] + Cardinality(NewTo(rs)) ELSE mgrReproSeq[m]
        pending == {r \in Repros : repros'[r] > at /\ r \notin ownRepros'[m] /\ r \in Supports[m]}
        sent == {r \in pending : need /\ \A q \in pending : repros'[r] <= repros'[q]}
    IN  /\ mgrReproSeq' = [mgrReproSeq EXCEPT ![m] =
              IF ~need THEN at ELSE IF sent = {} THEN reproSeq' ELSE Min({repros'[r] : r \in sent})]
        /\ seenRepros' = [seenRepros EXCEPT ![m] = @ \cup NewTo(rs) \cup sent]
        /\ resent' = resent \cup {<<m, r>> : r \in sent \cap (seenRepros[m] \cup NewTo(rs))}

HubSync(m, add, del, rs, need) ==
    /\ mgrCorpus' = [mgrCorpus EXCEPT ![m] = (@ \ del) \cup add]
    /\ corpusSeq' = SeqAfter(add)
    /\ corpus' = Added(IF del = {} THEN corpus
                       ELSE Purged(corpus, [mgrCorpus EXCEPT ![m] = @ \ del]), add)
    /\ AddRepros(m, rs)
    /\ SendRepro(m, rs, need)
    /\ UNCHANGED <<known, connected>>

Replied(m, rep, add) ==
    /\ mgrCorpusSeq' = [mgrCorpusSeq EXCEPT ![m] = rep.upto]
    /\ seen' = [seen EXCEPT ![m] = @ \cup add \cup rep.progs \cup rep.givenUp]

-----------------------------------------------------------------------------
(* hc.sync: the first call of the loop reports what has changed, the calls *)
(* after it are empty, until a reply is.                                   *)

Adds(m) == local[m] \ hubCorpus[m]
Dels(m) == hubCorpus[m] \ local[m]

Sync(m, need, lost) ==
    /\ link[m] = "idle" /\ m \in connected
    /\ faults + lost <= MaxFaults /\ faults' = faults + lost
    /\ HubSync(m, Adds(m), Dels(m), newRepros[m], need)
    /\ \E rep \in Replies(m, corpus', corpusSeq') :
          /\ Replied(m, rep, Adds(m))
          /\ link' = [link EXCEPT ![m] = IF lost = 1 THEN "none"
                                         ELSE IF rep.progs = {} THEN "idle" ELSE "again"]
    /\ hubCorpus' = [hubCorpus EXCEPT ![m] = local[m]]
    /\ newRepros' = [newRepros EXCEPT ![m] = IF lost = 1 THEN @ ELSE {}]
    /\ UNCHANGED <<local, fresh, ops, restarts>>

SyncAgain(m, lost) ==
    /\ link[m] = "again" /\ m \in connected
    /\ faults + lost <= MaxFaults /\ faults' = faults + lost
    /\ HubSync(m, {}, {}, {}, FALSE)
    /\ \E rep \in Replies(m, corpus', corpusSeq') :
          /\ Replied(m, rep, {})
          /\ link' = [link EXCEPT ![m] = IF lost = 1 THEN "none"
                                         ELSE IF rep.progs = {} THEN "idle" ELSE "again"]
    /\ UNCHANGED <<local, hubCorpus, newRepros, fresh, ops, restarts>>

\* The connector drops the connection when a call fails.  (What hc.hubCorpus has
\* by then is replaced by the next connect.)
Disconnect(m) ==
    /\ link[m] # "none"
    /\ hubCorpus' = [hubCorpus EXCEPT ![m] = IF link[m] = "idle" THEN local[m] ELSE @]
    /\ link' = [link EXCEPT ![m] = "none"]
    /\ UNCHANGED <<hubVars, local, newRepros, fresh, historyVars, ops, restarts>>

\* Mutant: the error is logged and the connection kept.
RefusedKeeps(m) == link[m] # "none" /\ m \notin connected /\ UNCHANGED vars

\* The hub has restarted: "unconnected manager".
Refused(m) == m \notin connected /\ UNCHANGED faults /\ Disconnect(m)

RequestLost(m) == faults < MaxFaults /\ faults' = faults + 1 /\ Disconnect(m)

-----------------------------------------------------------------------------
\* What the corpus file of a manager may have when the hub ends within a call:
\* Connect has removed the file or refilled it, Sync has flushed the deletions or
\* the additions too, and the hub's own corpus is not flushed yet.
Halfway(m) == {{}, mgrCorpus[m] \cap local[m], local[m]}

\* Mutant: the number is that of the last record, whatever managers have reached.
LoadedSeqOfRecords == Max({0} \cup {corpus[p] : p \in Progs})

\* Make: numbers go on from the highest of a record or of a manager's seq file.
LoadedSeq == Max({0} \cup {corpus[p] : p \in Progs} \cup {mgrCorpusSeq[m] : m \in known})

\* The hub starts again.  A manager with repro.seq 0 is taken for a new one.
Restart ==
    /\ faults < MaxFaults /\ faults' = faults + 1 /\ restarts' = restarts + 1
    /\ connected' = {}
    /\ \/ UNCHANGED mgrCorpus
       \/ \E m \in known : \E S \in Halfway(m) : mgrCorpus' = [mgrCorpus EXCEPT ![m] = S]
    /\ corpusSeq' = LoadedSeq
    /\ corpus' = Purged(corpus, mgrCorpus')
    /\ mgrReproSeq' = [m \in Managers |->
          IF m \in known /\ mgrReproSeq[m] = 0 THEN reproSeq ELSE mgrReproSeq[m]]
    /\ ownRepros' = ForEach({})
    /\ UNCHANGED <<reproSeq, repros, known, mgrCorpusSeq, clientVars, historyVars, ops>>

ConnectorStep(m) ==
    \/ \E lost \in 0 .. 1 :
          \/ Connect(m, lost)
          \/ \E need \in BOOLEAN : Sync(m, need, lost)
          \/ SyncAgain(m, lost)
    \/ Refused(m) \/ RequestLost(m)

Next ==
    \/ \E m \in Managers : ConnectorStep(m)
    \/ \E m \in Managers, p \in Progs : Find(m, p) \/ Minimize(m, p)
    \/ \E m \in Managers, r \in Repros : FindRepro(m, r)
    \/ Restart

Spec == Init /\ [][Next]_vars

\* The connectors' loops never end (syz-manager/hub.go:57).
Fairness ==
    \A m \in Managers :
        /\ WF_vars(Connect(m, 0)) /\ WF_vars(SyncAgain(m, 0)) /\ WF_vars(Refused(m))
        /\ WF_vars(Sync(m, TRUE, 0) \/ Sync(m, FALSE, 0))

FairSpec == Spec /\ Fairness

-----------------------------------------------------------------------------
\* A program of the hub is never passed over: what a manager could execute and
\* does not have is behind the number it has reached, or it was in a reply to it,
\* or it is one the manager itself once had (state.go:268-322), whatever
\* minimization, lost calls and restarts did to the numbers.
NothingSkipped ==
    \A m \in known : \A p \in Present \cap Supports[m] :
        corpus[p] > mgrCorpusSeq[m] \/ p \in mgrCorpus[m] \cup seen[m]

\* While a connection stands, the two ends agree on what the manager has: the
\* differences each sync reports (hub.go:105-127) are differences to that.
HubMirrors ==
    \A m \in connected : link[m] # "none" => mgrCorpus[m] = hubCorpus[m]

\* The hub's corpus has no program that no manager has, and all of those that the
\* managers connected have: minimized programs go when the last manager drops them.
CorpusIsUsed ==
    /\ \A p \in Present : \E m \in known : p \in mgrCorpus[m]
    /\ \A m \in connected : mgrCorpus[m] \subseteq Present

\* When no more programs are added, each manager comes to have been sent all that
\* stay on the hub and that it can execute, also when that takes several replies
\* with connections lost and the hub restarted in between.
Owed(m) == (Present \cap Supports[m]) \ seen[m]
EventuallySent == \A m \in Managers : Owed(m) # {} ~> Owed(m) = {}

\* In one life of the hub no repro is passed over either, although a manager's
\* number also moves when it adds repros of its own (state.go:216-219).
ReprosNotSkipped ==
    restarts = 0 => \A m \in known : \A r \in Repros \cap Supports[m] :
        repros[r] > 0 => repros[r] > mgrReproSeq[m] \/ r \in seenRepros[m]

\* No manager is sent a repro twice, nor one that waited on the hub before it came,
\* over lost replies, reconnects and restarts; and one that it was the first to bring
\* ("repros from other managers", rpctype.go:137) only after a restart, as ownRepros is
\* not kept in the directory.  One it brought as a second it may be sent once: AddRepro
\* has returned before it gets to ownRepros (state.go:203-264).
ReprosSentOnce ==
    \A m \in Managers, r \in Repros : <<m, r>> \in resent => restarts > 0 /\ m \in origin[r]

\* The numbers, the cuts and what is read back from the directory implement a feed:
\* each program of the hub stays owed to a manager until the manager comes by it, over
\* replies that carry a part, lost calls and restarts (state.go:61-147, 268-368).
Feed == INSTANCE HubFeed WITH pool <- Present, has <- mgrCorpus,
    owed <- [m \in Managers |-> {p \in Present : corpus[p] > mgrCorpusSeq[m]}]
ImplementsFeed == Feed!Spec
=============================================================================
