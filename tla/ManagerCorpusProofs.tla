------------------------ MODULE ManagerCorpusProofs ------------------------
(***************************************************************************)
(* Proofs about the manager's corpus, corpus.db and the signal it shares   *)
(* with its fuzzers, for all programs, signals, VMs and bounds.            *)
(***************************************************************************)
EXTENDS ManagerCorpus, FiniteSetTheorems, SequenceTheorems, TLAPS

USE CorpusAssumption DEF CorpusAssumption

-----------------------------------------------------------------------------
(* Lemmas about the operators.                                             *)

\* A set of programs has a number of elements.
LEMMA CountProgs == ASSUME NEW S \in SUBSET Progs PROVE IsFiniteSet(S) /\ Cardinality(S) \in Nat
BY FS_Subset, FS_CardinalityType

\* An order of a set of programs is a sequence of them.
LEMMA OrderIsSeq == ASSUME NEW S \in SUBSET Progs, NEW s \in Orders(S)
                    PROVE  s \in Seq(Progs) /\ \A i \in DOMAIN s : s[i] \in S
BY CountProgs DEF Orders

\* Programs made candidates in an order are a sequence of candidates.
LEMMA AsCandidates ==
    ASSUME NEW S \in SUBSET Progs, NEW s \in Orders(S), NEW m \in BOOLEAN
    PROVE  [i \in DOMAIN s |-> [prog |-> s[i], minimized |-> m]] \in Seq(Candidate)
<1>1. s \in Seq(Progs)
  BY OrderIsSeq
<1>2. /\ Len(s) \in Nat /\ DOMAIN s = 1 .. Len(s)
      /\ \A i \in DOMAIN s : [prog |-> s[i], minimized |-> m] \in Candidate
  BY <1>1 DEF Candidate
<1> QED BY <1>2

\* A batch of candidates and what it leaves behind.
LEMMA BatchType ==
    ASSUME candidates \in Seq(Candidate)
    PROVE  /\ SubSeq(candidates, 1, Len(candidates) - BatchOf(BatchSize)) \in Seq(Candidate)
           /\ Batch(BatchSize) \in Seq(Candidate)
<1>1. Len(candidates) \in Nat /\ BatchOf(BatchSize) \in 0 .. Len(candidates)
  BY DEF BatchOf
<1>2. SubSeq(candidates, 1, Len(candidates) - BatchOf(BatchSize)) \in Seq(Candidate)
  BY <1>1, SubSeqProperties
<1>3. Batch(BatchSize) \in Seq(Candidate)
  BY <1>1, SubSeqProperties DEF Batch
<1> QED BY <1>2, <1>3

\* Whatever minimization chooses to keep covers all that the corpus covered.
LEMMA MinimizedCovers ==
    ASSUME NEW c \in [Progs -> SUBSET Elems], NEW K \in MinimizedKeys(c)
    PROVE  /\ K \in SUBSET Progs
           /\ SignalOf([p \in Progs |-> IF p \in K THEN c[p] ELSE {}]) = SignalOf(c)
<1> DEFINE d == [p \in Progs |-> IF p \in K THEN c[p] ELSE {}]
<1>1. PICK o \in [SignalOf(c) -> Keys(c)] :
          /\ \A e \in SignalOf(c) : e \in c[o[e]]
          /\ K = {o[e] : e \in SignalOf(c)}
  BY DEF MinimizedKeys
<1>2. K \in SUBSET Progs
  BY <1>1 DEF Keys
<1>3. ASSUME NEW e \in SignalOf(c) PROVE e \in SignalOf(d)
  <2>1. o[e] \in K /\ o[e] \in Progs /\ e \in c[o[e]]
    BY <1>1, <1>2
  <2>2. e \in d[o[e]]
    BY <2>1
  <2> QED BY <2>1, <2>2 DEF SignalOf
<1>4. ASSUME NEW e \in SignalOf(d) PROVE e \in SignalOf(c)
  <2>1. PICK p \in Progs : e \in d[p]
    BY DEF SignalOf
  <2>2. e \in c[p]
    BY <2>1
  <2> QED BY <2>1, <2>2 DEF SignalOf
<1>5. SignalOf(d) = SignalOf(c)
  BY <1>3, <1>4
<1> QED BY <1>2, <1>5

\* What minimizeCorpus does to the corpus, the database and the signal covered.
LEMMA MinimizeCorpusEffect ==
    ASSUME TypeOK, MinimizeCorpus
    PROVE  /\ corpus' \in [Progs -> SUBSET Elems]
           /\ lastMinCorpus' \in Nat
           /\ db' \subseteq Progs
           /\ SignalOf(corpus') = SignalOf(corpus)
           /\ Keys(corpus') \subseteq Keys(corpus)
           /\ Keys(corpus') \cap db \subseteq db'
           /\ db' = db \/ (phase >= PhaseLoadedCorpus /\ db \cap disabledHashes \subseteq db')
<1>1. CASE UNCHANGED <<corpus, lastMinCorpus, db>>
  BY <1>1 DEF TypeOK
<1>2. CASE phase >= PhaseLoadedCorpus /\ ~UNCHANGED <<corpus, lastMinCorpus, db>>
  <2>1. PICK K \in MinimizedKeys(corpus) :
            /\ corpus' = [p \in Progs |-> IF p \in K THEN corpus[p] ELSE {}]
            /\ lastMinCorpus' = Cardinality(K)
            /\ db' = IF phase < PhaseTriagedCorpus THEN db ELSE KeptRecords(K)
    BY <1>2 DEF MinimizeCorpus
  <2>2. K \in SUBSET Progs /\ SignalOf(corpus') = SignalOf(corpus)
    BY <2>1, MinimizedCovers DEF TypeOK
  <2>3. corpus' \in [Progs -> SUBSET Elems] /\ lastMinCorpus' \in Nat
    BY <2>1, <2>2, CountProgs DEF TypeOK
  <2>4. Keys(corpus') \subseteq Keys(corpus) \cap K
    BY <2>1 DEF Keys
  <2>5. db' = db \/ db' = db \cap (K \cup disabledHashes)
    BY <2>1 DEF KeptRecords
  <2> QED BY <1>2, <2>2, <2>3, <2>4, <2>5 DEF TypeOK
<1> QED BY <1>1, <1>2 DEF MinimizeCorpus

\* What loadCorpus does, whatever the records are.
LEMMA LoadCorpusEffect ==
    ASSUME TypeOK, LoadCorpus
    PROVE  /\ candidates' \in Seq(Candidate)
           /\ db' = db \ BrokenProgs
           /\ disabledHashes' = disabledHashes \cup (db \cap DisabledProgs)
           /\ phase' = PhaseLoadedCorpus
<1> DEFINE enabled == db \ (DisabledProgs \cup BrokenProgs)
           made(s) == [i \in DOMAIN s |-> [prog |-> s[i], minimized |-> TRUE]]
<1>1. PICK first \in Orders(enabled), second \in Orders(enabled) :
          candidates' = candidates \o made(first) \o made(second)
  BY DEF LoadCorpus, LoadCandidates
<1>2. enabled \in SUBSET Progs
  BY DEF TypeOK
<1>3. made(first) \in Seq(Candidate) /\ made(second) \in Seq(Candidate)
  BY <1>2, AsCandidates
<1>4. candidates \o made(first) \in Seq(Candidate)
  BY <1>3, ConcatProperties DEF TypeOK
<1>5. candidates' \in Seq(Candidate)
  <2> HIDE DEF made
  <2> QED BY <1>1, <1>3, <1>4, ConcatProperties
<1> QED BY <1>5 DEF LoadCorpus

-----------------------------------------------------------------------------
(* Type correctness: one lemma per action.                                 *)

LEMMA NewFuzzerType == NewFuzzer \in Fuzzer
BY EmptySeq DEF NewFuzzer, Fuzzer

\* The fields of a fuzzer.
LEMMA FuzzerFields ==
    ASSUME TypeOK, NEW v \in VMs
    PROVE  /\ fuzzer[v] \in Fuzzer
           /\ fuzzer[v].maxSignal \in SUBSET Elems /\ fuzzer[v].newSignal \in SUBSET Elems
           /\ fuzzer[v].corpusSignal \in SUBSET Elems /\ fuzzer[v].queue \in Seq(Candidate)
           /\ fuzzer[v].triages \in SUBSET Triage /\ fuzzer[v].polling \in BOOLEAN
           /\ fuzzer[v].gotSignal \in SUBSET Elems /\ fuzzer[v].gotInputs \in SUBSET Input
           /\ fuzzer[v].gotCandidates \in Seq(Candidate)
BY DEF TypeOK, Fuzzer

LEMMA TypeInit == Init => TypeOK
<1> SUFFICES ASSUME Init PROVE TypeOK
  OBVIOUS
<1>1. candidates \in Seq(Candidate) /\ phase \in PhaseInit .. PhaseTriagedHub
  BY EmptySeq DEF Init, InitManager, PhaseInit, PhaseTriagedHub
<1>2. fuzzer \in [VMs -> Fuzzer] /\ unstored \in [VMs -> SUBSET Elems]
  BY NewFuzzerType DEF Init, InitVMs
<1> QED BY <1>1, <1>2 DEF Init, InitManager, InitServer, InitVMs, TypeOK

LEMMA TypeFuzzerConnect == ASSUME TypeOK, NEW v \in VMs, FuzzerConnect(v) PROVE TypeOK'
<1>1. corpus' \in [Progs -> SUBSET Elems] /\ lastMinCorpus' \in Nat /\ db' \subseteq Progs
  BY MinimizeCorpusEffect DEF FuzzerConnect
<1>2. {[prog |-> p, signal |-> corpus'[p]] : p \in Keys(corpus')} \in SUBSET Input
  BY <1>1 DEF Keys, Input
<1>3. snapshot' \in [VMs -> SUBSET Input]
  BY <1>2 DEF FuzzerConnect, TypeOK
<1> QED BY <1>1, <1>3 DEF FuzzerConnect, TypeOK, hubVars, servVars

LEMMA TypeConnect == ASSUME TypeOK, NEW v \in VMs, Connect(v) PROVE TypeOK'
BY DEF Connect, TypeOK, mgrVars, hubVars

LEMMA TypeCheck == ASSUME TypeOK, NEW v \in VMs, Check(v) PROVE TypeOK'
<1>1. /\ candidates' \in Seq(Candidate) /\ phase' \in PhaseInit .. PhaseTriagedHub
      /\ disabledHashes' \subseteq Progs /\ db' \subseteq Progs /\ checked' \in BOOLEAN
  <2>1. CASE UNCHANGED <<candidates, disabledHashes, phase, db, checked>>
    BY <2>1 DEF TypeOK
  <2>2. CASE LoadCorpus /\ checked' = TRUE
    BY <2>2, LoadCorpusEffect DEF TypeOK, PhaseInit, PhaseLoadedCorpus, PhaseTriagedHub
  <2> QED BY <2>1, <2>2 DEF Check
<1> QED BY <1>1 DEF Check, TypeOK, hubVars

\* The reply to a poll, on its way, and what a fuzzer learns from it.
LEMMA ReplyType ==
    ASSUME NEW f \in Fuzzer, NEW sig \in SUBSET Elems, NEW ins \in SUBSET Input,
           NEW cands \in Seq(Candidate)
    PROVE  [f EXCEPT !.newSignal = {}, !.polling = TRUE, !.gotSignal = sig,
                     !.gotInputs = ins, !.gotCandidates = cands] \in Fuzzer
BY DEF Fuzzer

LEMMA LearntType ==
    ASSUME NEW f \in Fuzzer
    PROVE  Learnt(f) \in Fuzzer /\ Learnt(f).queue = f.queue
<1> DEFINE ofInputs == UNION {inp.signal : inp \in f.gotInputs}
           known == f.maxSignal \cup f.gotSignal \cup ofInputs
           kept == f.corpusSignal \cup ofInputs
<1>1. ofInputs \in SUBSET Elems
  BY DEF Fuzzer, Input
<1>2. known \in SUBSET Elems /\ kept \in SUBSET Elems
  <2> HIDE DEF ofInputs
  <2> QED BY <1>1 DEF Fuzzer
<1>3. Learnt(f) = [f EXCEPT !.maxSignal = known, !.corpusSignal = kept]
  BY DEF Learnt
<1> HIDE DEF known, kept
<1> QED BY <1>2, <1>3 DEF Fuzzer

LEMMA TypePoll == ASSUME TypeOK, NEW v \in VMs, NEW need \in BOOLEAN, Poll(v, need) PROVE TypeOK'
<1> DEFINE f == fuzzer[v]
           new == f.newSignal \ maxSignal
           cands == IF need THEN Batch(BatchSize) ELSE <<>>
<1>1. new \in SUBSET Elems /\ maxSignal' \subseteq Elems
  BY FuzzerFields DEF Poll, TypeOK
<1>2. /\ candidates' \in Seq(Candidate) /\ phase' \in PhaseInit .. PhaseTriagedHub
      /\ hub' \in {"off", "minimize", "receive"}
  <2>1. CASE need
    <3>1. CandidateBatch(BatchSize)
      BY <2>1 DEF Poll
    <3> QED BY <3>1, BatchType DEF CandidateBatch, TypeOK, PhaseInit, PhaseLoadedCorpus,
                 PhaseTriagedCorpus, PhaseQueriedHub, PhaseTriagedHub
  <2>2. CASE ~need
    BY <2>2 DEF Poll, TypeOK
  <2> QED BY <2>1, <2>2
<1>3. cands \in Seq(Candidate)
  BY BatchType, EmptySeq DEF TypeOK
<1>4. PICK sig \in Parts(newMaxSignal[v], SplitSize),
           ins \in IF cands # <<>> THEN {{}} ELSE Parts(inputs[v], BatchSize) :
          /\ newMaxSignal' = [w \in VMs |-> IF w = v THEN newMaxSignal[v] \ sig
                                            ELSE newMaxSignal[w] \cup new]
          /\ inputs' = [inputs EXCEPT ![v] = @ \ ins]
          /\ fuzzer' = [fuzzer EXCEPT ![v].newSignal = {}, ![v].polling = TRUE,
                           ![v].gotSignal = sig, ![v].gotInputs = ins,
                           ![v].gotCandidates = cands]
  BY DEF Poll
<1>5. sig \in SUBSET Elems /\ ins \in SUBSET Input
  BY <1>4 DEF Parts, TypeOK
<1>6. newMaxSignal' \in [VMs -> SUBSET Elems] /\ inputs' \in [VMs -> SUBSET Input]
  <2> HIDE DEF new
  <2> QED BY <1>1, <1>4, <1>5 DEF TypeOK
<1>7. fuzzer' \in [VMs -> Fuzzer]
  <2> DEFINE g == [f EXCEPT !.newSignal = {}, !.polling = TRUE, !.gotSignal = sig,
                            !.gotInputs = ins, !.gotCandidates = cands]
  <2> HIDE DEF cands
  <2>1. g \in Fuzzer
    BY <1>3, <1>5, FuzzerFields, ReplyType
  <2>2. fuzzer' = [fuzzer EXCEPT ![v] = g]
    BY <1>4 DEF TypeOK
  <2> QED BY <2>1, <2>2 DEF TypeOK
<1> QED BY <1>1, <1>2, <1>6, <1>7 DEF Poll, TypeOK

LEMMA TypePollReply == ASSUME TypeOK, NEW v \in VMs, PollReply(v) PROVE TypeOK'
<1>1. fuzzer[v].queue \o fuzzer[v].gotCandidates \in Seq(Candidate)
  BY FuzzerFields, ConcatProperties
<1>2. fuzzer' \in [VMs -> Fuzzer]
  <2>1. Learnt(fuzzer[v]) \in Fuzzer
    BY FuzzerFields, LearntType
  <2>2. [Learnt(fuzzer[v]) EXCEPT !.queue = fuzzer[v].queue \o fuzzer[v].gotCandidates,
                      !.polling = FALSE, !.gotSignal = {}, !.gotInputs = {},
                      !.gotCandidates = <<>>] \in Fuzzer
    BY <1>1, <2>1, EmptySeq DEF Fuzzer
  <2>3. Learnt(fuzzer[v]).queue = fuzzer[v].queue
    BY FuzzerFields, LearntType
  <2> QED BY <2>2, <2>3 DEF PollReply, TypeOK
<1> QED BY <1>2 DEF PollReply, TypeOK, mgrVars, hubVars, servVars

\* An execution leaves a fuzzer a fuzzer, and what it already had in place.
LEMMA ExecutedEffect ==
    ASSUME NEW f \in Fuzzer, NEW c \in Candidate, NEW sig \in SUBSET Elems
    PROVE  /\ Executed(f, c, sig) \in Fuzzer
           /\ Executed(f, c, sig).maxSignal = f.maxSignal \cup sig
           /\ Executed(f, c, sig).newSignal = f.newSignal \cup (sig \ f.maxSignal)
           /\ Executed(f, c, sig).corpusSignal = f.corpusSignal
           /\ Executed(f, c, sig).gotSignal = f.gotSignal
           /\ Executed(f, c, sig).gotInputs = f.gotInputs
           /\ Executed(f, c, sig).polling = f.polling
           /\ \A t \in Executed(f, c, sig).triages : t \in f.triages \/ t.signal = sig
<1>1. CASE sig \subseteq f.maxSignal
  BY <1>1 DEF Executed, Fuzzer
<1>2. CASE ~(sig \subseteq f.maxSignal)
  <2>1. {[prog |-> c.prog, minimized |-> c.minimized, signal |-> sig]} \in SUBSET Triage
    BY DEF Triage, Candidate
  <2>2. \A x \in {[prog |-> c.prog, minimized |-> c.minimized, signal |-> sig]} : x.signal = sig
    OBVIOUS
  <2> DEFINE new == {[prog |-> c.prog, minimized |-> c.minimized, signal |-> sig]}
  <2>3. Executed(f, c, sig) = [f EXCEPT !.maxSignal = f.maxSignal \cup sig,
                                        !.newSignal = f.newSignal \cup (sig \ f.maxSignal),
                                        !.triages = f.triages \cup new]
    BY <1>2 DEF Executed, Fuzzer
  <2> HIDE DEF new
  <2>4. new \in SUBSET Triage /\ \A x \in new : x.signal = sig
    BY <2>1, <2>2 DEF new
  <2>5. /\ Executed(f, c, sig).triages = f.triages \cup new
        /\ Executed(f, c, sig).maxSignal = f.maxSignal \cup sig
        /\ Executed(f, c, sig).newSignal = f.newSignal \cup (sig \ f.maxSignal)
        /\ Executed(f, c, sig).corpusSignal = f.corpusSignal
        /\ Executed(f, c, sig).gotSignal = f.gotSignal
        /\ Executed(f, c, sig).gotInputs = f.gotInputs
        /\ Executed(f, c, sig).polling = f.polling
    BY <2>3 DEF Fuzzer
  <2>6. Executed(f, c, sig) \in Fuzzer
    <3> DEFINE known == f.maxSignal \cup sig
               news == f.newSignal \cup (sig \ f.maxSignal)
               tris == f.triages \cup new
    <3>1. known \in SUBSET Elems /\ news \in SUBSET Elems /\ tris \in SUBSET Triage
      BY <2>4 DEF Fuzzer
    <3>2. Executed(f, c, sig) = [f EXCEPT !.maxSignal = known, !.newSignal = news, !.triages = tris]
      BY <2>3
    <3> HIDE DEF known, news, tris
    <3> QED BY <3>1, <3>2 DEF Fuzzer
  <2>7. \A t \in f.triages \cup new : t \in f.triages \/ t.signal = sig
    BY <2>4
  <2> QED BY <2>5, <2>6, <2>7
<1> QED BY <1>1, <1>2

\* What a fuzzer is after either kind of execution: only its own signal,
\* candidates and triages differ.
LEMMA ExecuteEffect ==
    ASSUME TypeOK, NEW v \in VMs,
           ExecuteCandidate(v) \/ \E p \in Generated : ExecuteGenerated(v, p)
    PROVE  \E g \in Fuzzer, sig \in SUBSET Elems :
              /\ fuzzer' = [fuzzer EXCEPT ![v] = g]
              /\ g.maxSignal = fuzzer[v].maxSignal \cup sig
              /\ g.newSignal = fuzzer[v].newSignal \cup (sig \ fuzzer[v].maxSignal)
              /\ g.corpusSignal = fuzzer[v].corpusSignal
              /\ g.gotSignal = fuzzer[v].gotSignal
              /\ g.gotInputs = fuzzer[v].gotInputs
              /\ g.polling = fuzzer[v].polling
              /\ \A t \in g.triages : t \in fuzzer[v].triages \/ t.signal \subseteq g.maxSignal
<1>1. CASE ExecuteCandidate(v)
  <2> DEFINE f == fuzzer[v]
             c == f.queue[Len(f.queue)]
             rest == SubSeq(f.queue, 1, Len(f.queue) - 1)
             h == [f EXCEPT !.queue = rest]
  <2>1. f.queue \in Seq(Candidate) /\ f.queue # <<>>
    BY <1>1, FuzzerFields DEF ExecuteCandidate
  <2>2. Len(f.queue) \in DOMAIN f.queue
    BY <2>1, EmptySeq, LenProperties
  <2>3. c \in Candidate /\ c.prog \in Progs
    <3>1. c \in Candidate
      BY <2>1, <2>2, ElementOfSeq, LenProperties
    <3> HIDE DEF c
    <3> QED BY <3>1 DEF Candidate
  <2>4. rest \in Seq(Candidate)
    BY <2>1, <2>2, LenProperties, SubSeqProperties
  <2>5. /\ h \in Fuzzer /\ h.maxSignal = f.maxSignal /\ h.newSignal = f.newSignal
        /\ h.corpusSignal = f.corpusSignal /\ h.gotSignal = f.gotSignal
        /\ h.gotInputs = f.gotInputs /\ h.polling = f.polling /\ h.triages = f.triages
    BY <2>4, FuzzerFields DEF Fuzzer
  <2>6. PICK sig \in Signals[c.prog] : fuzzer' = [fuzzer EXCEPT ![v] = Executed(h, c, sig)]
    BY <1>1 DEF ExecuteCandidate
  <2>7. sig \in SUBSET Elems
    BY <2>3, <2>6
  <2> DEFINE g == Executed(h, c, sig)
  <2> HIDE DEF h, c
  <2>8. /\ g \in Fuzzer /\ g.maxSignal = h.maxSignal \cup sig
        /\ g.newSignal = h.newSignal \cup (sig \ h.maxSignal)
        /\ g.corpusSignal = h.corpusSignal /\ g.gotSignal = h.gotSignal
        /\ g.gotInputs = h.gotInputs /\ g.polling = h.polling
        /\ \A t \in g.triages : t \in h.triages \/ t.signal = sig
    BY <2>3, <2>5, <2>7, ExecutedEffect
  <2>9. fuzzer' = [fuzzer EXCEPT ![v] = g]
    BY <2>6
  <2> HIDE DEF g
  <2>10. \A t \in g.triages : t \in f.triages \/ t.signal \subseteq g.maxSignal
    BY <2>5, <2>8
  <2> QED BY <2>5, <2>7, <2>8, <2>9, <2>10
<1>2. CASE \E p \in Generated : ExecuteGenerated(v, p)
  <2>1. PICK p \in Generated : \E sig \in Signals[p] :
            fuzzer' = [fuzzer EXCEPT ![v] = Executed(fuzzer[v], [prog |-> p, minimized |-> FALSE], sig)]
    BY <1>2 DEF ExecuteGenerated
  <2>2. PICK sig \in Signals[p] :
            fuzzer' = [fuzzer EXCEPT ![v] = Executed(fuzzer[v], [prog |-> p, minimized |-> FALSE], sig)]
    BY <2>1
  <2> DEFINE c == [prog |-> p, minimized |-> FALSE]
             g == Executed(fuzzer[v], c, sig)
  <2>3. c \in Candidate /\ sig \in SUBSET Elems
    BY <2>2 DEF Candidate
  <2>4. fuzzer' = [fuzzer EXCEPT ![v] = g]
    BY <2>2
  <2> HIDE DEF c
  <2>5. /\ g \in Fuzzer /\ g.maxSignal = fuzzer[v].maxSignal \cup sig
        /\ g.newSignal = fuzzer[v].newSignal \cup (sig \ fuzzer[v].maxSignal)
        /\ g.corpusSignal = fuzzer[v].corpusSignal /\ g.gotSignal = fuzzer[v].gotSignal
        /\ g.gotInputs = fuzzer[v].gotInputs /\ g.polling = fuzzer[v].polling
        /\ \A t \in g.triages : t \in fuzzer[v].triages \/ t.signal = sig
    BY <2>3, FuzzerFields, ExecutedEffect
  <2> HIDE DEF g
  <2>6. \A t \in g.triages : t \in fuzzer[v].triages \/ t.signal \subseteq g.maxSignal
    BY <2>5
  <2> QED BY <2>3, <2>4, <2>5, <2>6
<1> QED BY <1>1, <1>2

LEMMA TypeExecute ==
    ASSUME TypeOK, NEW v \in VMs, ExecuteCandidate(v) \/ \E p \in Generated : ExecuteGenerated(v, p)
    PROVE  TypeOK'
<1>1. fuzzer' \in [VMs -> Fuzzer]
  BY ExecuteEffect DEF TypeOK
<1>2. UNCHANGED <<mgrVars, hubVars, servVars, vm, snapshot, unstored, crashes, restarts>>
  BY DEF ExecuteCandidate, ExecuteGenerated
<1> QED BY <1>1, <1>2 DEF TypeOK, mgrVars, hubVars, servVars

\* Dropping a triage, and adding an input's signal to a fuzzer's corpus.
LEMMA DropType ==
    ASSUME NEW f \in Fuzzer, NEW t, NEW sig \in SUBSET Elems
    PROVE  /\ [f EXCEPT !.triages = @ \ {t}] \in Fuzzer
           /\ [f EXCEPT !.corpusSignal = @ \cup sig, !.maxSignal = @ \cup sig] \in Fuzzer
BY DEF Fuzzer

\* What a fuzzer is when it has added an input to its corpus.
LEMMA AddedEffect ==
    ASSUME NEW f \in Fuzzer, NEW t, NEW inp \in Input
    PROVE  /\ Added(f, t, inp) \in Fuzzer
           /\ Added(f, t, inp).maxSignal = f.maxSignal \cup inp.signal
           /\ Added(f, t, inp).newSignal = f.newSignal
           /\ Added(f, t, inp).corpusSignal = f.corpusSignal \cup inp.signal
           /\ Added(f, t, inp).triages = f.triages \ {t}
           /\ Added(f, t, inp).gotSignal = f.gotSignal
           /\ Added(f, t, inp).gotInputs = f.gotInputs
           /\ Added(f, t, inp).polling = f.polling
<1>1. inp.signal \in SUBSET Elems
  BY DEF Input
<1> QED BY <1>1 DEF Added, Fuzzer

LEMMA TypeTriageDrop ==
    ASSUME TypeOK, NEW v \in VMs, NEW t \in fuzzer[v].triages, TriageDrop(v, t)
    PROVE  TypeOK'
<1> DEFINE g == [fuzzer[v] EXCEPT !.triages = @ \ {t}]
<1>1. fuzzer' = [fuzzer EXCEPT ![v] = g] /\ g \in Fuzzer
  BY FuzzerFields, DropType DEF TriageDrop
<1>2. fuzzer' \in [VMs -> Fuzzer]
  <2> HIDE DEF g
  <2> QED BY <1>1 DEF TypeOK
<1>3. UNCHANGED <<mgrVars, hubVars, servVars, vm, snapshot, unstored, crashes, restarts>>
  BY DEF TriageDrop
<1> QED BY <1>2, <1>3 DEF TypeOK, mgrVars, hubVars, servVars

\* What triageInput sends is an input with the signal that queued the triage.
LEMMA TriageInput ==
    ASSUME TypeOK, NEW v \in VMs, NEW t \in fuzzer[v].triages, TriageSend(v, t)
    PROVE  \E inp \in Input :
              /\ inp.signal = t.signal
              /\ NewInputUnread(v, t, inp) \/ NewInputKnown(v, t, inp) \/ NewInputStore(v, t, inp)
<1>1. t \in Triage
  BY FuzzerFields
<1>2. PICK p \in IF t.minimized THEN {t.prog} ELSE Minimal[t.prog] :
          \/ NewInputUnread(v, t, [prog |-> p, signal |-> t.signal])
          \/ NewInputKnown(v, t, [prog |-> p, signal |-> t.signal])
          \/ NewInputStore(v, t, [prog |-> p, signal |-> t.signal])
  BY DEF TriageSend
<1>3. p \in Progs
  BY <1>1, <1>2 DEF Triage
<1>4. [prog |-> p, signal |-> t.signal] \in Input
  BY <1>1, <1>3 DEF Triage, Input
<1> QED BY <1>2, <1>4

\* How mgr.newInput changes the corpus and corpus.db.
LEMMA StoreInputEffect ==
    ASSUME TypeOK, NEW inp \in Input, StoreInput(inp)
    PROVE  /\ corpus' \in [Progs -> SUBSET Elems] /\ db' = db \cup {inp.prog} /\ db' \subseteq Progs
           /\ Keys(corpus') \subseteq Keys(corpus) \cup {inp.prog}
           /\ SignalOf(corpus') = SignalOf(corpus) \cup inp.signal
<1>1. inp.prog \in Progs /\ inp.signal \in SUBSET Elems
  BY DEF Input
<1>2. corpus' = [corpus EXCEPT ![inp.prog] = corpus[inp.prog] \cup inp.signal]
  BY DEF StoreInput
<1>3. corpus' \in [Progs -> SUBSET Elems]
  BY <1>1, <1>2 DEF TypeOK
<1>4. Keys(corpus') \subseteq Keys(corpus) \cup {inp.prog}
  BY <1>1, <1>2 DEF Keys, TypeOK
<1>5. ASSUME NEW e PROVE e \in SignalOf(corpus') <=> e \in SignalOf(corpus) \cup inp.signal
  <2>1. \A p \in Progs : e \in corpus'[p] <=> e \in corpus[p] \/ (p = inp.prog /\ e \in inp.signal)
    BY <1>1, <1>2 DEF TypeOK
  <2> QED BY <1>1, <2>1 DEF SignalOf
<1> QED BY <1>1, <1>3, <1>4, <1>5 DEF StoreInput, TypeOK

LEMMA TypeTriageSend ==
    ASSUME TypeOK, NEW v \in VMs, NEW t \in fuzzer[v].triages, TriageSend(v, t)
    PROVE  TypeOK'
<1>1. PICK inp \in Input :
          NewInputUnread(v, t, inp) \/ NewInputKnown(v, t, inp) \/ NewInputStore(v, t, inp)
  BY TriageInput
<1>2. inp.signal \in SUBSET Elems
  BY DEF Input
<1>3. UNCHANGED <<hubVars, vm, snapshot, crashes, restarts>>
  BY DEF TriageSend
<1>4. CASE NewInputUnread(v, t, inp) \/ NewInputKnown(v, t, inp)
  <2>1. Added(fuzzer[v], t, inp) \in Fuzzer
    BY FuzzerFields, AddedEffect
  <2>2. fuzzer' = [fuzzer EXCEPT ![v] = Added(fuzzer[v], t, inp)]
    BY <1>4 DEF NewInputUnread, NewInputKnown
  <2>3. fuzzer' \in [VMs -> Fuzzer]
    BY <2>1, <2>2 DEF TypeOK
  <2>4. UNCHANGED <<mgrVars, servVars>>
    BY <1>4 DEF NewInputUnread, NewInputKnown
  <2>5. unstored' \in [VMs -> SUBSET Elems]
    BY <1>2, <1>4 DEF NewInputUnread, NewInputKnown, TypeOK
  <2> QED BY <1>3, <2>3, <2>4, <2>5 DEF TypeOK, mgrVars, servVars, hubVars
<1>5. CASE NewInputStore(v, t, inp)
  <2> DEFINE g == [fuzzer[v] EXCEPT !.triages = @ \ {t}]
  <2>1. fuzzer' = [fuzzer EXCEPT ![v] = g] /\ g \in Fuzzer
    BY <1>2, <1>5, FuzzerFields, DropType DEF NewInputStore
  <2>2. corpus' \in [Progs -> SUBSET Elems] /\ db' \subseteq Progs
    BY <1>5, StoreInputEffect DEF NewInputStore
  <2>3. accepting' \subseteq [vm : VMs, input : Input]
    BY <1>5 DEF NewInputStore
  <2>4. fuzzer' \in [VMs -> Fuzzer]
    <3> HIDE DEF g
    <3> QED BY <2>1 DEF TypeOK
  <2>5. UNCHANGED <<phase, candidates, disabledHashes, lastMinCorpus, checked, maxSignal,
                    corpusSignal, inputs, newMaxSignal, unstored>>
    BY <1>5 DEF NewInputStore
  <2> QED BY <1>3, <2>2, <2>3, <2>4, <2>5 DEF TypeOK, hubVars
<1> QED BY <1>1, <1>4, <1>5

\* The second half of NewInput, for the one input that is half done.
LEMMA MergeEffect ==
    ASSUME TypeOK, NewInputMerge
    PROVE  \E a \in accepting :
              /\ a.vm \in VMs /\ a.input \in Input
              /\ corpusSignal' = corpusSignal \cup a.input.signal
              /\ inputs' = [w \in VMs |-> IF w = a.vm THEN inputs[w] ELSE inputs[w] \cup {a.input}]
              /\ \/ fuzzer' = fuzzer
                 \/ fuzzer' = [fuzzer EXCEPT ![a.vm] =
                        [fuzzer[a.vm] EXCEPT !.corpusSignal = @ \cup a.input.signal,
                                  !.maxSignal = @ \cup a.input.signal]]
<1>1. PICK a \in accepting :
          /\ corpusSignal' = corpusSignal \cup a.input.signal
          /\ inputs' = [w \in VMs |-> IF w = a.vm THEN inputs[w] ELSE inputs[w] \cup {a.input}]
          /\ fuzzer' = IF vm[a.vm] # "up" THEN fuzzer
                       ELSE [fuzzer EXCEPT ![a.vm].corpusSignal = @ \cup a.input.signal,
                                           ![a.vm].maxSignal = @ \cup a.input.signal]
  BY DEF NewInputMerge
<1>2. a.vm \in VMs /\ a.input \in Input
  BY <1>1 DEF TypeOK
<1> DEFINE g == [fuzzer[a.vm] EXCEPT !.corpusSignal = @ \cup a.input.signal,
                                     !.maxSignal = @ \cup a.input.signal]
<1>3. fuzzer' = fuzzer \/ fuzzer' = [fuzzer EXCEPT ![a.vm] = g]
  <2>1. CASE vm[a.vm] # "up"
    BY <1>1, <2>1
  <2>2. CASE vm[a.vm] = "up"
    <3>1. fuzzer' = [fuzzer EXCEPT ![a.vm].corpusSignal = @ \cup a.input.signal,
                                   ![a.vm].maxSignal = @ \cup a.input.signal]
      BY <1>1, <2>2
    <3> QED BY <1>2, <3>1 DEF TypeOK
  <2> QED BY <2>1, <2>2
<1> QED BY <1>1, <1>2, <1>3

LEMMA TypeNewInputMerge == ASSUME TypeOK, NewInputMerge PROVE TypeOK'
<1>1. PICK a \in accepting :
          /\ a.vm \in VMs /\ a.input \in Input
          /\ corpusSignal' = corpusSignal \cup a.input.signal
          /\ inputs' = [w \in VMs |-> IF w = a.vm THEN inputs[w] ELSE inputs[w] \cup {a.input}]
          /\ \/ fuzzer' = fuzzer
             \/ fuzzer' = [fuzzer EXCEPT ![a.vm] =
                    [fuzzer[a.vm] EXCEPT !.corpusSignal = @ \cup a.input.signal,
                              !.maxSignal = @ \cup a.input.signal]]
  BY MergeEffect
<1>2. a.input.signal \in SUBSET Elems
  BY <1>1 DEF Input
<1>3. corpusSignal' \subseteq Elems /\ inputs' \in [VMs -> SUBSET Input]
  BY <1>1, <1>2 DEF TypeOK
<1>4. fuzzer' \in [VMs -> Fuzzer]
  <2> DEFINE g == [fuzzer[a.vm] EXCEPT !.corpusSignal = @ \cup a.input.signal,
                                       !.maxSignal = @ \cup a.input.signal]
  <2>1. g \in Fuzzer
    BY <1>1, <1>2, FuzzerFields, DropType
  <2>2. fuzzer' = fuzzer \/ fuzzer' = [fuzzer EXCEPT ![a.vm] = g]
    BY <1>1
  <2> HIDE DEF g
  <2> QED BY <2>1, <2>2 DEF TypeOK
<1> QED BY <1>3, <1>4 DEF NewInputMerge, TypeOK, mgrVars, hubVars

LEMMA TypeCrash == ASSUME TypeOK, NEW v \in VMs, Crash(v) PROVE TypeOK'
BY NewFuzzerType DEF Crash, TypeOK, mgrVars, hubVars, servVars

LEMMA TypeHubMinimize == ASSUME TypeOK, HubMinimize PROVE TypeOK'
BY MinimizeCorpusEffect DEF HubMinimize, TypeOK, servVars, vmVars

LEMMA TypeHubReceive == ASSUME TypeOK, HubReceive PROVE TypeOK'
<1>1. PICK ps \in SUBSET hubLeft : \E s \in Orders(ps) :
          /\ candidates' = candidates \o [i \in DOMAIN s |-> [prog |-> s[i], minimized |-> FALSE]]
          /\ hubLeft' = hubLeft \ ps
          /\ hub' = IF ps = {} THEN "minimize" ELSE "receive"
  BY DEF HubReceive
<1>2. ps \in SUBSET Progs
  BY <1>1 DEF TypeOK
<1>3. candidates' \in Seq(Candidate)
  <2>1. PICK s \in Orders(ps) :
            candidates' = candidates \o [i \in DOMAIN s |-> [prog |-> s[i], minimized |-> FALSE]]
    BY <1>1
  <2> DEFINE made == [i \in DOMAIN s |-> [prog |-> s[i], minimized |-> FALSE]]
  <2>2. made \in Seq(Candidate)
    BY <1>2, AsCandidates
  <2>3. candidates' = candidates \o made
    BY <2>1
  <2> HIDE DEF made
  <2> QED BY <2>2, <2>3, ConcatProperties DEF TypeOK
<1>4. phase' \in PhaseInit .. PhaseTriagedHub
  BY DEF HubReceive, PhaseAfterHub, TypeOK, PhaseInit, PhaseTriagedCorpus, PhaseQueriedHub,
         PhaseTriagedHub
<1> QED BY <1>1, <1>3, <1>4 DEF HubReceive, TypeOK, servVars, vmVars

LEMMA TypeRestart == ASSUME TypeOK, Restart PROVE TypeOK'
<1>1. /\ phase' \in PhaseInit .. PhaseTriagedHub /\ candidates' \in Seq(Candidate)
      /\ corpus' \in [Progs -> SUBSET Elems] /\ lastMinCorpus' \in Nat
  BY EmptySeq DEF Restart, PhaseInit, PhaseTriagedHub
<1>2. /\ vm' \in [VMs -> {"down", "connecting", "checking", "up"}]
      /\ snapshot' \in [VMs -> SUBSET Input] /\ fuzzer' \in [VMs -> Fuzzer]
      /\ unstored' \in [VMs -> SUBSET Elems]
  BY NewFuzzerType DEF Restart
<1>3. inputs' \in [VMs -> SUBSET Input] /\ newMaxSignal' \in [VMs -> SUBSET Elems]
  BY DEF Restart
<1>4. /\ disabledHashes' \subseteq Progs /\ hub' \in {"off", "minimize", "receive"}
      /\ checked' \in BOOLEAN /\ maxSignal' \subseteq Elems /\ corpusSignal' \subseteq Elems
      /\ accepting' \subseteq [vm : VMs, input : Input]
  BY DEF Restart
<1>5. db' \subseteq Progs /\ hubLeft' \subseteq HubProgs
  BY DEF Restart, TypeOK
<1>6. crashes' \in Nat /\ restarts' \in Nat
  BY DEF Restart, TypeOK
<1> QED BY <1>1, <1>2, <1>3, <1>4, <1>5, <1>6 DEF TypeOK

\* Every step keeps the types.
LEMMA TypeNext == ASSUME TypeOK, [Next]_vars PROVE TypeOK'
<1>1. ASSUME NEW v \in VMs, VMStep(v) PROVE TypeOK'
  BY <1>1, TypeFuzzerConnect, TypeConnect, TypeCheck, TypePoll, TypePollReply, TypeExecute,
     TypeTriageDrop, TypeTriageSend DEF VMStep
<1>2. CASE UNCHANGED vars
  BY <1>2 DEF TypeOK, vars, mgrVars, hubVars, servVars, vmVars
<1> QED BY <1>1, <1>2, TypeCrash, TypeExecute, TypeNewInputMerge, TypeHubMinimize, TypeHubReceive,
           TypeRestart DEF Next

\* The variables of the manager, of its server and of the fuzzers keep their types.
THEOREM CorpusTypes == Spec => []TypeOK
BY TypeInit, TypeNext, PTL DEF Spec

-----------------------------------------------------------------------------
(* corpus.db keeps the corpus and the seeds this machine cannot run.       *)

\* Since the corpus was loaded the hashes of those seeds are remembered.
Remembered == phase >= PhaseLoadedCorpus => Seeds \cap DisabledProgs \subseteq disabledHashes

\* Nothing runs, and so nothing comes into the corpus, before it was loaded.
LoadedFirst ==
    /\ ~checked => Keys(corpus) = {}
    /\ \A v \in VMs : vm[v] = "up" => checked

PersistentInv == TypeOK /\ Remembered /\ LoadedFirst /\ PersistentCorpus

LEMMA PersistentInit == Init => Remembered /\ LoadedFirst /\ PersistentCorpus
BY DEF Init, InitManager, InitServer, InitVMs, Remembered, LoadedFirst, PersistentCorpus, Keys,
       PhaseInit, PhaseLoadedCorpus

LEMMA PersistentMinimize ==
    ASSUME PersistentInv, MinimizeCorpus, UNCHANGED <<phase, disabledHashes, checked>>,
           \A v \in VMs : vm'[v] = "up" => vm[v] = "up"
    PROVE  Remembered' /\ LoadedFirst' /\ PersistentCorpus'
<1>1. /\ Keys(corpus') \subseteq Keys(corpus) /\ Keys(corpus') \cap db \subseteq db'
      /\ db' = db \/ (phase >= PhaseLoadedCorpus /\ db \cap disabledHashes \subseteq db')
  BY MinimizeCorpusEffect DEF PersistentInv
<1>2. Keys(corpus') \subseteq db'
  BY <1>1 DEF PersistentInv, PersistentCorpus
<1>3. Seeds \cap DisabledProgs \subseteq db'
  BY <1>1 DEF PersistentInv, PersistentCorpus, Remembered
<1>4. LoadedFirst'
  BY <1>1 DEF PersistentInv, LoadedFirst, Keys
<1> QED BY <1>2, <1>3, <1>4 DEF PersistentInv, PersistentCorpus, Remembered, Keys

LEMMA PersistentCheck ==
    ASSUME PersistentInv, NEW v \in VMs, Check(v)
    PROVE  Remembered' /\ LoadedFirst' /\ PersistentCorpus'
<1>1. CASE checked
  BY <1>1 DEF Check, PersistentInv, TypeOK, LoadedFirst, Remembered, PersistentCorpus, Keys
<1>2. CASE ~checked
  <2>1. LoadCorpus /\ checked' /\ UNCHANGED corpus
    BY <1>2 DEF Check
  <2>2. db' = db \ BrokenProgs /\ disabledHashes' = disabledHashes \cup (db \cap DisabledProgs)
    BY <2>1, LoadCorpusEffect DEF PersistentInv
  <2>3. Seeds \cap DisabledProgs \subseteq db /\ Keys(corpus) = {}
    BY <1>2 DEF PersistentInv, PersistentCorpus, LoadedFirst
  <2>4. Seeds \cap DisabledProgs \subseteq db' /\ Seeds \cap DisabledProgs \subseteq disabledHashes'
    BY <2>2, <2>3
  <2> QED BY <2>1, <2>3, <2>4 DEF PersistentCorpus, LoadedFirst, Remembered, Keys
<1> QED BY <1>1, <1>2

LEMMA PersistentSend ==
    ASSUME PersistentInv, NEW v \in VMs, NEW t \in fuzzer[v].triages, TriageSend(v, t)
    PROVE  Remembered' /\ LoadedFirst' /\ PersistentCorpus'
<1>1. PICK inp \in Input :
          NewInputUnread(v, t, inp) \/ NewInputKnown(v, t, inp) \/ NewInputStore(v, t, inp)
  BY TriageInput DEF PersistentInv
<1>2. checked /\ UNCHANGED vm
  BY DEF TriageSend, PersistentInv, LoadedFirst
<1>3. CASE NewInputUnread(v, t, inp) \/ NewInputKnown(v, t, inp)
  <2>1. UNCHANGED <<phase, disabledHashes, corpus, db, checked>>
    BY <1>3 DEF NewInputUnread, NewInputKnown, mgrVars, servVars
  <2> QED BY <1>2, <2>1 DEF PersistentInv, Remembered, LoadedFirst, PersistentCorpus, Keys
<1>4. CASE NewInputStore(v, t, inp)
  <2>1. UNCHANGED <<phase, disabledHashes, checked>> /\ StoreInput(inp)
    BY <1>4 DEF NewInputStore
  <2>2. db' = db \cup {inp.prog} /\ Keys(corpus') \subseteq Keys(corpus) \cup {inp.prog}
    BY <2>1, StoreInputEffect DEF PersistentInv
  <2>3. PersistentCorpus'
    BY <2>2 DEF PersistentInv, PersistentCorpus, Keys
  <2> QED BY <1>2, <2>1, <2>3 DEF PersistentInv, Remembered, LoadedFirst
<1> QED BY <1>1, <1>3, <1>4

\* The other steps leave corpus, corpus.db and the remembered hashes alone, and
\* the phase, once the corpus is loaded, stays past loading.
LEMMA PersistentOther ==
    ASSUME PersistentInv, UNCHANGED <<corpus, db, disabledHashes, checked>>,
           phase' >= PhaseLoadedCorpus => phase >= PhaseLoadedCorpus,
           \A v \in VMs : vm'[v] = "up" => vm[v] = "up" \/ checked
    PROVE  Remembered' /\ LoadedFirst' /\ PersistentCorpus'
BY DEF PersistentInv, Remembered, LoadedFirst, PersistentCorpus, Keys

LEMMA PersistentStep ==
    ASSUME PersistentInv, [Next]_vars
    PROVE  Remembered' /\ LoadedFirst' /\ PersistentCorpus'
<1> USE DEF PersistentInv
<1>1. ASSUME NEW v \in VMs, FuzzerConnect(v) PROVE Remembered' /\ LoadedFirst' /\ PersistentCorpus'
  <2>1. MinimizeCorpus /\ UNCHANGED <<phase, disabledHashes, checked>>
    BY <1>1 DEF FuzzerConnect, servVars
  <2>2. \A w \in VMs : vm'[w] = "up" => vm[w] = "up"
    BY <1>1 DEF FuzzerConnect, TypeOK
  <2> QED BY <2>1, <2>2, PersistentMinimize
<1>2. ASSUME NEW v \in VMs, Connect(v) PROVE Remembered' /\ LoadedFirst' /\ PersistentCorpus'
  <2>1. UNCHANGED <<phase, corpus, db, disabledHashes, checked>>
    BY <1>2 DEF Connect, mgrVars
  <2>2. \A w \in VMs : vm'[w] = "up" => vm[w] = "up" \/ checked
    BY <1>2 DEF Connect, TypeOK
  <2> QED BY <2>1, <2>2, PersistentOther
<1>3. ASSUME NEW v \in VMs, NEW need \in BOOLEAN, Poll(v, need)
      PROVE  Remembered' /\ LoadedFirst' /\ PersistentCorpus'
  <2>1. UNCHANGED <<corpus, db, disabledHashes, checked, vm>>
    BY <1>3 DEF Poll
  <2>2. phase' >= PhaseLoadedCorpus => phase >= PhaseLoadedCorpus
    BY <1>3 DEF Poll, CandidateBatch, PhaseLoadedCorpus, PhaseTriagedCorpus, PhaseQueriedHub,
                PhaseTriagedHub
  <2> QED BY <2>1, <2>2, PersistentOther
<1>4. ASSUME NEW v \in VMs, PollReply(v) \/ ExecuteCandidate(v)
                            \/ (\E p \in Generated : ExecuteGenerated(v, p))
                            \/ (\E t \in fuzzer[v].triages : TriageDrop(v, t))
      PROVE  Remembered' /\ LoadedFirst' /\ PersistentCorpus'
  <2>1. UNCHANGED <<mgrVars, servVars, vm>>
    BY <1>4 DEF PollReply, ExecuteCandidate, ExecuteGenerated, TriageDrop
  <2> QED BY <2>1, PersistentOther DEF mgrVars, servVars
<1>5. ASSUME NEW v \in VMs, Crash(v) PROVE Remembered' /\ LoadedFirst' /\ PersistentCorpus'
  <2>1. UNCHANGED <<mgrVars, servVars>>
    BY <1>5 DEF Crash
  <2>2. \A w \in VMs : vm'[w] = "up" => vm[w] = "up"
    BY <1>5 DEF Crash, TypeOK
  <2> QED BY <2>1, <2>2, PersistentOther DEF mgrVars, servVars
<1>6. CASE NewInputMerge
  <2>1. UNCHANGED <<mgrVars, checked, vm>>
    BY <1>6 DEF NewInputMerge
  <2> QED BY <2>1, PersistentOther DEF mgrVars
<1>7. CASE HubMinimize
  BY <1>7, PersistentMinimize DEF HubMinimize, servVars, vmVars
<1>8. CASE HubReceive
  <2>1. UNCHANGED <<corpus, db, disabledHashes, checked, vm>>
    BY <1>8 DEF HubReceive, servVars, vmVars
  <2>2. phase' >= PhaseLoadedCorpus => phase >= PhaseLoadedCorpus
    BY <1>8 DEF HubReceive, PhaseAfterHub, PhaseLoadedCorpus, PhaseTriagedCorpus, PhaseQueriedHub
  <2> QED BY <2>1, <2>2, PersistentOther
<1>9. CASE Restart
  <2>1. corpus' = [p \in Progs |-> {}] /\ phase' = 0 /\ db' = db /\ \A v \in VMs : vm'[v] = "down"
    BY <1>9 DEF Restart, PhaseInit
  <2> QED BY <2>1 DEF Remembered, LoadedFirst, PersistentCorpus, Keys, PhaseLoadedCorpus
<1>10. CASE UNCHANGED vars
  BY <1>10, PersistentOther DEF vars, mgrVars, servVars, vmVars
<1> QED BY <1>1, <1>2, <1>3, <1>4, <1>5, <1>6, <1>7, <1>8, <1>9, <1>10, PersistentCheck,
           PersistentSend DEF Next, VMStep

\* Whatever minimizeCorpus deletes, and whenever the manager is killed, the
\* corpus and the seeds with disabled syscalls are in corpus.db.
THEOREM CorpusPersists == Spec => []PersistentCorpus
<1>1. Init => PersistentInv
  BY TypeInit, PersistentInit DEF PersistentInv
<1>2. PersistentInv /\ [Next]_vars => PersistentInv'
  BY TypeNext, PersistentStep DEF PersistentInv
<1>3. PersistentInv => PersistentCorpus
  BY DEF PersistentInv
<1> QED BY <1>1, <1>2, <1>3, PTL DEF Spec

-----------------------------------------------------------------------------
(* Coverage: corpus, corpusSignal and what the fuzzers hold for covered.   *)

\* serv.mu admits one half-done NewInput; what fuzzerConnect handed to a Connect
\* handler stays covered by the corpus until that handler has serv.mu.
CoverInv ==
    /\ TypeOK
    /\ \A a, b \in accepting : a = b
    /\ \A v \in VMs : \A inp \in snapshot[v] : inp.signal \subseteq SignalOf(corpus)
    /\ CorpusCoversSignal
    /\ NoPhantomCoverage

LEMMA CoverInit == Init => CoverInv
<1> SUFFICES ASSUME Init PROVE CoverInv
  OBVIOUS
<1>1. SignalOf(corpus) = {} /\ corpusSignal = {} /\ accepting = {}
  BY DEF Init, InitManager, InitServer, SignalOf
<1>2. \A v \in VMs : /\ snapshot[v] = {} /\ inputs[v] = {}
                     /\ fuzzer[v].corpusSignal = {} /\ fuzzer[v].gotInputs = {}
  BY DEF Init, InitServer, InitVMs, NewFuzzer
<1> QED BY <1>1, <1>2, TypeInit DEF CoverInv, CorpusCoversSignal, NoPhantomCoverage

\* A step that leaves the signal covered as it is has only to keep what the
\* fuzzers, the inputs on their way and the snapshots say within it.
LEMMA CoverOther ==
    ASSUME CoverInv, TypeOK', UNCHANGED <<corpusSignal, accepting>>,
           SignalOf(corpus') = SignalOf(corpus),
           \A v \in VMs :
              /\ \A inp \in snapshot'[v] : inp.signal \subseteq SignalOf(corpus)
              /\ fuzzer'[v].corpusSignal \subseteq corpusSignal \cup unstored'[v]
              /\ \A inp \in inputs'[v] \cup fuzzer'[v].gotInputs : inp.signal \subseteq corpusSignal
    PROVE  CoverInv'
BY DEF CoverInv, CorpusCoversSignal, NoPhantomCoverage, SignalOf

LEMMA CoverFuzzerConnect == ASSUME CoverInv, NEW v \in VMs, FuzzerConnect(v) PROVE CoverInv'
<1>1. SignalOf(corpus') = SignalOf(corpus) /\ corpus' \in [Progs -> SUBSET Elems]
  BY MinimizeCorpusEffect DEF FuzzerConnect, CoverInv
<1>2. UNCHANGED <<corpusSignal, accepting, inputs, fuzzer, unstored>>
  BY DEF FuzzerConnect, servVars
<1>3. ASSUME NEW w \in VMs, NEW inp \in snapshot'[w] PROVE inp.signal \subseteq SignalOf(corpus)
  <2>1. CASE w # v
    BY <1>3, <2>1 DEF FuzzerConnect, CoverInv, TypeOK
  <2>2. CASE w = v
    <3>1. snapshot'[v] = {[prog |-> p, signal |-> corpus'[p]] : p \in Keys(corpus')}
      BY DEF FuzzerConnect, CoverInv, TypeOK
    <3>2. PICK p \in Keys(corpus') : inp.signal = corpus'[p]
      BY <1>3, <2>2, <3>1
    <3>3. inp.signal \subseteq SignalOf(corpus')
      BY <3>2 DEF Keys, SignalOf
    <3> QED BY <1>1, <3>3
  <2> QED BY <2>1, <2>2
<1>4. TypeOK'
  BY TypeFuzzerConnect DEF CoverInv
<1> QED BY <1>1, <1>2, <1>3, <1>4, CoverOther DEF CoverInv, NoPhantomCoverage

LEMMA CoverConnect == ASSUME CoverInv, NEW v \in VMs, Connect(v) PROVE CoverInv'
<1>1. UNCHANGED <<corpus, corpusSignal, accepting, fuzzer, unstored>>
  BY DEF Connect, mgrVars
<1>2. SignalOf(corpus) = corpusSignal
  BY DEF Connect, ServFree, CoverInv, CorpusCoversSignal
<1>3. inputs' = [inputs EXCEPT ![v] = snapshot[v]] /\ snapshot' = [snapshot EXCEPT ![v] = {}]
  BY DEF Connect
<1>4. \A w \in VMs : /\ \A inp \in snapshot'[w] : inp.signal \subseteq SignalOf(corpus)
                     /\ \A inp \in inputs'[w] : inp.signal \subseteq corpusSignal
  BY <1>2, <1>3 DEF CoverInv, NoPhantomCoverage, TypeOK
<1>5. TypeOK'
  BY TypeConnect DEF CoverInv
<1> QED BY <1>1, <1>4, <1>5, CoverOther DEF CoverInv, NoPhantomCoverage

LEMMA CoverPoll ==
    ASSUME CoverInv, NEW v \in VMs, NEW need \in BOOLEAN, Poll(v, need) PROVE CoverInv'
<1> DEFINE cands == IF need THEN Batch(BatchSize) ELSE <<>>
<1>1. UNCHANGED <<corpus, corpusSignal, accepting, snapshot, unstored>>
  BY DEF Poll
<1>2. PICK sig \in Parts(newMaxSignal[v], SplitSize),
           ins \in IF cands # <<>> THEN {{}} ELSE Parts(inputs[v], BatchSize) :
          /\ inputs' = [inputs EXCEPT ![v] = @ \ ins]
          /\ fuzzer' = [fuzzer EXCEPT ![v].newSignal = {}, ![v].polling = TRUE,
                           ![v].gotSignal = sig, ![v].gotInputs = ins,
                           ![v].gotCandidates = cands]
  BY DEF Poll
<1> HIDE DEF cands
<1>3. ins \subseteq inputs[v]
  BY <1>2 DEF Parts
<1>4. \A w \in VMs : /\ fuzzer'[w].corpusSignal = fuzzer[w].corpusSignal
                     /\ fuzzer'[w].gotInputs = IF w = v THEN ins ELSE fuzzer[w].gotInputs
                     /\ inputs'[w] \subseteq inputs[w]
  <2> DEFINE g == [fuzzer[v] EXCEPT !.newSignal = {}, !.polling = TRUE, !.gotSignal = sig,
                                    !.gotInputs = ins, !.gotCandidates = cands]
  <2>1. fuzzer \in [VMs -> Fuzzer] /\ inputs \in [VMs -> SUBSET Input]
    BY DEF CoverInv, TypeOK
  <2>2. g.corpusSignal = fuzzer[v].corpusSignal /\ g.gotInputs = ins
    BY <2>1 DEF Fuzzer
  <2>3. fuzzer' = [fuzzer EXCEPT ![v] = g]
    BY <1>2, <2>1
  <2>4. \A w \in VMs : inputs'[w] \subseteq inputs[w]
    BY <1>2, <2>1
  <2> HIDE DEF g
  <2> QED BY <2>1, <2>2, <2>3, <2>4
<1>5. TypeOK'
  BY TypePoll DEF CoverInv
<1> QED BY <1>1, <1>3, <1>4, <1>5, CoverOther DEF CoverInv, NoPhantomCoverage

LEMMA CoverPollReply == ASSUME CoverInv, NEW v \in VMs, PollReply(v) PROVE CoverInv'
<1> DEFINE ofInputs == UNION {inp.signal : inp \in fuzzer[v].gotInputs}
<1>1. UNCHANGED <<corpus, corpusSignal, accepting, snapshot, inputs, unstored>>
  BY DEF PollReply, mgrVars, servVars
<1>2. ofInputs \subseteq corpusSignal
  BY DEF CoverInv, NoPhantomCoverage
<1>3. Learnt(fuzzer[v]).corpusSignal = fuzzer[v].corpusSignal \cup ofInputs
  BY FuzzerFields DEF CoverInv, Learnt, Fuzzer
<1>4. Learnt(fuzzer[v]) \in Fuzzer
  BY FuzzerFields, LearntType DEF CoverInv
<1>5. \A w \in VMs :
          /\ fuzzer'[w].corpusSignal =
                IF w = v THEN fuzzer[w].corpusSignal \cup ofInputs ELSE fuzzer[w].corpusSignal
          /\ fuzzer'[w].gotInputs = IF w = v THEN {} ELSE fuzzer[w].gotInputs
  <2> HIDE DEF ofInputs
  <2> QED BY <1>3, <1>4 DEF PollReply, CoverInv, TypeOK, Fuzzer
<1>6. TypeOK'
  BY TypePollReply DEF CoverInv
<1> HIDE DEF ofInputs
<1> QED BY <1>1, <1>2, <1>5, <1>6, CoverOther DEF CoverInv, NoPhantomCoverage

LEMMA CoverExecute ==
    ASSUME CoverInv, NEW v \in VMs, ExecuteCandidate(v) \/ \E p \in Generated : ExecuteGenerated(v, p)
    PROVE  CoverInv'
<1>1. UNCHANGED <<corpus, corpusSignal, accepting, snapshot, inputs, unstored>>
  BY DEF ExecuteCandidate, ExecuteGenerated, mgrVars, servVars
<1>2. PICK g \in Fuzzer : /\ fuzzer' = [fuzzer EXCEPT ![v] = g]
                          /\ g.corpusSignal = fuzzer[v].corpusSignal
                          /\ g.gotInputs = fuzzer[v].gotInputs
  BY ExecuteEffect DEF CoverInv
<1>3. \A w \in VMs : /\ fuzzer'[w].corpusSignal = fuzzer[w].corpusSignal
                     /\ fuzzer'[w].gotInputs = fuzzer[w].gotInputs
  BY <1>2 DEF CoverInv, TypeOK
<1>4. TypeOK'
  BY TypeExecute DEF CoverInv
<1> QED BY <1>1, <1>3, <1>4, CoverOther DEF CoverInv, NoPhantomCoverage

LEMMA CoverTriageDrop ==
    ASSUME CoverInv, NEW v \in VMs, NEW t \in fuzzer[v].triages, TriageDrop(v, t)
    PROVE  CoverInv'
<1>1. UNCHANGED <<corpus, corpusSignal, accepting, snapshot, inputs, unstored>>
  BY DEF TriageDrop, mgrVars, servVars
<1>2. \A w \in VMs : /\ fuzzer'[w].corpusSignal = fuzzer[w].corpusSignal
                     /\ fuzzer'[w].gotInputs = fuzzer[w].gotInputs
  BY FuzzerFields DEF TriageDrop, CoverInv, TypeOK, Fuzzer
<1>3. TypeOK'
  BY TypeTriageDrop DEF CoverInv
<1> QED BY <1>1, <1>2, <1>3, CoverOther DEF CoverInv, NoPhantomCoverage

LEMMA CoverTriageSend ==
    ASSUME CoverInv, NEW v \in VMs, NEW t \in fuzzer[v].triages, TriageSend(v, t)
    PROVE  CoverInv'
<1>1. PICK inp \in Input :
          NewInputUnread(v, t, inp) \/ NewInputKnown(v, t, inp) \/ NewInputStore(v, t, inp)
  BY TriageInput DEF CoverInv
<1>2. TypeOK' /\ UNCHANGED snapshot
  BY TypeTriageSend DEF CoverInv, TriageSend
<1>3. CASE NewInputUnread(v, t, inp) \/ NewInputKnown(v, t, inp)
  <2>1. UNCHANGED <<corpus, corpusSignal, accepting, inputs>>
    BY <1>3 DEF NewInputUnread, NewInputKnown, mgrVars, servVars
  <2>2. fuzzer' = [fuzzer EXCEPT ![v] = Added(fuzzer[v], t, inp)]
    BY <1>3 DEF NewInputUnread, NewInputKnown
  <2>3. /\ Added(fuzzer[v], t, inp).corpusSignal = fuzzer[v].corpusSignal \cup inp.signal
        /\ Added(fuzzer[v], t, inp).gotInputs = fuzzer[v].gotInputs
    BY FuzzerFields, AddedEffect DEF CoverInv
  <2>4. \A w \in VMs : /\ fuzzer'[w].gotInputs = fuzzer[w].gotInputs
                       /\ fuzzer'[w].corpusSignal = IF w = v THEN fuzzer[w].corpusSignal \cup inp.signal
                                                    ELSE fuzzer[w].corpusSignal
    BY <2>2, <2>3 DEF CoverInv, TypeOK
  <2>5. inp.signal \subseteq corpusSignal \cup unstored'[v]
    BY <1>3 DEF NewInputUnread, NewInputKnown, CoverInv, TypeOK
  <2>6. \A w \in VMs : unstored[w] \subseteq unstored'[w]
    BY <1>3 DEF NewInputUnread, NewInputKnown, CoverInv, TypeOK
  <2>7. \A w \in VMs : fuzzer'[w].corpusSignal \subseteq corpusSignal \cup unstored'[w]
    BY <2>4, <2>5, <2>6 DEF CoverInv, NoPhantomCoverage
  <2> QED BY <1>2, <2>1, <2>4, <2>7, CoverOther DEF CoverInv, NoPhantomCoverage
<1>4. CASE NewInputStore(v, t, inp)
  <2>1. /\ UNCHANGED <<corpusSignal, inputs, unstored>> /\ accepting = {}
        /\ accepting' = {[vm |-> v, input |-> inp]}
    BY <1>4 DEF NewInputStore, ServFree
  <2>2. SignalOf(corpus') = SignalOf(corpus) \cup inp.signal
    BY <1>4, StoreInputEffect DEF NewInputStore, CoverInv
  <2>3. CorpusCoversSignal'
    <3>1. UNION {a.input.signal : a \in accepting'} = inp.signal
      BY <2>1
    <3>2. SignalOf(corpus) = corpusSignal
      BY <2>1 DEF CoverInv, CorpusCoversSignal
    <3>3. SignalOf(corpus') = corpusSignal' \cup UNION {a.input.signal : a \in accepting'}
      BY <2>1, <2>2, <3>1, <3>2
    <3> QED BY <3>3 DEF CorpusCoversSignal, SignalOf
  <2>4. fuzzer' = [fuzzer EXCEPT ![v].triages = @ \ {t}]
    BY <1>4 DEF NewInputStore
  <2>5. \A w \in VMs : /\ fuzzer'[w].corpusSignal = fuzzer[w].corpusSignal
                       /\ fuzzer'[w].gotInputs = fuzzer[w].gotInputs
    BY <2>4, FuzzerFields DEF CoverInv, TypeOK, Fuzzer
  <2>6. NoPhantomCoverage'
    BY <2>1, <2>5 DEF CoverInv, NoPhantomCoverage
  <2>7. \A w \in VMs : \A i \in snapshot'[w] : i.signal \subseteq SignalOf(corpus')
    BY <1>2, <2>2 DEF CoverInv
  <2> QED BY <1>2, <2>1, <2>3, <2>6, <2>7 DEF CoverInv, SignalOf
<1> QED BY <1>1, <1>3, <1>4

LEMMA CoverMerge == ASSUME CoverInv, NewInputMerge PROVE CoverInv'
<1>1. PICK a \in accepting :
          /\ a.vm \in VMs /\ a.input \in Input
          /\ corpusSignal' = corpusSignal \cup a.input.signal
          /\ inputs' = [w \in VMs |-> IF w = a.vm THEN inputs[w] ELSE inputs[w] \cup {a.input}]
          /\ \/ fuzzer' = fuzzer
             \/ fuzzer' = [fuzzer EXCEPT ![a.vm] =
                    [fuzzer[a.vm] EXCEPT !.corpusSignal = @ \cup a.input.signal,
                                         !.maxSignal = @ \cup a.input.signal]]
  BY MergeEffect DEF CoverInv
<1>2. accepting' = {} /\ UNCHANGED <<corpus, snapshot, unstored>>
  BY DEF NewInputMerge, mgrVars
<1>3. CorpusCoversSignal'
  <2>1. accepting = {a}
    BY <1>1 DEF CoverInv
  <2>2. SignalOf(corpus) = corpusSignal \cup a.input.signal
    BY <2>1 DEF CoverInv, CorpusCoversSignal
  <2> QED BY <1>1, <1>2, <2>2 DEF CorpusCoversSignal, SignalOf
<1>4. \A w \in VMs : /\ fuzzer'[w].corpusSignal \subseteq fuzzer[w].corpusSignal \cup a.input.signal
                     /\ fuzzer'[w].gotInputs = fuzzer[w].gotInputs
  <2>1. fuzzer \in [VMs -> Fuzzer]
    BY DEF CoverInv, TypeOK
  <2>2. CASE fuzzer' = fuzzer
    BY <2>2
  <2>3. CASE fuzzer' # fuzzer
    <3> DEFINE g == [fuzzer[a.vm] EXCEPT !.corpusSignal = @ \cup a.input.signal,
                                         !.maxSignal = @ \cup a.input.signal]
    <3>1. /\ g.corpusSignal = fuzzer[a.vm].corpusSignal \cup a.input.signal
          /\ g.gotInputs = fuzzer[a.vm].gotInputs
      BY <1>1, <2>1 DEF Fuzzer
    <3>2. fuzzer' = [fuzzer EXCEPT ![a.vm] = g]
      BY <1>1, <2>3
    <3> HIDE DEF g
    <3> QED BY <1>1, <2>1, <3>1, <3>2
  <2> QED BY <2>2, <2>3
<1>5. NoPhantomCoverage'
  BY <1>1, <1>2, <1>4 DEF CoverInv, NoPhantomCoverage
<1>6. TypeOK'
  BY TypeNewInputMerge DEF CoverInv
<1> QED BY <1>2, <1>3, <1>5, <1>6 DEF CoverInv, SignalOf

LEMMA CoverCrash == ASSUME CoverInv, NEW v \in VMs, Crash(v) PROVE CoverInv'
<1>1. UNCHANGED <<corpus, corpusSignal, accepting, inputs>>
  BY DEF Crash, mgrVars, servVars
<1>2. \A w \in VMs : /\ snapshot'[w] \subseteq snapshot[w]
                     /\ fuzzer'[w].gotInputs \subseteq fuzzer[w].gotInputs
                     /\ \/ fuzzer'[w].corpusSignal = {}
                        \/ UNCHANGED <<fuzzer[w], unstored[w]>>
  BY DEF Crash, NewFuzzer, CoverInv, TypeOK
<1>3. TypeOK'
  BY TypeCrash DEF CoverInv
<1> QED BY <1>1, <1>2, <1>3, CoverOther DEF CoverInv, NoPhantomCoverage

LEMMA CoverHub == ASSUME CoverInv, HubMinimize \/ HubReceive PROVE CoverInv'
<1>1. TypeOK'
  BY TypeHubMinimize, TypeHubReceive DEF CoverInv
<1>2. SignalOf(corpus') = SignalOf(corpus)
  BY MinimizeCorpusEffect DEF HubMinimize, HubReceive, CoverInv
<1>3. UNCHANGED <<corpusSignal, accepting, inputs, snapshot, fuzzer, unstored>>
  BY DEF HubMinimize, HubReceive, servVars, vmVars
<1> QED BY <1>1, <1>2, <1>3, CoverOther DEF CoverInv, NoPhantomCoverage

LEMMA CoverRestart == ASSUME CoverInv, Restart PROVE CoverInv'
<1>1. SignalOf(corpus') = {} /\ corpusSignal' = {} /\ accepting' = {}
  BY DEF Restart, SignalOf
<1>2. \A v \in VMs : /\ snapshot'[v] = {} /\ inputs'[v] = {}
                     /\ fuzzer'[v].corpusSignal = {} /\ fuzzer'[v].gotInputs = {}
  BY DEF Restart, NewFuzzer
<1>3. TypeOK'
  BY TypeRestart DEF CoverInv
<1> QED BY <1>1, <1>2, <1>3 DEF CoverInv, CorpusCoversSignal, NoPhantomCoverage, SignalOf

LEMMA CoverStep == ASSUME CoverInv, [Next]_vars PROVE CoverInv'
<1>1. ASSUME NEW v \in VMs, Check(v) PROVE CoverInv'
  <2>1. UNCHANGED <<corpus, corpusSignal, accepting, inputs, snapshot, fuzzer, unstored>>
    BY <1>1 DEF Check
  <2>2. TypeOK'
    BY <1>1, TypeCheck DEF CoverInv
  <2> QED BY <2>1, <2>2, CoverOther DEF CoverInv, NoPhantomCoverage
<1>2. CASE UNCHANGED vars
  <2>1. UNCHANGED <<corpus, corpusSignal, accepting, inputs, snapshot, fuzzer, unstored>>
    BY <1>2 DEF vars, mgrVars, servVars, vmVars
  <2>2. TypeOK'
    BY TypeNext DEF CoverInv
  <2> QED BY <2>1, <2>2, CoverOther DEF CoverInv, NoPhantomCoverage
<1> QED BY <1>1, <1>2, CoverFuzzerConnect, CoverConnect, CoverPoll, CoverPollReply, CoverExecute,
           CoverTriageDrop, CoverTriageSend, CoverMerge, CoverCrash, CoverHub, CoverRestart
        DEF Next, VMStep

LEMMA CoverAlways == Spec => []CoverInv
BY CoverInit, CoverStep, PTL DEF Spec

\* Minimization loses no coverage: what the server reports is what the corpus has.
THEOREM CorpusCovers == Spec => []CorpusCoversSignal
<1>1. CoverInv => CorpusCoversSignal
  BY DEF CoverInv
<1> QED BY <1>1, CoverAlways, PTL

\* The coverage for which a fuzzer skips triages is the corpus's or that of inputs
\* which NewInput threw away in this life of the fuzzer (rpc.go:292-296).
THEOREM CorpusNoPhantoms == Spec => []NoPhantomCoverage
<1>1. CoverInv => NoPhantomCoverage
  BY DEF CoverInv
<1> QED BY <1>1, CoverAlways, PTL

-----------------------------------------------------------------------------
(* Signal found: the fuzzers' maxSignal and the server's.                  *)

\* What a fuzzer is yet to triage or to report it knows; a reply is in flight only
\* while it polls; and what the server sends is its own maximal signal.
InFlight(f, queued, max) ==
    /\ \A t \in f.triages : t.signal \subseteq f.maxSignal
    /\ f.newSignal \subseteq f.maxSignal
    /\ ~f.polling => f.gotSignal = {}
    /\ f.gotSignal \subseteq max /\ queued \subseteq max

SignalInv ==
    /\ CoverInv
    /\ \A v \in VMs : InFlight(fuzzer[v], newMaxSignal[v], maxSignal)
    /\ MaxSignalReachesAll
    /\ FoundSignalReported

LEMMA SignalInit == Init => SignalInv
<1> SUFFICES ASSUME Init PROVE SignalInv
  OBVIOUS
<1>1. \A v \in VMs : /\ vm[v] = "down" /\ newMaxSignal[v] = {}
                     /\ fuzzer[v].maxSignal = {} /\ fuzzer[v].newSignal = {}
                     /\ fuzzer[v].gotSignal = {} /\ fuzzer[v].triages = {}
  BY DEF Init, InitServer, InitVMs, NewFuzzer
<1> QED BY <1>1, CoverInit DEF SignalInv, InFlight, MaxSignalReachesAll, FoundSignalReported

\* A step that leaves the signal on the server's side alone keeps the invariant
\* for every fuzzer that is not touched, or is fresh in a VM that is not running.
LEMMA SignalOther ==
    ASSUME SignalInv, CoverInv', UNCHANGED <<maxSignal, newMaxSignal>>,
           corpusSignal \subseteq corpusSignal',
           \A v \in VMs :
              /\ vm'[v] \in {"checking", "up"} => fuzzer'[v] = fuzzer[v] /\ vm[v] \in {"checking", "up"}
              /\ fuzzer'[v] # fuzzer[v] => fuzzer'[v] = NewFuzzer
    PROVE  SignalInv'
<1>1. ASSUME NEW v \in VMs
      PROVE  /\ InFlight(fuzzer'[v], newMaxSignal[v], maxSignal)
             /\ fuzzer'[v].maxSignal \subseteq maxSignal \cup corpusSignal' \cup fuzzer'[v].newSignal
  <2>1. CASE fuzzer'[v] = fuzzer[v]
    BY <2>1 DEF SignalInv, InFlight, FoundSignalReported
  <2>2. CASE fuzzer'[v] = NewFuzzer
    BY <2>2 DEF SignalInv, InFlight, NewFuzzer
  <2> QED BY <2>1, <2>2
<1>2. MaxSignalReachesAll'
  BY DEF SignalInv, MaxSignalReachesAll
<1> QED BY <1>1, <1>2 DEF SignalInv, InFlight, FoundSignalReported

LEMMA SignalConnect == ASSUME SignalInv, NEW v \in VMs, Connect(v) PROVE SignalInv'
<1>1. CoverInv'
  BY CoverConnect DEF SignalInv
<1>2. UNCHANGED <<maxSignal, corpusSignal, fuzzer>>
  BY DEF Connect
<1>3. \A w \in VMs : /\ newMaxSignal'[w] = IF w = v THEN maxSignal ELSE newMaxSignal[w]
                     /\ w # v => vm'[w] = vm[w]
  BY DEF Connect, SignalInv, CoverInv, TypeOK
<1> QED BY <1>1, <1>2, <1>3 DEF SignalInv, InFlight, MaxSignalReachesAll, FoundSignalReported

LEMMA SignalPoll ==
    ASSUME SignalInv, NEW v \in VMs, NEW need \in BOOLEAN, Poll(v, need) PROVE SignalInv'
<1> DEFINE new == fuzzer[v].newSignal \ maxSignal
           cands == IF need THEN Batch(BatchSize) ELSE <<>>
<1>1. CoverInv'
  BY CoverPoll DEF SignalInv
<1>2. PICK sig \in Parts(newMaxSignal[v], SplitSize),
           ins \in IF cands # <<>> THEN {{}} ELSE Parts(inputs[v], BatchSize) :
          /\ newMaxSignal' = [w \in VMs |-> IF w = v THEN newMaxSignal[v] \ sig
                                            ELSE newMaxSignal[w] \cup new]
          /\ fuzzer' = [fuzzer EXCEPT ![v].newSignal = {}, ![v].polling = TRUE,
                           ![v].gotSignal = sig, ![v].gotInputs = ins,
                           ![v].gotCandidates = cands]
  BY DEF Poll
<1> HIDE DEF cands
<1>3. \A w \in VMs :
          /\ fuzzer'[w].maxSignal = fuzzer[w].maxSignal
          /\ fuzzer'[w].triages = fuzzer[w].triages
          /\ fuzzer'[w].newSignal = IF w = v THEN {} ELSE fuzzer[w].newSignal
          /\ fuzzer'[w].gotSignal = IF w = v THEN sig ELSE fuzzer[w].gotSignal
          /\ fuzzer'[w].polling = IF w = v THEN TRUE ELSE fuzzer[w].polling
  <2> DEFINE g == [fuzzer[v] EXCEPT !.newSignal = {}, !.polling = TRUE, !.gotSignal = sig,
                                    !.gotInputs = ins, !.gotCandidates = cands]
  <2>1. fuzzer \in [VMs -> Fuzzer]
    BY DEF SignalInv, CoverInv, TypeOK
  <2>2. /\ g.maxSignal = fuzzer[v].maxSignal /\ g.newSignal = {} /\ g.triages = fuzzer[v].triages
        /\ g.gotSignal = sig /\ g.polling = TRUE
    BY <2>1 DEF Fuzzer
  <2>3. fuzzer' = [fuzzer EXCEPT ![v] = g]
    BY <1>2, <2>1
  <2> HIDE DEF g
  <2> QED BY <2>1, <2>2, <2>3
<1>4. /\ sig \subseteq newMaxSignal[v] /\ fuzzer[v].gotSignal = {}
      /\ maxSignal' = maxSignal \cup new /\ UNCHANGED <<corpusSignal, vm>>
  BY <1>2 DEF Parts, Poll, SignalInv, InFlight
<1>5. \A w \in VMs : newMaxSignal'[w] = IF w = v THEN newMaxSignal[v] \ sig
                                        ELSE newMaxSignal[w] \cup new
  BY <1>2
<1>6. ASSUME NEW w \in VMs PROVE InFlight(fuzzer'[w], newMaxSignal'[w], maxSignal')
  <2>1. InFlight(fuzzer[w], newMaxSignal[w], maxSignal)
    BY DEF SignalInv
  <2> HIDE DEF new
  <2> QED BY <1>3, <1>4, <1>5, <2>1 DEF InFlight
<1>7. MaxSignalReachesAll'
  <2>1. ASSUME NEW w \in VMs, vm[w] \in {"checking", "up"}
        PROVE  maxSignal' \subseteq fuzzer'[w].maxSignal \cup fuzzer'[w].gotSignal \cup newMaxSignal'[w]
    <3>1. maxSignal \subseteq fuzzer[w].maxSignal \cup fuzzer[w].gotSignal \cup newMaxSignal[w]
      BY <2>1 DEF SignalInv, MaxSignalReachesAll
    <3>2. new \subseteq fuzzer[v].maxSignal
      BY DEF SignalInv, InFlight
    <3> HIDE DEF new
    <3>3. CASE w = v
      BY <1>3, <1>4, <1>5, <3>1, <3>2, <3>3
    <3>4. CASE w # v
      BY <1>3, <1>4, <1>5, <3>1, <3>4
    <3> QED BY <3>3, <3>4
  <2> QED BY <1>4, <2>1 DEF MaxSignalReachesAll
<1>8. FoundSignalReported'
  BY <1>3, <1>4 DEF SignalInv, FoundSignalReported
<1> QED BY <1>1, <1>6, <1>7, <1>8 DEF SignalInv

\* A step of one fuzzer that adds to its signal, and either reports the addition
\* or finds it at the server already.
LEMMA SignalGrows ==
    ASSUME SignalInv, CoverInv', NEW v \in VMs,
           UNCHANGED <<maxSignal, newMaxSignal, vm>>, corpusSignal \subseteq corpusSignal',
           \A w \in VMs \ {v} : fuzzer'[w] = fuzzer[w],
           fuzzer[v].maxSignal \subseteq fuzzer'[v].maxSignal,
           fuzzer[v].newSignal \subseteq fuzzer'[v].newSignal,
           fuzzer'[v].newSignal \subseteq fuzzer'[v].maxSignal,
           \A t \in fuzzer'[v].triages : t \in fuzzer[v].triages \/ t.signal \subseteq fuzzer'[v].maxSignal,
           fuzzer'[v].maxSignal \subseteq
               fuzzer[v].maxSignal \cup maxSignal \cup corpusSignal' \cup fuzzer'[v].newSignal,
           \/ fuzzer'[v].gotSignal = fuzzer[v].gotSignal /\ fuzzer'[v].polling = fuzzer[v].polling
           \/ fuzzer'[v].gotSignal = {} /\ fuzzer[v].gotSignal \subseteq fuzzer'[v].maxSignal
    PROVE  SignalInv'
<1>1. \A w \in VMs : InFlight(fuzzer'[w], newMaxSignal[w], maxSignal)
  BY DEF SignalInv, InFlight
<1>2. MaxSignalReachesAll'
  BY DEF SignalInv, MaxSignalReachesAll
<1>3. FoundSignalReported'
  <2>1. ASSUME NEW w \in VMs
        PROVE  fuzzer'[w].maxSignal \subseteq maxSignal \cup corpusSignal' \cup fuzzer'[w].newSignal
    BY DEF SignalInv, FoundSignalReported
  <2> QED BY <2>1 DEF FoundSignalReported
<1> QED BY <1>1, <1>2, <1>3 DEF SignalInv

LEMMA SignalPollReply == ASSUME SignalInv, NEW v \in VMs, PollReply(v) PROVE SignalInv'
<1> DEFINE f == fuzzer[v]
           ofInputs == UNION {inp.signal : inp \in f.gotInputs}
<1>1. CoverInv'
  BY CoverPollReply DEF SignalInv
<1>2. UNCHANGED <<maxSignal, newMaxSignal, corpusSignal, vm>>
  BY DEF PollReply, servVars
<1>3. ofInputs \subseteq corpusSignal
  BY DEF SignalInv, CoverInv, NoPhantomCoverage
<1>4. Learnt(f) \in Fuzzer /\ Learnt(f).newSignal = f.newSignal /\ Learnt(f).triages = f.triages
      /\ Learnt(f).maxSignal = f.maxSignal \cup f.gotSignal \cup ofInputs
  BY FuzzerFields, LearntType DEF SignalInv, CoverInv, Learnt, Fuzzer
<1>5. /\ fuzzer'[v].maxSignal = f.maxSignal \cup f.gotSignal \cup ofInputs
      /\ fuzzer'[v].newSignal = f.newSignal /\ fuzzer'[v].gotSignal = {}
      /\ fuzzer'[v].triages = f.triages
      /\ \A w \in VMs \ {v} : fuzzer'[w] = fuzzer[w]
  <2> HIDE DEF ofInputs
  <2> QED BY <1>4 DEF PollReply, SignalInv, CoverInv, TypeOK, Fuzzer
<1>6. f.gotSignal \subseteq maxSignal /\ f.newSignal \subseteq f.maxSignal
  BY DEF SignalInv, InFlight
<1> HIDE DEF ofInputs
<1> QED BY <1>1, <1>2, <1>3, <1>5, <1>6, SignalGrows

LEMMA SignalExecute ==
    ASSUME SignalInv, NEW v \in VMs, ExecuteCandidate(v) \/ \E p \in Generated : ExecuteGenerated(v, p)
    PROVE  SignalInv'
<1>1. CoverInv'
  BY CoverExecute DEF SignalInv
<1>2. UNCHANGED <<maxSignal, newMaxSignal, corpusSignal, vm>>
  BY DEF ExecuteCandidate, ExecuteGenerated, servVars
<1>3. PICK g \in Fuzzer, sig \in SUBSET Elems :
          /\ fuzzer' = [fuzzer EXCEPT ![v] = g]
          /\ g.maxSignal = fuzzer[v].maxSignal \cup sig
          /\ g.newSignal = fuzzer[v].newSignal \cup (sig \ fuzzer[v].maxSignal)
          /\ \A t \in g.triages : t \in fuzzer[v].triages \/ t.signal \subseteq g.maxSignal
          /\ g.gotSignal = fuzzer[v].gotSignal
          /\ g.polling = fuzzer[v].polling
  BY ExecuteEffect DEF SignalInv, CoverInv
<1>4. fuzzer'[v] = g /\ \A w \in VMs \ {v} : fuzzer'[w] = fuzzer[w]
  BY <1>3 DEF SignalInv, CoverInv, TypeOK
<1>5. fuzzer[v].newSignal \subseteq fuzzer[v].maxSignal
  BY DEF SignalInv, InFlight
<1> QED BY <1>1, <1>2, <1>3, <1>4, <1>5, SignalGrows

LEMMA SignalTriageDrop ==
    ASSUME SignalInv, NEW v \in VMs, NEW t \in fuzzer[v].triages, TriageDrop(v, t)
    PROVE  SignalInv'
<1>1. CoverInv'
  BY CoverTriageDrop DEF SignalInv
<1>2. UNCHANGED <<maxSignal, newMaxSignal, corpusSignal, vm>>
  BY DEF TriageDrop, servVars
<1>3. /\ fuzzer'[v].maxSignal = fuzzer[v].maxSignal /\ fuzzer'[v].newSignal = fuzzer[v].newSignal
      /\ fuzzer'[v].triages \subseteq fuzzer[v].triages
      /\ fuzzer'[v].gotSignal = fuzzer[v].gotSignal /\ fuzzer'[v].polling = fuzzer[v].polling
      /\ \A w \in VMs \ {v} : fuzzer'[w] = fuzzer[w]
  BY FuzzerFields DEF TriageDrop, SignalInv, CoverInv, TypeOK, Fuzzer
<1>4. fuzzer[v].newSignal \subseteq fuzzer[v].maxSignal
  BY DEF SignalInv, InFlight
<1> QED BY <1>1, <1>2, <1>3, <1>4, SignalGrows

LEMMA SignalTriageSend ==
    ASSUME SignalInv, NEW v \in VMs, NEW t \in fuzzer[v].triages, TriageSend(v, t)
    PROVE  SignalInv'
<1>1. CoverInv'
  BY CoverTriageSend DEF SignalInv
<1>2. PICK inp \in Input :
          /\ inp.signal = t.signal
          /\ NewInputUnread(v, t, inp) \/ NewInputKnown(v, t, inp) \/ NewInputStore(v, t, inp)
  BY TriageInput DEF SignalInv, CoverInv
<1>3. UNCHANGED <<maxSignal, newMaxSignal, corpusSignal, vm>>
  BY <1>2 DEF TriageSend, NewInputUnread, NewInputKnown, NewInputStore, servVars
<1>4. fuzzer[v].newSignal \subseteq fuzzer[v].maxSignal
  BY DEF SignalInv, InFlight
<1>5. fuzzer \in [VMs -> Fuzzer]
  BY DEF SignalInv, CoverInv, TypeOK
<1>6. CASE NewInputUnread(v, t, inp) \/ NewInputKnown(v, t, inp)
  <2> DEFINE g == Added(fuzzer[v], t, inp)
  <2>1. inp.signal \subseteq fuzzer[v].maxSignal
    BY <1>2 DEF SignalInv, InFlight
  <2>2. /\ g.maxSignal = fuzzer[v].maxSignal \cup inp.signal /\ g.newSignal = fuzzer[v].newSignal
        /\ g.gotSignal = fuzzer[v].gotSignal /\ g.polling = fuzzer[v].polling
        /\ g.triages \subseteq fuzzer[v].triages
    BY FuzzerFields, AddedEffect DEF SignalInv, CoverInv
  <2>3. fuzzer' = [fuzzer EXCEPT ![v] = g]
    BY <1>6 DEF NewInputUnread, NewInputKnown
  <2>4. fuzzer'[v] = g /\ \A w \in VMs \ {v} : fuzzer'[w] = fuzzer[w]
    BY <1>5, <2>3
  <2> HIDE DEF g
  <2> QED BY <1>1, <1>3, <1>4, <2>1, <2>2, <2>4, SignalGrows
<1>7. CASE NewInputStore(v, t, inp)
  <2>1. /\ fuzzer'[v].maxSignal = fuzzer[v].maxSignal /\ fuzzer'[v].newSignal = fuzzer[v].newSignal
        /\ fuzzer'[v].triages \subseteq fuzzer[v].triages
        /\ fuzzer'[v].gotSignal = fuzzer[v].gotSignal /\ fuzzer'[v].polling = fuzzer[v].polling
        /\ \A w \in VMs \ {v} : fuzzer'[w] = fuzzer[w]
    BY <1>5, <1>7 DEF NewInputStore, Fuzzer
  <2> QED BY <1>1, <1>3, <1>4, <2>1, SignalGrows
<1> QED BY <1>2, <1>6, <1>7

LEMMA SignalMerge == ASSUME SignalInv, NewInputMerge PROVE SignalInv'
<1>1. CoverInv'
  BY CoverMerge DEF SignalInv
<1>2. PICK a \in accepting :
          /\ a.vm \in VMs
          /\ corpusSignal' = corpusSignal \cup a.input.signal
          /\ \/ fuzzer' = fuzzer
             \/ fuzzer' = [fuzzer EXCEPT ![a.vm] =
                    [fuzzer[a.vm] EXCEPT !.corpusSignal = @ \cup a.input.signal,
                                         !.maxSignal = @ \cup a.input.signal]]
  BY MergeEffect DEF SignalInv, CoverInv
<1> DEFINE v == a.vm
           g == [fuzzer[v] EXCEPT !.corpusSignal = @ \cup a.input.signal,
                                  !.maxSignal = @ \cup a.input.signal]
<1>3. fuzzer \in [VMs -> Fuzzer] /\ v \in VMs
  BY <1>2 DEF SignalInv, CoverInv, TypeOK
<1>4. /\ g.maxSignal = fuzzer[v].maxSignal \cup a.input.signal /\ g.newSignal = fuzzer[v].newSignal
      /\ g.triages = fuzzer[v].triages
      /\ g.gotSignal = fuzzer[v].gotSignal /\ g.polling = fuzzer[v].polling
  BY <1>3 DEF Fuzzer
<1>5. fuzzer'[v] \in {fuzzer[v], g} /\ \A w \in VMs \ {v} : fuzzer'[w] = fuzzer[w]
  <2> HIDE DEF g
  <2>1. fuzzer' = fuzzer \/ fuzzer' = [fuzzer EXCEPT ![v] = g]
    BY <1>2 DEF g
  <2> QED BY <1>3, <2>1
<1>6. fuzzer[v].newSignal \subseteq fuzzer[v].maxSignal
  BY <1>3 DEF SignalInv, InFlight
<1>7. UNCHANGED <<maxSignal, newMaxSignal, vm>>
  BY DEF NewInputMerge
<1> HIDE DEF g, v
<1>8. corpusSignal \subseteq corpusSignal' /\ a.input.signal \subseteq corpusSignal'
  BY <1>2
<1> QED BY <1>1, <1>3, <1>4, <1>5, <1>6, <1>7, <1>8, SignalGrows

LEMMA SignalRestart == ASSUME SignalInv, Restart PROVE SignalInv'
<1>1. \A v \in VMs : /\ vm'[v] = "down" /\ newMaxSignal'[v] = {}
                     /\ fuzzer'[v].maxSignal = {} /\ fuzzer'[v].newSignal = {}
                     /\ fuzzer'[v].gotSignal = {} /\ fuzzer'[v].triages = {}
  BY DEF Restart, NewFuzzer
<1>2. CoverInv'
  BY CoverRestart DEF SignalInv
<1> QED BY <1>1, <1>2 DEF SignalInv, InFlight, MaxSignalReachesAll, FoundSignalReported

LEMMA SignalStep == ASSUME SignalInv, [Next]_vars PROVE SignalInv'
<1>1. CoverInv'
  BY CoverStep DEF SignalInv
<1>2. vm \in [VMs -> {"down", "connecting", "checking", "up"}] /\ fuzzer \in [VMs -> Fuzzer]
  BY DEF SignalInv, CoverInv, TypeOK
<1>3. ASSUME NEW v \in VMs, FuzzerConnect(v) \/ Check(v) PROVE SignalInv'
  <2>1. UNCHANGED <<maxSignal, newMaxSignal, corpusSignal, fuzzer>>
    BY <1>3 DEF FuzzerConnect, Check, servVars
  <2>2. \A w \in VMs : vm'[w] \in {"checking", "up"} => vm[w] \in {"checking", "up"}
    BY <1>2, <1>3 DEF FuzzerConnect, Check
  <2> QED BY <1>1, <2>1, <2>2, SignalOther
<1>4. ASSUME NEW v \in VMs, Crash(v) PROVE SignalInv'
  <2>1. UNCHANGED <<maxSignal, newMaxSignal, corpusSignal>>
    BY <1>4 DEF Crash, servVars
  <2>2. /\ vm'[v] = "down" /\ fuzzer'[v] = NewFuzzer
        /\ \A w \in VMs \ {v} : vm'[w] = vm[w] /\ fuzzer'[w] = fuzzer[w]
    BY <1>2, <1>4 DEF Crash
  <2> QED BY <1>1, <2>1, <2>2, SignalOther
<1>5. CASE HubMinimize \/ HubReceive \/ UNCHANGED vars
  <2>1. UNCHANGED <<maxSignal, newMaxSignal, corpusSignal, fuzzer, vm>>
    BY <1>5 DEF HubMinimize, HubReceive, vars, servVars, vmVars
  <2> QED BY <1>1, <2>1, SignalOther
<1> QED BY <1>3, <1>4, <1>5, SignalConnect, SignalPoll, SignalPollReply, SignalExecute,
           SignalTriageDrop, SignalTriageSend, SignalMerge, SignalRestart DEF Next, VMStep

LEMMA SignalAlways == Spec => []SignalInv
BY SignalInit, SignalStep, PTL DEF Spec

\* Signal one fuzzer reported is known to every running fuzzer, queued for it or
\* on its way to it.
THEOREM SignalReachesAll == Spec => []MaxSignalReachesAll
<1>1. SignalInv => MaxSignalReachesAll
  BY DEF SignalInv
<1> QED BY <1>1, SignalAlways, PTL

\* All the signal a fuzzer knows the manager knows, or is about to be told.
THEOREM SignalReported == Spec => []FoundSignalReported
<1>1. SignalInv => FoundSignalReported
  BY DEF SignalInv
<1> QED BY <1>1, SignalAlways, PTL
=============================================================================
