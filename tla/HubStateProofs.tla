--------------------------- MODULE HubStateProofs ---------------------------
(***************************************************************************)
(* Theorems about HubState, for any sets of managers, programs and repros, *)
(* any limits of a reply and any number of lost calls and restarts.  The   *)
(* corpus and the repros of the hub do not touch each other, so there are  *)
(* two inductive invariants, CorpusInv and ReproInv, one for each.         *)
(***************************************************************************)
EXTENDS HubState, Extrema, FiniteSetTheorems, TLAPS

USE HubAssumption DEF HubAssumption

\* Parts of a set of programs are finite, and no larger.
LEMMA ProgsFinite ==
    ASSUME NEW S \in SUBSET Progs
    PROVE  /\ IsFiniteSet(S) /\ Cardinality(S) \in Nat
           /\ \A T \in SUBSET S : Cardinality(T) <= Cardinality(S)
<1>1. IsFiniteSet(S)
  BY FS_Subset
<1>2. \A T \in SUBSET S : Cardinality(T) <= Cardinality(S)
  BY <1>1, FS_Subset
<1> QED BY <1>1, <1>2, FS_CardinalityType

-----------------------------------------------------------------------------
(* What addInputs, purgeCorpus and pendingInputs return.                   *)

\* addInputs gives the programs it has not a number that no record and no
\* manager has reached, and leaves the others alone.
LEMMA AddedFacts ==
    ASSUME corpusSeq \in Nat, NEW c \in [Progs -> 0 .. corpusSeq], NEW add \in SUBSET Progs
    PROVE  /\ SeqAfter(add) \in Nat /\ corpusSeq <= SeqAfter(add)
           /\ Added(c, add) \in [Progs -> 0 .. SeqAfter(add)]
           /\ \A p \in Progs :
                 /\ c[p] > 0 => Added(c, add)[p] = c[p]
                 /\ p \notin add => Added(c, add)[p] = c[p]
                 /\ p \in add => Added(c, add)[p] > 0
                 /\ p \in add /\ c[p] = 0 => Added(c, add)[p] > corpusSeq
<1>1. /\ SeqAfter(add) \in Nat /\ corpusSeq <= SeqAfter(add)
      /\ add # {} => SeqAfter(add) > corpusSeq
  BY DEF SeqAfter
<1>2. \A p \in Progs : c[p] \in Nat /\ c[p] <= corpusSeq
  OBVIOUS
<1>3. \A p \in Progs : Added(c, add)[p] = IF p \in add /\ c[p] = 0 THEN SeqAfter(add) ELSE c[p]
  BY DEF Added
<1>4. \A p \in Progs : Added(c, add)[p] \in 0 .. SeqAfter(add)
  BY <1>1, <1>2, <1>3
<1>5. Added(c, add) \in [Progs -> 0 .. SeqAfter(add)]
  BY <1>4 DEF Added
<1>6. ASSUME NEW p \in Progs
      PROVE  /\ c[p] > 0 => Added(c, add)[p] = c[p]
             /\ p \notin add => Added(c, add)[p] = c[p]
             /\ p \in add => Added(c, add)[p] > 0
             /\ p \in add /\ c[p] = 0 => Added(c, add)[p] > corpusSeq
  BY <1>1, <1>2, <1>3
<1> QED BY <1>1, <1>5, <1>6

\* purgeCorpus keeps the number of what some manager has, and nothing else.
LEMMA PurgedFacts ==
    ASSUME NEW s \in Nat, NEW c \in [Progs -> 0 .. s], NEW has
    PROVE  /\ Purged(c, has) \in [Progs -> 0 .. s]
           /\ \A p \in Progs :
                 /\ Purged(c, has)[p] > 0 => /\ Purged(c, has)[p] = c[p]
                                             /\ \E m \in Managers : p \in has[m]
                 /\ \A m \in Managers : p \in has[m] => Purged(c, has)[p] = c[p]
<1>1. \A p \in Progs : c[p] \in 0 .. s /\ 0 \in 0 .. s
  OBVIOUS
<1>2. \A p \in Progs : Purged(c, has)[p] = IF \E m \in Managers : p \in has[m] THEN c[p] ELSE 0
  BY DEF Purged
<1>3. Purged(c, has) \in [Progs -> 0 .. s]
  BY <1>1 DEF Purged
<1> QED BY <1>2, <1>3

\* When the records do not fit into a reply there is a number it reaches: that of
\* one of them.
LEMMA ReachedExists ==
    ASSUME NEW s \in Nat, NEW c \in [Progs -> 0 .. s], NEW K \in SUBSET Progs, ~Fits(K)
    PROVE  Reached(K, c) \in {c[k] : k \in K}
<1> DEFINE UpTo(n) == {k \in K : c[k] <= n}
           T == {n \in Nat : Cardinality(UpTo(n)) > MaxRecords}
<1>1. \A k \in K : c[k] \in Nat /\ c[k] <= s
  OBVIOUS
<1>2. \A n \in Nat : Cardinality(UpTo(n)) \in Nat
  BY ProgsFinite
<1>3. UpTo(s) = K
  BY <1>1
<1>4. Cardinality(K) \in Nat /\ Cardinality(K) > MaxRecords
  BY ProgsFinite DEF Fits
<1>5. s \in T
  BY <1>3, <1>4
<1>6. PICK n \in T : \A j \in T : n <= j
  <2>1. T \in SUBSET Nat /\ T # {}
    BY <1>5
  <2> HIDE DEF T
  <2> QED BY <2>1, LeastExists
<1>7. n \in Nat /\ Cardinality(UpTo(n)) > MaxRecords
  OBVIOUS
<1>8. Cardinality({k \in K : c[k] < n}) <= MaxRecords
  <2>1. CASE n = 0
    <3>1. {k \in K : c[k] < n} = {}
      BY <1>1, <2>1
    <3> QED BY <3>1, FS_EmptySet
  <2>2. CASE n # 0
    <3>1. n - 1 \in Nat /\ ~(n <= n - 1)
      BY <1>7, <2>2
    <3>2. n - 1 \notin T
      BY <1>6, <3>1
    <3>3. {k \in K : c[k] < n} = UpTo(n - 1)
      BY <1>1, <1>7
    <3>4. ~(Cardinality(UpTo(n - 1)) > MaxRecords)
      BY <3>1, <3>2
    <3>5. Cardinality(UpTo(n - 1)) \in Nat
      BY <1>2, <3>1
    <3>6. Cardinality(UpTo(n - 1)) <= MaxRecords
      <4> HIDE DEF UpTo
      <4> QED BY <3>4, <3>5
    <3> QED BY <3>3, <3>6
  <2> QED BY <2>1, <2>2
<1>9. \E k \in K : c[k] = n
  <2> SUFFICES ASSUME \A k \in K : c[k] # n PROVE FALSE
    OBVIOUS
  <2>1. UpTo(n) = {k \in K : c[k] < n}
    BY <1>1, <1>7
  <2>2. Cardinality(UpTo(n)) <= MaxRecords
    BY <1>8, <2>1
  <2>3. Cardinality(UpTo(n)) \in Nat
    BY <1>2, <1>7
  <2> HIDE DEF UpTo
  <2> QED BY <1>7, <2>2, <2>3
<1>10. n \in {c[k] : k \in K}
  BY <1>9
<1>11. Cardinality({k \in K : c[k] <= n}) > MaxRecords
  BY <1>7
<1> QED BY <1>8, <1>10, <1>11 DEF Reached

\* What a reply does not bring to a manager, of what it has still to be sent, is
\* behind the number the reply reaches or has been given up.
LEMMA ReplyFacts ==
    ASSUME NEW m \in Managers, NEW s \in Nat, NEW c \in [Progs -> 0 .. s],
           mgrCorpusSeq[m] \in 0 .. s, NEW rep, rep \in Replies(m, c, s)
    PROVE  /\ rep.progs \subseteq Progs /\ rep.givenUp \subseteq Progs /\ rep.upto \in 0 .. s
           /\ \A p \in Pending(m, c) : c[p] > rep.upto \/ p \in rep.progs \cup rep.givenUp
<1>1. \A p \in Progs : c[p] \in Nat /\ c[p] <= s
  OBVIOUS
<1>2. CASE mgrCorpusSeq[m] = s
  <2>1. rep = [progs |-> {}, upto |-> s, givenUp |-> {}]
    BY <1>2 DEF Replies
  <2>2. Pending(m, c) = {}
    BY <1>1, <1>2 DEF Pending
  <2> QED BY <2>1, <2>2
<1>3. CASE mgrCorpusSeq[m] # s
  <2>1. PICK K \in Capped(Pending(m, c), c) :
           rep = [progs |-> {k \in K : Fits(K) \/ c[k] <= Reached(K, c)},
                  upto |-> Upto(K, c, s), givenUp |-> Pending(m, c) \ K]
    BY <1>3 DEF Replies
  <2>2. K \subseteq Pending(m, c) /\ Pending(m, c) \subseteq Progs
    BY <2>1 DEF Capped, Pending
  <2>3. Upto(K, c, s) \in 0 .. s
    <3>1. CASE Fits(K)
      BY <3>1 DEF Upto
    <3>2. CASE ~Fits(K)
      <4>1. PICK k \in K : Reached(K, c) = c[k]
        BY <2>2, <3>2, ReachedExists
      <4> QED BY <1>1, <2>2, <3>2, <4>1 DEF Upto
    <3> QED BY <3>1, <3>2
  <2>4. /\ rep.progs = {k \in K : Fits(K) \/ c[k] <= Reached(K, c)}
        /\ rep.upto = Upto(K, c, s) /\ rep.givenUp = Pending(m, c) \ K
    BY <2>1
  <2>5. ASSUME NEW p \in Pending(m, c)
        PROVE  c[p] > rep.upto \/ p \in rep.progs \cup rep.givenUp
    <3>1. CASE p \in K /\ ~Fits(K) /\ ~(c[p] <= Reached(K, c))
      <4>1. rep.upto = Reached(K, c) /\ rep.upto \in Nat /\ c[p] \in Nat
        BY <1>1, <2>2, <2>3, <2>4, <3>1 DEF Upto
      <4> QED BY <3>1, <4>1
    <3> QED BY <2>4, <3>1
  <2> QED BY <2>2, <2>3, <2>4, <2>5
<1> QED BY <1>2, <1>3

-----------------------------------------------------------------------------
(* The corpus of the hub.                                                  *)

CorpusTyped ==
    /\ corpusSeq \in Nat
    /\ corpus \in [Progs -> 0 .. corpusSeq]
    /\ connected \subseteq known /\ known \subseteq Managers
    /\ mgrCorpusSeq \in [Managers -> 0 .. corpusSeq]
    /\ mgrCorpus \in [Managers -> SUBSET Progs]
    /\ local \in [Managers -> SUBSET Progs]
    /\ hubCorpus \in [Managers -> SUBSET Progs]
    /\ fresh \subseteq Managers
    /\ link \in [Managers -> {"none", "idle", "again"}]
    /\ seen \in [Managers -> SUBSET Progs]

\* A manager the hub has not heard of has no records and has reached nothing.
UnknownAtZero == \A m \in Managers \ known : mgrCorpusSeq[m] = 0 /\ mgrCorpus[m] = {}

\* NothingSkipped without the corpus file: that may lose a program half way through
\* a call or by a deletion, and what was passed over on its account must still count.
SeenOrAhead ==
    \A m \in known : \A p \in Progs \cap Supports[m] :
        corpus[p] > 0 => corpus[p] > mgrCorpusSeq[m] \/ p \in seen[m]

\* What a connected manager has, it has reported.
ReportedIsSeen == \A m \in connected : mgrCorpus[m] \subseteq seen[m]

CorpusInv ==
    CorpusTyped /\ UnknownAtZero /\ SeenOrAhead /\ ReportedIsSeen /\ HubMirrors /\ CorpusIsUsed

corpusVars == <<corpusSeq, corpus, known, connected, mgrCorpusSeq, mgrCorpus, local,
                hubCorpus, fresh, link, seen>>

LEMMA CorpusInvInit == Init => CorpusInv
<1> SUFFICES ASSUME Init PROVE CorpusInv
  OBVIOUS
<1>1. CorpusTyped
  BY DEF Init, CorpusTyped, ForEach
<1> QED
  BY <1>1 DEF Init, CorpusInv, UnknownAtZero, SeenOrAhead, ReportedIsSeen, HubMirrors,
              CorpusIsUsed, Present, ForEach

\* Steps that leave the corpus side alone.
LEMMA SameCorpus == CorpusInv /\ UNCHANGED corpusVars => CorpusInv'
BY DEF CorpusInv, corpusVars, CorpusTyped, UnknownAtZero, SeenOrAhead, ReportedIsSeen, HubMirrors,
       CorpusIsUsed, Present

\* Only a manager's own corpus changes: the hub is told with the next call.
LEMMA LocalCorpusInv ==
    ASSUME CorpusInv, local' \in [Managers -> SUBSET Progs],
           UNCHANGED <<corpusSeq, corpus, known, connected, mgrCorpusSeq, mgrCorpus, hubCorpus,
                       fresh, link, seen>>
    PROVE  CorpusInv'
BY DEF CorpusInv, CorpusTyped, UnknownAtZero, SeenOrAhead, ReportedIsSeen, HubMirrors,
       CorpusIsUsed, Present

\* Connect: the corpus is sent over, the reply arrives or is lost.
LEMMA ConnectCorpusInv ==
    ASSUME CorpusInv, NEW m \in Managers, NEW lost \in 0 .. 1, Connect(m, lost)
    PROVE  CorpusInv'
<1> DEFINE c == Added(corpus, local[m])
           s == SeqAfter(local[m])
<1>1. CorpusTyped /\ local[m] \in SUBSET Progs /\ corpusSeq \in Nat /\ corpus \in [Progs -> 0 .. corpusSeq]
  BY DEF CorpusInv, CorpusTyped
<1>2. /\ s \in Nat /\ corpusSeq <= s
      /\ c \in [Progs -> 0 .. s]
      /\ \A p \in Progs :
            /\ corpus[p] > 0 => c[p] = corpus[p]
            /\ p \notin local[m] => c[p] = corpus[p]
            /\ p \in local[m] => c[p] > 0
            /\ p \in local[m] /\ corpus[p] = 0 => c[p] > corpusSeq
  BY <1>1, AddedFacts
<1>3. /\ known' = known \cup {m} /\ connected' = connected \cup {m}
      /\ mgrCorpusSeq' = [mgrCorpusSeq EXCEPT ![m] = IF m \in fresh THEN 0 ELSE @]
      /\ mgrCorpus' = [mgrCorpus EXCEPT ![m] = local[m]]
      /\ corpusSeq' = s /\ corpus' = Purged(c, mgrCorpus')
      /\ seen' = [seen EXCEPT ![m] = local[m] \cup (IF m \in fresh THEN {} ELSE @)]
      /\ local' = local
      /\ \/ /\ hubCorpus' = [hubCorpus EXCEPT ![m] = local[m]]
            /\ fresh' = fresh \ {m} /\ link' = [link EXCEPT ![m] = "idle"]
         \/ hubCorpus' = hubCorpus /\ fresh' = fresh /\ link' = link /\ link[m] = "none"
  BY DEF Connect, HubConnect, Replaced
<1> HIDE DEF c, s
<1>4. /\ corpus' \in [Progs -> 0 .. s]
      /\ \A p \in Progs :
            /\ corpus'[p] > 0 => corpus'[p] = c[p] /\ \E x \in Managers : p \in mgrCorpus'[x]
            /\ \A x \in Managers : p \in mgrCorpus'[x] => corpus'[p] = c[p]
  <2>1. ASSUME NEW has
        PROVE  /\ Purged(c, has) \in [Progs -> 0 .. s]
               /\ \A p \in Progs :
                     /\ Purged(c, has)[p] > 0 => /\ Purged(c, has)[p] = c[p]
                                                 /\ \E x \in Managers : p \in has[x]
                     /\ \A x \in Managers : p \in has[x] => Purged(c, has)[p] = c[p]
    BY <1>2, PurgedFacts
  <2> QED BY <1>3, <2>1
<1>5. \A x \in Managers :
         /\ mgrCorpusSeq[x] \in 0 .. corpusSeq
         /\ mgrCorpusSeq'[x] = IF x = m /\ m \in fresh THEN 0 ELSE mgrCorpusSeq[x]
         /\ mgrCorpus'[x] = IF x = m THEN local[m] ELSE mgrCorpus[x]
         /\ seen'[x] = IF x = m THEN local[m] \cup (IF m \in fresh THEN {} ELSE seen[m]) ELSE seen[x]
  BY <1>1, <1>3 DEF CorpusTyped
<1>6. CorpusTyped'
  <2>1. mgrCorpusSeq' \in [Managers -> 0 .. s]
    <3>1. \A x \in Managers : mgrCorpusSeq'[x] \in 0 .. s
      BY <1>2, <1>5, <1>1
    <3>2. mgrCorpusSeq' = [x \in Managers |-> mgrCorpusSeq'[x]]
      BY <1>1, <1>3 DEF CorpusTyped
    <3> QED BY <3>1, <3>2
  <2>2. /\ mgrCorpus' \in [Managers -> SUBSET Progs] /\ seen' \in [Managers -> SUBSET Progs]
        /\ hubCorpus' \in [Managers -> SUBSET Progs] /\ local' \in [Managers -> SUBSET Progs]
        /\ link' \in [Managers -> {"none", "idle", "again"}]
    BY <1>1, <1>3 DEF CorpusTyped
  <2>3. connected' \subseteq known' /\ known' \subseteq Managers /\ fresh' \subseteq Managers
    BY <1>1, <1>3 DEF CorpusTyped
  <2> QED BY <1>2, <1>3, <1>4, <2>1, <2>2, <2>3 DEF CorpusTyped
<1>7. UnknownAtZero'
  BY <1>3, <1>5 DEF CorpusInv, UnknownAtZero
<1>8. SeenOrAhead'
  <2> SUFFICES ASSUME NEW x \in known', NEW p \in Progs \cap Supports[x], corpus'[p] > 0
               PROVE  corpus'[p] > mgrCorpusSeq'[x] \/ p \in seen'[x]
    BY DEF SeenOrAhead
  <2>1. x \in Managers /\ corpus'[p] = c[p]
    BY <1>1, <1>3, <1>4 DEF CorpusTyped
  <2> c[p] \in Nat /\ corpus[p] \in Nat
    BY <1>1, <1>2
  <2>2. CASE corpus[p] = 0
    <3>1. c[p] > corpusSeq
      BY <1>2, <2>1, <2>2
    <3>2. mgrCorpusSeq'[x] \in Nat /\ mgrCorpusSeq'[x] <= corpusSeq
      BY <1>1, <1>5, <2>1
    <3> QED BY <1>1, <2>1, <3>1, <3>2
  <2>3. CASE corpus[p] > 0
    <3>1. c[p] = corpus[p]
      BY <1>2, <2>3
    <3>2. CASE x \in known
      BY <1>5, <2>1, <2>3, <3>1, <3>2 DEF CorpusInv, SeenOrAhead
    <3>3. CASE x \notin known
      <4>1. mgrCorpusSeq[x] = 0
        BY <2>1, <3>3 DEF CorpusInv, UnknownAtZero
      <4> QED BY <1>5, <2>1, <2>3, <3>1, <4>1
    <3> QED BY <3>2, <3>3
  <2> QED BY <2>1, <2>2, <2>3
<1>9. ReportedIsSeen'
  BY <1>1, <1>3, <1>5 DEF CorpusInv, CorpusTyped, ReportedIsSeen
<1>10. HubMirrors'
  <2> SUFFICES ASSUME NEW x \in connected', link'[x] # "none" PROVE mgrCorpus'[x] = hubCorpus'[x]
    BY DEF HubMirrors
  <2>1. x \in Managers
    BY <1>1, <1>3 DEF CorpusTyped
  <2>2. CASE x = m
    BY <1>1, <1>3, <1>5, <2>2 DEF CorpusTyped
  <2>3. CASE x # m
    <3>1. x \in connected /\ link[x] # "none" /\ hubCorpus'[x] = hubCorpus[x]
      BY <1>1, <1>3, <2>1, <2>3 DEF CorpusTyped
    <3> QED BY <1>5, <2>1, <2>3, <3>1 DEF CorpusInv, HubMirrors
  <2> QED BY <2>2, <2>3
<1>11. CorpusIsUsed'
  <2>1. ASSUME NEW p \in Progs, corpus'[p] > 0 PROVE \E x \in known' : p \in mgrCorpus'[x]
    <3>1. PICK x \in Managers : p \in mgrCorpus'[x]
      BY <1>4, <2>1
    <3>2. x \in known'
      BY <1>3, <1>5, <3>1 DEF CorpusInv, UnknownAtZero
    <3> QED BY <3>1, <3>2
  <2>2. ASSUME NEW x \in connected', NEW p \in mgrCorpus'[x] PROVE p \in Progs /\ corpus'[p] > 0
    <3>1. x \in Managers /\ p \in Progs
      BY <1>3, <1>6, <2>2 DEF CorpusTyped
    <3>2. corpus'[p] = c[p]
      BY <1>4, <3>1, <2>2
    <3>3. CASE x = m
      BY <1>2, <1>5, <2>2, <3>1, <3>2, <3>3
    <3>4. CASE x # m
      <4>1. x \in connected /\ p \in mgrCorpus[x]
        BY <1>3, <1>5, <2>2, <3>1, <3>4
      <4>2. corpus[p] > 0
        BY <4>1, <3>1 DEF CorpusInv, CorpusIsUsed, Present
      <4> QED BY <1>2, <3>1, <3>2, <4>2
    <3> QED BY <3>3, <3>4
  <2> QED BY <2>1, <2>2 DEF CorpusIsUsed, Present
<1> QED BY <1>6, <1>7, <1>8, <1>9, <1>10, <1>11 DEF CorpusInv

\* The part of a sync call that is about the corpus, with its reply: the first call
\* of the connector's loop, and the empty ones that follow it.
LEMMA SyncCorpusInv ==
    ASSUME CorpusInv, NEW m \in connected, NEW add \in SUBSET Progs, NEW del \in SUBSET Progs,
           \/ /\ link[m] = "idle" /\ add = Adds(m) /\ del = Dels(m)
              /\ hubCorpus' = [hubCorpus EXCEPT ![m] = local[m]]
           \/ /\ link[m] = "again" /\ add = {} /\ del = {} /\ hubCorpus' = hubCorpus,
           mgrCorpus' = [mgrCorpus EXCEPT ![m] = (@ \ del) \cup add],
           corpusSeq' = SeqAfter(add),
           corpus' = Added(IF del = {} THEN corpus
                           ELSE Purged(corpus, [mgrCorpus EXCEPT ![m] = @ \ del]), add),
           NEW rep, rep \in Replies(m, corpus', corpusSeq'), Replied(m, rep, add),
           NEW l \in {"none", "idle", "again"}, link' = [link EXCEPT ![m] = l],
           UNCHANGED <<known, connected, local, fresh>>
    PROVE  CorpusInv'
<1> DEFINE has == [mgrCorpus EXCEPT ![m] = @ \ del]
           c == IF del = {} THEN corpus ELSE Purged(corpus, has)
           s == SeqAfter(add)
<1>1. CorpusTyped /\ m \in Managers /\ corpusSeq \in Nat /\ corpus \in [Progs -> 0 .. corpusSeq]
  BY DEF CorpusInv, CorpusTyped
<1>2. \A x \in Managers : has[x] = IF x = m THEN mgrCorpus[m] \ del ELSE mgrCorpus[x]
  BY <1>1 DEF CorpusTyped
<1>3. /\ c \in [Progs -> 0 .. corpusSeq]
      /\ \A p \in Progs :
            /\ c[p] > 0 => /\ c[p] = corpus[p]
                           /\ del # {} => \E x \in Managers : p \in has[x]
            /\ \A x \in Managers : p \in has[x] => c[p] = corpus[p]
  <2> HIDE DEF has
  <2>1. CASE del = {}
    BY <1>1, <2>1
  <2>2. CASE del # {}
    BY <1>1, <2>2, PurgedFacts
  <2> QED BY <2>1, <2>2
<1>4. corpus' = Added(c, add) /\ corpusSeq' = s
  OBVIOUS
<1> HIDE DEF c
<1>5. /\ s \in Nat /\ corpusSeq <= s
      /\ corpus' \in [Progs -> 0 .. s]
      /\ \A p \in Progs :
            /\ c[p] > 0 => corpus'[p] = c[p]
            /\ p \notin add => corpus'[p] = c[p]
            /\ p \in add => corpus'[p] > 0
            /\ p \in add /\ c[p] = 0 => corpus'[p] > corpusSeq
  <2> HIDE DEF s, has
  <2>1. /\ SeqAfter(add) \in Nat /\ corpusSeq <= SeqAfter(add)
        /\ Added(c, add) \in [Progs -> 0 .. SeqAfter(add)]
        /\ \A p \in Progs :
              /\ c[p] > 0 => Added(c, add)[p] = c[p]
              /\ p \notin add => Added(c, add)[p] = c[p]
              /\ p \in add => Added(c, add)[p] > 0
              /\ p \in add /\ c[p] = 0 => Added(c, add)[p] > corpusSeq
    BY <1>1, <1>3, AddedFacts
  <2> QED BY <1>4, <2>1 DEF s
<1> HIDE DEF s, has
<1>6. mgrCorpusSeq[m] \in 0 .. s
  <2>1. mgrCorpusSeq[m] \in 0 .. corpusSeq
    BY <1>1 DEF CorpusTyped
  <2> QED BY <1>1, <1>5, <2>1
<1>7. /\ rep.progs \subseteq Progs /\ rep.givenUp \subseteq Progs /\ rep.upto \in 0 .. s
      /\ \A p \in Pending(m, corpus') : corpus'[p] > rep.upto \/ p \in rep.progs \cup rep.givenUp
  <2>1. rep \in Replies(m, corpus', s)
    BY <1>4
  <2> QED BY <1>1, <1>5, <1>6, <2>1, ReplyFacts
<1>8. /\ mgrCorpusSeq' = [mgrCorpusSeq EXCEPT ![m] = rep.upto]
      /\ seen' = [seen EXCEPT ![m] = @ \cup add \cup rep.progs \cup rep.givenUp]
  BY DEF Replied
<1>9. \A x \in Managers :
         /\ mgrCorpusSeq[x] \in 0 .. corpusSeq
         /\ mgrCorpusSeq'[x] = IF x = m THEN rep.upto ELSE mgrCorpusSeq[x]
         /\ mgrCorpus'[x] = IF x = m THEN (mgrCorpus[m] \ del) \cup add ELSE mgrCorpus[x]
         /\ seen'[x] = IF x = m THEN seen[m] \cup add \cup rep.progs \cup rep.givenUp ELSE seen[x]
  BY <1>1, <1>8 DEF CorpusTyped
<1>10. CorpusTyped'
  <2>1. mgrCorpusSeq' \in [Managers -> 0 .. s]
    <3>1. \A x \in Managers : mgrCorpusSeq'[x] \in 0 .. s
      BY <1>1, <1>5, <1>7, <1>9
    <3>2. mgrCorpusSeq' = [x \in Managers |-> mgrCorpusSeq'[x]]
      BY <1>1, <1>8 DEF CorpusTyped
    <3> QED BY <3>1, <3>2
  <2>2. mgrCorpus' \in [Managers -> SUBSET Progs]
    BY <1>1 DEF CorpusTyped
  <2>3. seen' \in [Managers -> SUBSET Progs]
    BY <1>1, <1>7, <1>8 DEF CorpusTyped
  <2>4. hubCorpus' \in [Managers -> SUBSET Progs] /\ link' \in [Managers -> {"none", "idle", "again"}]
    BY <1>1 DEF CorpusTyped
  <2> QED BY <1>1, <1>4, <1>5, <2>1, <2>2, <2>3, <2>4 DEF CorpusTyped
<1>11. UnknownAtZero'
  BY <1>1, <1>9 DEF CorpusInv, CorpusTyped, UnknownAtZero
<1>12. ReportedIsSeen'
  BY <1>1, <1>9 DEF CorpusInv, CorpusTyped, ReportedIsSeen
<1>13. SeenOrAhead'
  <2> SUFFICES ASSUME NEW x \in known, NEW p \in Progs \cap Supports[x], corpus'[p] > 0
               PROVE  corpus'[p] > mgrCorpusSeq'[x] \/ p \in seen'[x]
    BY DEF SeenOrAhead
  <2>1. x \in Managers /\ p \in Progs
    BY <1>1 DEF CorpusTyped
  <2>2. c[p] \in Nat /\ corpus'[p] \in Nat
    <3>1. c[p] \in 0 .. corpusSeq
      BY <1>3, <2>1
    <3>2. corpus'[p] \in 0 .. s
      BY <1>5, <2>1
    <3> QED BY <3>1, <3>2
  <2>3. corpus'[p] > mgrCorpusSeq[x] \/ p \in seen[x]
    <3>1. CASE c[p] > 0
      BY <1>3, <1>5, <2>1, <3>1 DEF CorpusInv, SeenOrAhead
    <3>2. CASE c[p] = 0
      <4>1. corpus'[p] > corpusSeq
        <5>1. p \in add
          <6>1. p \notin add => corpus'[p] = 0
            BY <1>5, <2>1, <3>2
          <6> QED BY <6>1
        <5> QED BY <1>5, <2>1, <3>2, <5>1
      <4>2. mgrCorpusSeq[x] \in Nat /\ mgrCorpusSeq[x] <= corpusSeq
        BY <1>1, <1>9, <2>1
      <4> QED BY <1>1, <2>2, <4>1, <4>2
    <3> QED BY <2>2, <3>1, <3>2
  <2>4. CASE x # m
    BY <1>9, <2>1, <2>3, <2>4
  <2>5. CASE x = m
    <3>1. CASE p \in seen[m]
      BY <1>9, <2>1, <2>5, <3>1
    <3>2. CASE p \in mgrCorpus'[m]
      <4>1. mgrCorpus'[m] \subseteq seen'[m]
        BY <1>12 DEF ReportedIsSeen
      <4> QED BY <2>5, <3>2, <4>1
    <3>3. CASE p \notin seen[m] /\ p \notin mgrCorpus'[m]
      <4>1. p \in Pending(m, corpus')
        BY <2>1, <2>3, <2>5, <3>3 DEF Pending
      <4> QED BY <1>1, <1>7, <1>9, <2>5, <4>1
    <3> QED BY <3>1, <3>2, <3>3
  <2> QED BY <2>4, <2>5
<1>14. HubMirrors'
  <2> SUFFICES ASSUME NEW x \in connected, link'[x] # "none" PROVE mgrCorpus'[x] = hubCorpus'[x]
    BY DEF HubMirrors
  <2>1. x \in Managers
    BY <1>1 DEF CorpusTyped
  <2>2. CASE x = m
    <3>1. mgrCorpus[m] = hubCorpus[m]
      BY DEF CorpusInv, HubMirrors
    <3> QED BY <1>1, <1>9, <2>1, <2>2, <3>1 DEF CorpusTyped, Adds, Dels
  <2>3. CASE x # m
    <3>1. link[x] # "none" /\ hubCorpus'[x] = hubCorpus[x]
      BY <1>1, <2>1, <2>3 DEF CorpusTyped
    <3> QED BY <1>9, <2>1, <2>3, <3>1 DEF CorpusInv, HubMirrors
  <2> QED BY <2>2, <2>3
<1>15. CorpusIsUsed'
  <2>1. ASSUME NEW p \in Progs, corpus'[p] > 0 PROVE \E x \in known : p \in mgrCorpus'[x]
    <3>1. CASE p \in add
      <4>1. m \in known /\ p \in mgrCorpus'[m]
        BY <1>1, <1>9, <3>1 DEF CorpusTyped
      <4> QED BY <4>1
    <3>2. CASE p \notin add
      <4>1. c[p] > 0 /\ corpus[p] > 0
        BY <1>3, <1>5, <2>1, <3>2
      <4>2. CASE del = {}
        <5>1. PICK x \in known : p \in mgrCorpus[x]
          BY <4>1 DEF CorpusInv, CorpusIsUsed, Present
        <5>2. x \in Managers
          BY <1>1, <5>1 DEF CorpusTyped
        <5>3. p \in mgrCorpus'[x]
          BY <1>9, <4>2, <5>1, <5>2
        <5> QED BY <5>3
      <4>3. CASE del # {}
        <5>1. PICK x \in Managers : p \in has[x]
          BY <1>3, <4>1, <4>3
        <5>2. p \in mgrCorpus[x] /\ p \in mgrCorpus'[x]
          BY <1>2, <1>9, <5>1
        <5>3. x \in known
          BY <5>2 DEF CorpusInv, UnknownAtZero
        <5> QED BY <5>2, <5>3
      <4> QED BY <4>2, <4>3
    <3> QED BY <3>1, <3>2
  <2>2. ASSUME NEW x \in connected, NEW p \in mgrCorpus'[x] PROVE p \in Progs /\ corpus'[p] > 0
    <3>1. x \in Managers /\ p \in Progs
      BY <1>1, <1>10, <2>2 DEF CorpusTyped
    <3>2. CASE p \in add
      BY <1>5, <3>1, <3>2
    <3>3. CASE p \notin add
      <4>1. p \in mgrCorpus[x] /\ p \in has[x]
        BY <1>2, <1>9, <2>2, <3>1, <3>3
      <4>2. corpus[p] > 0
        BY <3>1, <4>1 DEF CorpusInv, CorpusIsUsed, Present
      <4> QED BY <1>3, <1>5, <3>1, <3>3, <4>1, <4>2
    <3> QED BY <3>2, <3>3
  <2> QED BY <2>1, <2>2 DEF CorpusIsUsed, Present
<1> QED BY <1>10, <1>11, <1>12, <1>13, <1>14, <1>15 DEF CorpusInv

\* The connector gives up the connection.
LEMMA DisconnectCorpusInv ==
    ASSUME CorpusInv, NEW m \in Managers, Disconnect(m)
    PROVE  CorpusInv'
<1>1. /\ hubCorpus' = [hubCorpus EXCEPT ![m] = IF link[m] = "idle" THEN local[m] ELSE @]
      /\ link' = [link EXCEPT ![m] = "none"]
      /\ UNCHANGED <<corpusSeq, corpus, known, connected, mgrCorpusSeq, mgrCorpus, local, fresh, seen>>
  BY DEF Disconnect, hubVars, historyVars
<1>2. CorpusTyped
  BY DEF CorpusInv
<1>3. CorpusTyped'
  BY <1>1, <1>2 DEF CorpusTyped
<1>4. HubMirrors'
  <2> SUFFICES ASSUME NEW x \in connected, link'[x] # "none" PROVE mgrCorpus'[x] = hubCorpus'[x]
    BY <1>1 DEF HubMirrors
  <2>1. x \in Managers /\ x # m
    BY <1>1, <1>2 DEF CorpusTyped
  <2>2. link'[x] = link[x] /\ hubCorpus'[x] = hubCorpus[x]
    BY <1>1, <1>2, <2>1 DEF CorpusTyped
  <2> QED BY <1>1, <2>2 DEF CorpusInv, HubMirrors
<1> QED
  BY <1>1, <1>3, <1>4 DEF CorpusInv, UnknownAtZero, SeenOrAhead, ReportedIsSeen, CorpusIsUsed, Present

\* The number a restart goes on from is no less than that of a record, nor than
\* what any manager has reached, although nothing on disk has it.
LEMMA LoadedSeqFacts ==
    ASSUME CorpusTyped, UnknownAtZero
    PROVE  /\ LoadedSeq \in Nat
           /\ \A p \in Progs : corpus[p] <= LoadedSeq
           /\ \A m \in Managers : mgrCorpusSeq[m] <= LoadedSeq
<1> DEFINE S == {0} \cup {corpus[p] : p \in Progs} \cup {mgrCorpusSeq[m] : m \in known}
<1>1. corpusSeq \in Nat /\ S \in SUBSET (0 .. corpusSeq) /\ 0 \in S
  BY DEF CorpusTyped
<1>2. LoadedSeq = Max(S)
  BY DEF LoadedSeq
<1>3. /\ \A p \in Progs : corpus[p] \in S
      /\ \A m \in Managers : mgrCorpusSeq[m] \in S
  <2>1. \A m \in Managers \ known : mgrCorpusSeq[m] = 0
    BY DEF UnknownAtZero
  <2> QED BY <2>1
<1> HIDE DEF S
<1>4. Max(S) \in S /\ \A k \in S : k <= Max(S)
  BY <1>1, MaxIsGreatest
<1>5. Max(S) \in Nat
  <2>1. Max(S) \in 0 .. corpusSeq
    BY <1>1, <1>4, Zenon
  <2> QED BY <2>1
<1>6. \A p \in Progs : corpus[p] <= Max(S)
  BY <1>3, <1>4
<1>7. \A m \in Managers : mgrCorpusSeq[m] <= Max(S)
  BY <1>3, <1>4
<1> QED BY <1>2, <1>5, <1>6, <1>7

\* The hub starts again from its directory, perhaps from the middle of a call.
LEMMA RestartCorpusInv ==
    ASSUME CorpusInv, Restart
    PROVE  CorpusInv'
<1>1. CorpusTyped /\ corpusSeq \in Nat /\ corpus \in [Progs -> 0 .. corpusSeq]
  BY DEF CorpusInv, CorpusTyped
<1>2. /\ connected' = {} /\ corpusSeq' = LoadedSeq /\ corpus' = Purged(corpus, mgrCorpus')
      /\ UNCHANGED <<known, mgrCorpusSeq, local, hubCorpus, fresh, link, seen>>
  BY DEF Restart, clientVars, historyVars
<1>3. /\ LoadedSeq \in Nat
      /\ \A p \in Progs : corpus[p] <= LoadedSeq
      /\ \A m \in Managers : mgrCorpusSeq[m] <= LoadedSeq
  BY <1>1, LoadedSeqFacts DEF CorpusInv
<1>4. /\ \A p \in Progs : corpus[p] \in 0 .. LoadedSeq
      /\ \A m \in Managers : mgrCorpusSeq[m] \in 0 .. LoadedSeq
  <2>1. /\ \A p \in Progs : corpus[p] \in Nat
        /\ \A m \in Managers : mgrCorpusSeq[m] \in Nat
    BY <1>1 DEF CorpusTyped
  <2> QED BY <1>3, <2>1
<1>5. corpus \in [Progs -> 0 .. LoadedSeq] /\ mgrCorpusSeq \in [Managers -> 0 .. LoadedSeq]
  BY <1>1, <1>4 DEF CorpusTyped
<1>6. /\ mgrCorpus' \in [Managers -> SUBSET Progs]
      /\ \A x \in Managers \ known : mgrCorpus'[x] = mgrCorpus[x]
  <2>1. CASE UNCHANGED mgrCorpus
    BY <1>1, <2>1 DEF CorpusTyped
  <2>2. ASSUME NEW m \in known, NEW S \in Halfway(m), mgrCorpus' = [mgrCorpus EXCEPT ![m] = S]
        PROVE  /\ mgrCorpus' \in [Managers -> SUBSET Progs]
               /\ \A x \in Managers \ known : mgrCorpus'[x] = mgrCorpus[x]
    <3>1. m \in Managers /\ S \in SUBSET Progs
      BY <1>1 DEF CorpusTyped, Halfway
    <3> QED BY <1>1, <2>2, <3>1 DEF CorpusTyped
  <2>3. UNCHANGED mgrCorpus \/ \E m \in known : \E S \in Halfway(m) : mgrCorpus' = [mgrCorpus EXCEPT ![m] = S]
    BY DEF Restart
  <2> QED BY <2>1, <2>2, <2>3
<1>7. /\ corpus' \in [Progs -> 0 .. LoadedSeq]
      /\ \A p \in Progs : corpus'[p] > 0 => corpus'[p] = corpus[p] /\ \E x \in Managers : p \in mgrCorpus'[x]
  <2>1. ASSUME NEW has
        PROVE  /\ Purged(corpus, has) \in [Progs -> 0 .. LoadedSeq]
               /\ \A p \in Progs : Purged(corpus, has)[p] > 0 =>
                     Purged(corpus, has)[p] = corpus[p] /\ \E x \in Managers : p \in has[x]
    BY <1>3, <1>5, PurgedFacts
  <2> QED BY <1>2, <2>1
<1>8. CorpusTyped'
  BY <1>1, <1>2, <1>3, <1>5, <1>6, <1>7 DEF CorpusTyped
<1>9. UnknownAtZero' /\ ReportedIsSeen' /\ HubMirrors'
  BY <1>2, <1>6 DEF CorpusInv, UnknownAtZero, ReportedIsSeen, HubMirrors
<1>10. SeenOrAhead'
  <2> SUFFICES ASSUME NEW x \in known, NEW p \in Progs \cap Supports[x], corpus'[p] > 0
               PROVE  corpus'[p] > mgrCorpusSeq[x] \/ p \in seen[x]
    BY <1>2 DEF SeenOrAhead
  <2>1. corpus'[p] = corpus[p]
    BY <1>7
  <2> QED BY <2>1 DEF CorpusInv, SeenOrAhead
<1>11. CorpusIsUsed'
  <2>1. ASSUME NEW p \in Progs, corpus'[p] > 0 PROVE \E x \in known' : p \in mgrCorpus'[x]
    <3>1. PICK x \in Managers : p \in mgrCorpus'[x]
      BY <1>7, <2>1
    <3>2. x \in known'
      BY <1>2, <1>6, <3>1 DEF CorpusInv, UnknownAtZero
    <3> QED BY <3>1, <3>2
  <2> QED BY <1>2, <2>1 DEF CorpusIsUsed, Present
<1> QED BY <1>8, <1>9, <1>10, <1>11 DEF CorpusInv

\* The first call of the connector's loop, and those that follow it.
LEMMA SyncsCorpusInv ==
    ASSUME CorpusInv, NEW m \in Managers, NEW lost \in 0 .. 1,
           (\E need \in BOOLEAN : Sync(m, need, lost)) \/ SyncAgain(m, lost)
    PROVE  CorpusInv'
<1>1. CorpusTyped
  BY DEF CorpusInv
<1>2. ASSUME NEW need \in BOOLEAN, Sync(m, need, lost) PROVE CorpusInv'
  <2>1. m \in connected /\ link[m] = "idle" /\ Adds(m) \in SUBSET Progs /\ Dels(m) \in SUBSET Progs
    BY <1>1, <1>2 DEF Sync, CorpusTyped, Adds, Dels
  <2>2. PICK rep \in Replies(m, corpus', corpusSeq') :
           /\ Replied(m, rep, Adds(m))
           /\ link' = [link EXCEPT ![m] = IF lost = 1 THEN "none"
                                          ELSE IF rep.progs = {} THEN "idle" ELSE "again"]
    BY <1>2 DEF Sync
  <2>3. PICK l \in {"none", "idle", "again"} : link' = [link EXCEPT ![m] = l]
    BY <2>2
  <2>4. /\ mgrCorpus' = [mgrCorpus EXCEPT ![m] = (@ \ Dels(m)) \cup Adds(m)]
        /\ corpusSeq' = SeqAfter(Adds(m))
        /\ corpus' = Added(IF Dels(m) = {} THEN corpus
                           ELSE Purged(corpus, [mgrCorpus EXCEPT ![m] = @ \ Dels(m)]), Adds(m))
        /\ hubCorpus' = [hubCorpus EXCEPT ![m] = local[m]]
        /\ UNCHANGED <<known, connected, local, fresh>>
    BY <1>2 DEF Sync, HubSync
  <2> QED BY <2>1, <2>2, <2>3, <2>4, SyncCorpusInv
<1>3. ASSUME SyncAgain(m, lost) PROVE CorpusInv'
  <2>1. m \in connected /\ link[m] = "again"
    BY <1>3 DEF SyncAgain
  <2>2. PICK rep \in Replies(m, corpus', corpusSeq') :
           /\ Replied(m, rep, {})
           /\ link' = [link EXCEPT ![m] = IF lost = 1 THEN "none"
                                          ELSE IF rep.progs = {} THEN "idle" ELSE "again"]
    BY <1>3 DEF SyncAgain
  <2>3. PICK l \in {"none", "idle", "again"} : link' = [link EXCEPT ![m] = l]
    BY <2>2
  <2>4. /\ mgrCorpus' = [mgrCorpus EXCEPT ![m] = (@ \ {}) \cup {}]
        /\ corpusSeq' = SeqAfter({})
        /\ corpus' = Added(IF {} = {} THEN corpus
                           ELSE Purged(corpus, [mgrCorpus EXCEPT ![m] = @ \ {}]), {})
        /\ UNCHANGED <<known, connected, local, hubCorpus, fresh>>
    BY <1>3 DEF SyncAgain, HubSync
  <2>5. {} \in SUBSET Progs
    OBVIOUS
  <2> QED BY <2>1, <2>2, <2>3, <2>4, <2>5, SyncCorpusInv
<1> QED BY <1>2, <1>3

LEMMA CorpusInvNext == CorpusInv /\ [Next]_vars => CorpusInv'
<1> SUFFICES ASSUME CorpusInv, [Next]_vars PROVE CorpusInv'
  OBVIOUS
<1>1. CorpusTyped
  BY DEF CorpusInv
<1>2. CASE UNCHANGED vars
  BY <1>2, SameCorpus DEF vars, hubVars, clientVars, historyVars, corpusVars
<1>3. ASSUME NEW m \in Managers, NEW lost \in 0 .. 1, Connect(m, lost) PROVE CorpusInv'
  BY <1>3, ConnectCorpusInv
<1>4. ASSUME NEW m \in Managers, NEW lost \in 0 .. 1,
             (\E need \in BOOLEAN : Sync(m, need, lost)) \/ SyncAgain(m, lost)
      PROVE  CorpusInv'
  BY <1>4, SyncsCorpusInv
<1>5. ASSUME NEW m \in Managers, Refused(m) \/ RequestLost(m) PROVE CorpusInv'
  BY <1>5, DisconnectCorpusInv DEF Refused, RequestLost
<1>6. ASSUME NEW m \in Managers, NEW p \in Progs, Find(m, p) \/ Minimize(m, p) PROVE CorpusInv'
  <2>1. local' \in [Managers -> SUBSET Progs]
    BY <1>1, <1>6 DEF Find, Minimize, CorpusTyped
  <2>2. UNCHANGED <<corpusSeq, corpus, known, connected, mgrCorpusSeq, mgrCorpus, hubCorpus,
                    fresh, link, seen>>
    BY <1>6 DEF Find, Minimize, hubVars, historyVars
  <2> QED BY <2>1, <2>2, LocalCorpusInv
<1>7. ASSUME NEW m \in Managers, NEW r \in Repros, FindRepro(m, r) PROVE CorpusInv'
  BY <1>7, SameCorpus DEF FindRepro, hubVars, historyVars, corpusVars
<1>8. CASE Restart
  BY <1>8, RestartCorpusInv
<1> QED BY <1>2, <1>3, <1>4, <1>5, <1>6, <1>7, <1>8 DEF Next, ConnectorStep

\* The invariant of the hub's corpus, from which what is said of it below follows
\* (Connect, Sync, addInputs, purgeCorpus, pendingInputs and Make of state.go).
THEOREM CorpusInvHolds == Spec => []CorpusInv
BY CorpusInvInit, CorpusInvNext, PTL DEF Spec

-----------------------------------------------------------------------------
(* The repros of the hub.                                                  *)

ReprosTyped ==
    /\ reproSeq \in Nat
    /\ repros \in [Repros -> 0 .. reproSeq]
    /\ known \subseteq Managers
    /\ mgrReproSeq \in [Managers -> 0 .. reproSeq]
    /\ ownRepros \in [Managers -> SUBSET Repros]
    /\ newRepros \in [Managers -> SUBSET Repros]
    /\ seenRepros \in [Managers -> SUBSET Repros]
    /\ origin \in [Repros -> SUBSET Managers]
    /\ resent \subseteq Managers \X Repros
    /\ restarts \in Nat

\* What a manager is not sent because it is its own, or was sent again, counts as seen.
OwnAreSeen ==
    \A m \in Managers : ownRepros[m] \cup {r \in Repros : <<m, r>> \in resent} \subseteq seenRepros[m]

\* What a manager has seen is not ahead of it any more, unless it was the first to bring
\* it; then it is among its own until the hub restarts.
SeenIsBehind ==
    \A m \in Managers : \A r \in seenRepros[m] :
        /\ repros[r] > 0
        /\ repros[r] <= mgrReproSeq[m] \/ (m \in origin[r] /\ (restarts > 0 \/ r \in ownRepros[m]))

ReproInv == ReprosTyped /\ OwnAreSeen /\ SeenIsBehind /\ ReprosNotSkipped /\ ReprosSentOnce

reproVars == <<reproSeq, repros, known, mgrReproSeq, ownRepros, newRepros, seenRepros, origin,
               resent, restarts>>

LEMMA ReproInvInit == Init => ReproInv
<1> SUFFICES ASSUME Init PROVE ReproInv
  OBVIOUS
<1>1. ReprosTyped
  BY DEF Init, ReprosTyped, ForEach
<1> QED
  BY <1>1 DEF Init, ReproInv, OwnAreSeen, SeenIsBehind, ReprosNotSkipped, ReprosSentOnce, ForEach

LEMMA SameRepros == ReproInv /\ UNCHANGED reproVars => ReproInv'
BY DEF ReproInv, reproVars, ReprosTyped, OwnAreSeen, SeenIsBehind, ReprosNotSkipped, ReprosSentOnce

\* A manager finds repros of its own, or has handed them over.
LEMMA NewReprosInv ==
    ASSUME ReproInv, newRepros' \in [Managers -> SUBSET Repros],
           UNCHANGED <<reproSeq, repros, known, mgrReproSeq, ownRepros, seenRepros, origin,
                       resent, restarts>>
    PROVE  ReproInv'
BY DEF ReproInv, ReprosTyped, OwnAreSeen, SeenIsBehind, ReprosNotSkipped, ReprosSentOnce

\* Connect moves a manager that is new to the hub, or fresh, behind all repros.
LEMMA ConnectReproInv ==
    ASSUME ReproInv, NEW m \in Managers, NEW lost \in 0 .. 1, Connect(m, lost)
    PROVE  ReproInv'
<1> DEFINE starts == m \in fresh \/ m \notin known
<1>1. ReprosTyped
  BY DEF ReproInv
<1>2. /\ known' = known \cup {m}
      /\ mgrReproSeq' = [mgrReproSeq EXCEPT ![m] = IF starts THEN reproSeq ELSE @]
      /\ seenRepros' = [seenRepros EXCEPT ![m] =
            @ \cup (IF starts THEN {r \in Repros : repros[r] > 0} ELSE {})]
      /\ UNCHANGED <<reproSeq, repros, ownRepros, newRepros, origin, resent, restarts>>
  BY DEF Connect, HubConnect
<1>3. \A x \in Managers :
         /\ mgrReproSeq[x] \in 0 .. reproSeq
         /\ mgrReproSeq'[x] = IF x = m /\ starts THEN reproSeq ELSE mgrReproSeq[x]
         /\ seenRepros'[x] = IF x = m THEN seenRepros[m] \cup (IF starts THEN {r \in Repros : repros[r] > 0} ELSE {})
                             ELSE seenRepros[x]
  <2> HIDE DEF starts
  <2> QED BY <1>1, <1>2 DEF ReprosTyped
<1>4. m \notin known => starts
  OBVIOUS
<1> HIDE DEF starts
<1>5. ReprosTyped'
  <2>1. mgrReproSeq' \in [Managers -> 0 .. reproSeq]
    <3>1. reproSeq \in 0 .. reproSeq
      BY <1>1 DEF ReprosTyped
    <3> QED BY <1>1, <1>2, <3>1 DEF ReprosTyped
  <2>2. seenRepros' \in [Managers -> SUBSET Repros]
    BY <1>1, <1>2 DEF ReprosTyped
  <2> QED BY <1>1, <1>2, <2>1, <2>2 DEF ReprosTyped
<1>6. OwnAreSeen' /\ ReprosSentOnce'
  BY <1>2, <1>3 DEF ReproInv, OwnAreSeen, ReprosSentOnce
<1>7. ReprosNotSkipped'
  <2> SUFFICES ASSUME restarts = 0, NEW x \in known', NEW r \in Repros \cap Supports[x], repros[r] > 0
               PROVE  repros[r] > mgrReproSeq'[x] \/ r \in seenRepros'[x]
    BY <1>2 DEF ReprosNotSkipped
  <2>1. x \in Managers
    BY <1>1, <1>2 DEF ReprosTyped
  <2>2. CASE x = m /\ starts
    BY <1>3, <2>1, <2>2
  <2>3. CASE ~(x = m /\ starts)
    <3>1. x \in known /\ mgrReproSeq'[x] = mgrReproSeq[x] /\ seenRepros[x] \subseteq seenRepros'[x]
      BY <1>2, <1>3, <1>4, <2>1, <2>3
    <3> QED BY <3>1 DEF ReproInv, ReprosNotSkipped
  <2> QED BY <2>2, <2>3
<1>8. SeenIsBehind'
  <2> SUFFICES ASSUME NEW x \in Managers, NEW r \in seenRepros'[x]
               PROVE  /\ repros[r] > 0
                      /\ \/ repros[r] <= mgrReproSeq'[x]
                         \/ x \in origin[r] /\ (restarts > 0 \/ r \in ownRepros[x])
    BY <1>2 DEF SeenIsBehind
  <2>1. r \in Repros
    BY <1>5 DEF ReprosTyped
  <2>2. repros[r] \in Nat /\ repros[r] <= reproSeq /\ reproSeq \in Nat /\ mgrReproSeq[x] \in Nat
        /\ mgrReproSeq[x] <= reproSeq
    BY <1>1, <2>1 DEF ReprosTyped
  <2>3. CASE x = m /\ starts
    <3>1. mgrReproSeq'[x] = reproSeq
      BY <1>3, <2>3
    <3>2. r \in seenRepros[x] \/ repros[r] > 0
      BY <1>3, <2>3
    <3> QED BY <2>2, <3>1, <3>2 DEF ReproInv, SeenIsBehind
  <2>4. CASE ~(x = m /\ starts)
    <3>1. r \in seenRepros[x] /\ mgrReproSeq'[x] = mgrReproSeq[x]
      BY <1>3, <2>4
    <3> QED BY <3>1 DEF ReproInv, SeenIsBehind
  <2> QED BY <2>3, <2>4
<1> QED BY <1>5, <1>6, <1>7, <1>8 DEF ReproInv

\* The part of a sync call that is about repros: those of the manager get numbers
\* that nobody has reached, and it is sent at most one of the others.
LEMMA SyncReproInv ==
    ASSUME ReproInv, NEW m \in Managers, NEW rs \in SUBSET Repros, NEW need \in BOOLEAN,
           AddRepros(m, rs), SendRepro(m, rs, need), newRepros' \in [Managers -> SUBSET Repros],
           UNCHANGED <<known, restarts>>
    PROVE  ReproInv'
<1> DEFINE new == NewTo(rs)
           at == IF SkipsOwn(m) THEN mgrReproSeq[m] + Cardinality(new) ELSE mgrReproSeq[m]
           pending == {r \in Repros : repros'[r] > at /\ r \notin ownRepros'[m] /\ r \in Supports[m]}
           sent == {r \in pending : need /\ \A q \in pending : repros'[r] <= repros'[q]}
           upto == IF ~need THEN at ELSE IF sent = {} THEN reproSeq' ELSE Min({repros'[r] : r \in sent})
<1>1. /\ ReprosTyped /\ reproSeq \in Nat
      /\ \A x \in Managers : mgrReproSeq[x] \in Nat /\ mgrReproSeq[x] <= reproSeq
      /\ \A r \in Repros : repros[r] \in Nat /\ repros[r] <= reproSeq
  BY DEF ReproInv, ReprosTyped
<1>2. new \in SUBSET Repros /\ Cardinality(new) \in Nat /\ \A r \in new : repros[r] = 0
  <2>1. new \in SUBSET Repros /\ \A r \in new : repros[r] = 0
    BY DEF NewTo
  <2>2. IsFiniteSet(new)
    BY <2>1, FS_Subset
  <2> QED BY <2>1, <2>2, FS_CardinalityType
<1>3. reproSeq' = reproSeq + Cardinality(new)
  BY DEF AddRepros
<1>4. PICK seq \in [new -> reproSeq + 1 .. reproSeq'] :
         repros' = [r \in Repros |-> IF r \in new THEN seq[r] ELSE repros[r]]
  BY DEF AddRepros
<1>5. /\ ownRepros' = [ownRepros EXCEPT ![m] = @ \cup new]
      /\ origin' = [r \in Repros |-> IF r \in new THEN {m} ELSE origin[r]]
  BY DEF AddRepros, Owned
<1>6. /\ mgrReproSeq' = [mgrReproSeq EXCEPT ![m] = upto]
      /\ seenRepros' = [seenRepros EXCEPT ![m] = @ \cup new \cup sent]
      /\ resent' = resent \cup {<<m, r>> : r \in sent \cap (seenRepros[m] \cup new)}
  BY DEF SendRepro
<1> HIDE DEF new
<1>7. reproSeq' \in Nat /\ reproSeq <= reproSeq'
  BY <1>1, <1>2, <1>3
<1>8. \A r \in Repros :
         /\ r \in new => repros'[r] > reproSeq /\ repros'[r] <= reproSeq' /\ repros'[r] \in Nat
         /\ r \notin new => repros'[r] = repros[r]
  <2>1. \A r \in new : seq[r] \in reproSeq + 1 .. reproSeq'
    OBVIOUS
  <2>2. \A r \in new : seq[r] > reproSeq /\ seq[r] <= reproSeq' /\ seq[r] \in Nat
    BY <1>1, <1>7, <2>1
  <2> QED BY <1>4, <2>2
<1>9. \A r \in Repros : repros'[r] \in Nat /\ repros'[r] <= reproSeq'
  BY <1>1, <1>7, <1>8
<1>10. /\ at \in Nat /\ mgrReproSeq[m] <= at /\ at <= reproSeq'
       /\ at = mgrReproSeq[m] \/ (mgrReproSeq[m] = reproSeq /\ at = reproSeq')
  BY <1>1, <1>2, <1>3 DEF SkipsOwn
<1> HIDE DEF at
<1>11. need /\ pending # {} => sent # {}
  <2> SUFFICES ASSUME need, pending # {} PROVE sent # {}
    OBVIOUS
  <2> DEFINE S == {repros'[r] : r \in pending}
  <2>1. S \in SUBSET Nat /\ S # {}
    BY <1>9
  <2>2. PICK n \in S : \A k \in S : n <= k
    <3> HIDE DEF S
    <3> QED BY <2>1, LeastExists
  <2>3. PICK r \in pending : n = repros'[r]
    OBVIOUS
  <2>4. \A q \in pending : repros'[r] <= repros'[q]
    BY <2>2, <2>3
  <2> QED BY <2>3, <2>4
<1>12. /\ upto \in Nat /\ at <= upto /\ upto <= reproSeq'
       /\ \A r \in pending : repros'[r] > upto \/ r \in sent
       /\ \A r \in sent : repros'[r] <= upto
  <2>1. CASE ~need
    BY <1>10, <2>1
  <2>2. CASE need /\ sent = {}
    BY <1>7, <1>10, <1>11, <2>2
  <2>3. CASE need /\ sent # {}
    <3> DEFINE S == {repros'[r] : r \in sent}
    <3>1. S \in SUBSET Nat /\ S # {}
      BY <1>9, <2>3
    <3>2. Min(S) \in S
      <4> HIDE DEF S
      <4> QED BY <3>1, MinIsLeast
    <3>3. PICK r \in sent : upto = repros'[r]
      BY <2>3, <3>2
    <3>4. upto \in Nat /\ upto <= reproSeq'
      <4>1. r \in Repros
        OBVIOUS
      <4> QED BY <1>9, <3>3, <4>1
    <3>5. at <= upto
      <4>1. repros'[r] > at
        OBVIOUS
      <4> QED BY <1>10, <3>3, <3>4, <4>1
    <3>6. \A x \in pending : repros'[x] \in Nat /\ upto <= repros'[x]
      BY <1>9, <3>3
    <3>7. \A q \in pending : repros'[q] > upto \/ q \in sent
      <4> SUFFICES ASSUME NEW q \in pending, ~(repros'[q] > upto) PROVE q \in sent
        OBVIOUS
      <4>1. \A x \in pending : repros'[q] <= repros'[x]
        BY <3>4, <3>6
      <4> QED BY <2>3, <4>1
    <3>8. \A q \in sent : repros'[q] <= upto
      BY <3>3
    <3> QED BY <3>4, <3>5, <3>7, <3>8
  <2> QED BY <2>1, <2>2, <2>3
<1>13. sent \subseteq pending
  OBVIOUS
<1> HIDE DEF sent, upto
<1>14. \A x \in Managers :
          /\ mgrReproSeq'[x] = IF x = m THEN upto ELSE mgrReproSeq[x]
          /\ seenRepros'[x] = IF x = m THEN seenRepros[m] \cup new \cup sent ELSE seenRepros[x]
          /\ ownRepros'[x] = IF x = m THEN ownRepros[m] \cup new ELSE ownRepros[x]
  BY <1>1, <1>5, <1>6 DEF ReprosTyped
<1>15. ReprosTyped'
  <2>1. repros' \in [Repros -> 0 .. reproSeq']
    <3>1. \A r \in Repros : repros'[r] \in 0 .. reproSeq'
      BY <1>7, <1>9
    <3> QED BY <1>4, <3>1
  <2>2. mgrReproSeq' \in [Managers -> 0 .. reproSeq']
    <3>1. \A x \in Managers : mgrReproSeq'[x] \in 0 .. reproSeq'
      BY <1>1, <1>7, <1>12, <1>14
    <3>2. mgrReproSeq' = [x \in Managers |-> mgrReproSeq'[x]]
      BY <1>1, <1>6 DEF ReprosTyped
    <3> QED BY <3>1, <3>2
  <2>3. ownRepros' \in [Managers -> SUBSET Repros]
    BY <1>1, <1>2, <1>5 DEF ReprosTyped
  <2>4. seenRepros' \in [Managers -> SUBSET Repros]
    BY <1>1, <1>2, <1>6, <1>13 DEF ReprosTyped
  <2>5. origin' \in [Repros -> SUBSET Managers]
    BY <1>1, <1>5 DEF ReprosTyped
  <2>6. resent' \subseteq Managers \X Repros
    <3>1. sent \subseteq Repros /\ resent \subseteq Managers \X Repros
      BY <1>1, <1>13 DEF ReprosTyped
    <3> QED BY <1>6, <3>1
  <2> QED BY <1>1, <1>7, <2>1, <2>2, <2>3, <2>4, <2>5, <2>6 DEF ReprosTyped
<1>16. OwnAreSeen'
  BY <1>6, <1>14 DEF ReproInv, OwnAreSeen
<1>17. SeenIsBehind'
  <2> SUFFICES ASSUME NEW x \in Managers, NEW r \in seenRepros'[x]
               PROVE  /\ repros'[r] > 0
                      /\ \/ repros'[r] <= mgrReproSeq'[x]
                         \/ x \in origin'[r] /\ (restarts > 0 \/ r \in ownRepros'[x])
    BY DEF SeenIsBehind
  <2>1. r \in Repros
    BY <1>15 DEF ReprosTyped
  <2>2. /\ repros'[r] \in Nat /\ repros[r] \in Nat
        /\ mgrReproSeq[x] \in Nat /\ mgrReproSeq[x] <= reproSeq /\ reproSeq \in Nat
        /\ mgrReproSeq[x] <= mgrReproSeq'[x] /\ mgrReproSeq'[x] \in Nat
    BY <1>1, <1>9, <1>10, <1>12, <1>14, <2>1
  <2>3. CASE x = m /\ r \in new
    <3>1. repros'[r] > 0
      BY <1>1, <1>8, <2>1, <2>2, <2>3
    <3>2. m \in origin'[r] /\ r \in ownRepros'[m]
      BY <1>5, <1>14, <2>1, <2>3
    <3> QED BY <2>3, <3>1, <3>2
  <2>4. CASE x = m /\ r \in sent
    <3>1. r \in pending /\ repros'[r] <= upto
      BY <1>12, <1>13, <2>4
    <3>2. repros'[r] > 0
      BY <1>10, <2>2, <3>1
    <3> QED BY <1>14, <2>4, <3>1, <3>2
  <2>5. CASE r \in seenRepros[x]
    <3>1. /\ repros[r] > 0
          /\ \/ repros[r] <= mgrReproSeq[x]
             \/ x \in origin[r] /\ (restarts > 0 \/ r \in ownRepros[x])
      BY <2>5 DEF ReproInv, SeenIsBehind
    <3>2. r \notin new /\ repros'[r] = repros[r]
      BY <1>2, <1>8, <2>1, <2>2, <3>1
    <3>3. origin'[r] = origin[r] /\ ownRepros[x] \subseteq ownRepros'[x]
      BY <1>5, <1>14, <2>1, <3>2
    <3> QED BY <2>2, <3>1, <3>2, <3>3
  <2> QED BY <1>14, <2>3, <2>4, <2>5
<1>18. ReprosSentOnce'
  <2> SUFFICES ASSUME NEW x \in Managers, NEW r \in Repros, <<x, r>> \in resent'
               PROVE  restarts > 0 /\ x \in origin'[r]
    BY DEF ReprosSentOnce
  <2>1. CASE <<x, r>> \in resent
    <3>1. restarts > 0 /\ x \in origin[r]
      BY <2>1 DEF ReproInv, ReprosSentOnce
    <3>2. CASE r \notin new
      BY <1>5, <3>1, <3>2
    <3>3. CASE r \in new
      <4>1. r \in seenRepros[x] /\ repros[r] = 0
        BY <1>2, <2>1, <3>3 DEF ReproInv, OwnAreSeen
      <4> QED BY <4>1 DEF ReproInv, SeenIsBehind
    <3> QED BY <3>1, <3>2, <3>3
  <2>2. CASE <<x, r>> \notin resent
    <3>1. x = m /\ r \in sent /\ (r \in seenRepros[m] \/ r \in new)
      BY <1>6, <2>2
    <3>2. r \in pending
      BY <1>13, <3>1
    <3>3. r \notin ownRepros'[m] /\ repros'[r] > at
      BY <3>2
    <3>4. r \notin new /\ r \notin ownRepros[m]
      BY <1>14, <3>3
    <3>5. repros'[r] = repros[r] /\ repros[r] \in Nat /\ mgrReproSeq[m] \in Nat /\ mgrReproSeq[m] <= at
      BY <1>1, <1>8, <1>10, <3>4
    <3>6. ~(repros[r] <= mgrReproSeq[m])
      BY <1>10, <3>3, <3>5
    <3>7. m \in origin[r] /\ restarts > 0
      BY <3>1, <3>4, <3>6 DEF ReproInv, SeenIsBehind
    <3> QED BY <1>5, <3>1, <3>4, <3>7
  <2> QED BY <2>1, <2>2
<1>19. ReprosNotSkipped'
  <2> SUFFICES ASSUME restarts = 0, NEW x \in known, NEW r \in Repros \cap Supports[x], repros'[r] > 0
               PROVE  repros'[r] > mgrReproSeq'[x] \/ r \in seenRepros'[x]
    BY DEF ReprosNotSkipped
  <2>1. x \in Managers /\ r \in Repros
    BY <1>1 DEF ReprosTyped
  <2>2. repros'[r] \in Nat /\ repros[r] \in Nat /\ mgrReproSeq[x] \in Nat /\ mgrReproSeq[x] <= reproSeq
    BY <1>1, <1>9, <2>1
  <2>3. repros'[r] > mgrReproSeq[x] \/ r \in seenRepros[x]
    <3>1. CASE r \in new
      <4>1. repros'[r] > reproSeq
        BY <1>8, <2>1, <3>1
      <4> QED BY <1>1, <2>2, <4>1
    <3>2. CASE r \notin new
      <4>1. repros'[r] = repros[r]
        BY <1>8, <2>1, <3>2
      <4> QED BY <4>1 DEF ReproInv, ReprosNotSkipped
    <3> QED BY <3>1, <3>2
  <2>4. CASE x # m
    BY <1>14, <2>1, <2>3, <2>4
  <2>5. CASE x = m
    <3>1. CASE r \in seenRepros[m] \/ r \in new \/ r \in sent
      BY <1>14, <2>5, <3>1
    <3>2. CASE r \notin seenRepros[m] /\ r \notin new /\ r \notin sent
      <4>1. repros'[r] = repros[r] /\ repros'[r] > mgrReproSeq[m]
        BY <1>8, <2>1, <2>3, <2>5, <3>2
      <4>2. repros'[r] <= reproSeq
        BY <1>1, <2>1, <4>1
      <4>3. at = mgrReproSeq[m]
        BY <1>1, <1>10, <2>2, <4>1, <4>2
      <4>4. r \notin ownRepros'[m]
        BY <1>14, <3>2 DEF ReproInv, OwnAreSeen
      <4>5. r \in pending
        BY <2>1, <2>5, <4>1, <4>3, <4>4
      <4>6. repros'[r] > upto
        <5> HIDE DEF pending
        <5> QED BY <1>12, <3>2, <4>5
      <4> QED BY <1>14, <2>5, <4>6
    <3> QED BY <3>1, <3>2
  <2> QED BY <2>4, <2>5
<1> QED BY <1>15, <1>16, <1>17, <1>18, <1>19 DEF ReproInv

\* A restart forgets which repros are whose: the rest of ReproInv is about one life.
LEMMA RestartReproInv ==
    ASSUME ReproInv, Restart
    PROVE  ReproInv'
<1>1. ReprosTyped /\ reproSeq \in Nat /\ restarts \in Nat
  BY DEF ReproInv, ReprosTyped
<1>2. /\ restarts' = restarts + 1 /\ ownRepros' = [m \in Managers |-> {}]
      /\ mgrReproSeq' = [m \in Managers |->
            IF m \in known /\ mgrReproSeq[m] = 0 THEN reproSeq ELSE mgrReproSeq[m]]
      /\ UNCHANGED <<reproSeq, repros, known, newRepros, seenRepros, origin, resent>>
  BY DEF Restart, ForEach, clientVars, historyVars
<1>3. restarts' \in Nat /\ restarts' # 0
  BY <1>1, <1>2
<1>4. mgrReproSeq' \in [Managers -> 0 .. reproSeq]
  <2>1. reproSeq \in 0 .. reproSeq
    BY <1>1
  <2> QED BY <1>1, <1>2, <2>1 DEF ReprosTyped
<1>5. ReprosTyped'
  BY <1>1, <1>2, <1>3, <1>4 DEF ReprosTyped
<1>6. OwnAreSeen'
  BY <1>2 DEF ReproInv, OwnAreSeen
<1>7. ReprosNotSkipped' /\ ReprosSentOnce'
  BY <1>1, <1>2, <1>3 DEF ReproInv, ReprosNotSkipped, ReprosSentOnce
<1>8. SeenIsBehind'
  <2> SUFFICES ASSUME NEW m \in Managers, NEW r \in seenRepros[m]
               PROVE  repros[r] > 0 /\ (repros[r] <= mgrReproSeq'[m] \/ m \in origin[r])
    BY <1>1, <1>2 DEF SeenIsBehind
  <2>1. r \in Repros
    BY <1>1 DEF ReprosTyped
  <2>2. /\ repros[r] \in Nat /\ repros[r] <= reproSeq
        /\ mgrReproSeq[m] \in Nat /\ mgrReproSeq[m] <= reproSeq
    BY <1>1, <2>1 DEF ReprosTyped
  <2>3. repros[r] > 0 /\ (repros[r] <= mgrReproSeq[m] \/ m \in origin[r])
    BY DEF ReproInv, SeenIsBehind
  <2>4. mgrReproSeq'[m] = mgrReproSeq[m] \/ mgrReproSeq'[m] = reproSeq
    BY <1>2
  <2> QED BY <1>1, <2>2, <2>3, <2>4
<1> QED BY <1>5, <1>6, <1>7, <1>8 DEF ReproInv

LEMMA ReproInvNext == ReproInv /\ [Next]_vars => ReproInv'
<1> SUFFICES ASSUME ReproInv, [Next]_vars PROVE ReproInv'
  OBVIOUS
<1>1. ReprosTyped
  BY DEF ReproInv
<1>2. CASE UNCHANGED vars
  BY <1>2, SameRepros DEF vars, hubVars, clientVars, historyVars, reproVars
<1>3. ASSUME NEW m \in Managers, NEW lost \in 0 .. 1, Connect(m, lost) PROVE ReproInv'
  BY <1>3, ConnectReproInv
<1>4. ASSUME NEW m \in Managers, NEW lost \in 0 .. 1, NEW need \in BOOLEAN, Sync(m, need, lost)
      PROVE  ReproInv'
  <2>1. /\ AddRepros(m, newRepros[m]) /\ SendRepro(m, newRepros[m], need)
        /\ UNCHANGED <<known, restarts>>
        /\ newRepros' = [newRepros EXCEPT ![m] = IF lost = 1 THEN @ ELSE {}]
    BY <1>4 DEF Sync, HubSync
  <2>2. newRepros[m] \in SUBSET Repros /\ newRepros' \in [Managers -> SUBSET Repros]
    BY <1>1, <2>1 DEF ReprosTyped
  <2> QED BY <2>1, <2>2, SyncReproInv
<1>5. ASSUME NEW m \in Managers, NEW lost \in 0 .. 1, SyncAgain(m, lost) PROVE ReproInv'
  <2>1. /\ AddRepros(m, {}) /\ SendRepro(m, {}, FALSE) /\ UNCHANGED <<known, restarts, newRepros>>
    BY <1>5 DEF SyncAgain, HubSync
  <2>2. {} \in SUBSET Repros /\ FALSE \in BOOLEAN /\ newRepros' \in [Managers -> SUBSET Repros]
    BY <1>1, <2>1 DEF ReprosTyped
  <2> QED BY <2>1, <2>2, SyncReproInv
<1>6. ASSUME NEW m \in Managers, Refused(m) \/ RequestLost(m) PROVE ReproInv'
  BY <1>6, SameRepros DEF Refused, RequestLost, Disconnect, hubVars, historyVars, reproVars
<1>7. ASSUME NEW m \in Managers, NEW p \in Progs, Find(m, p) \/ Minimize(m, p) PROVE ReproInv'
  BY <1>7, SameRepros DEF Find, Minimize, hubVars, historyVars, reproVars, vars
<1>8. ASSUME NEW m \in Managers, NEW r \in Repros, FindRepro(m, r) PROVE ReproInv'
  <2>1. newRepros' \in [Managers -> SUBSET Repros]
    BY <1>1, <1>8 DEF FindRepro, ReprosTyped
  <2>2. UNCHANGED <<reproSeq, repros, known, mgrReproSeq, ownRepros, seenRepros, origin,
                    resent, restarts>>
    BY <1>8 DEF FindRepro, hubVars, historyVars
  <2> QED BY <2>1, <2>2, NewReprosInv
<1>9. CASE Restart
  BY <1>9, RestartReproInv
<1> QED BY <1>2, <1>3, <1>4, <1>5, <1>6, <1>7, <1>8, <1>9 DEF Next, ConnectorStep

\* The invariant of the hub's repros (AddRepro and PendingRepro of state.go).
THEOREM ReproInvHolds == Spec => []ReproInv
BY ReproInvInit, ReproInvNext, PTL DEF Spec

-----------------------------------------------------------------------------
(* The theorems.                                                           *)

Counted == ops \in 0 .. MaxOps /\ faults \in 0 .. MaxFaults /\ restarts \in 0 .. faults

LEMMA CountedNext == Counted /\ [Next]_vars => Counted'
<1> SUFFICES ASSUME Counted, [Next]_vars PROVE Counted'
  OBVIOUS
<1>1. ops \in Nat /\ ops <= MaxOps /\ faults \in Nat /\ faults <= MaxFaults
      /\ restarts \in Nat /\ restarts <= faults
  BY DEF Counted
<1>2. ASSUME ops' = ops \/ (ops < MaxOps /\ ops' = ops + 1),
             \/ faults' = faults /\ restarts' = restarts
             \/ faults' = faults + 1 /\ faults < MaxFaults /\ restarts' \in {restarts, restarts + 1}
      PROVE  Counted'
  <2>1. ops' \in 0 .. MaxOps
    BY <1>1, <1>2
  <2>2. faults' \in 0 .. MaxFaults /\ restarts' \in 0 .. faults'
    BY <1>1, <1>2
  <2> QED BY <2>1, <2>2 DEF Counted
<1>3. CASE UNCHANGED vars
  BY <1>2, <1>3 DEF vars
<1>4. ASSUME NEW m \in Managers, NEW lost \in 0 .. 1,
             \/ Connect(m, lost) \/ SyncAgain(m, lost)
             \/ \E need \in BOOLEAN : Sync(m, need, lost)
      PROVE  Counted'
  <2>1. UNCHANGED <<ops, restarts>> /\ faults + lost <= MaxFaults /\ faults' = faults + lost
    BY <1>4 DEF Connect, Sync, SyncAgain
  <2>2. faults' = faults \/ (faults' = faults + 1 /\ faults < MaxFaults)
    BY <1>1, <2>1
  <2> QED BY <1>2, <2>1, <2>2
<1>5. ASSUME NEW m \in Managers, Refused(m) \/ RequestLost(m) PROVE Counted'
  BY <1>2, <1>5 DEF Refused, RequestLost, Disconnect
<1>6. ASSUME NEW m \in Managers, NEW p \in Progs, Find(m, p) \/ Minimize(m, p) PROVE Counted'
  BY <1>2, <1>6 DEF Find, Minimize
<1>7. ASSUME NEW m \in Managers, NEW r \in Repros, FindRepro(m, r) PROVE Counted'
  BY <1>2, <1>7 DEF FindRepro
<1>8. CASE Restart
  BY <1>2, <1>8 DEF Restart
<1> QED BY <1>3, <1>4, <1>5, <1>6, <1>7, <1>8 DEF Next, ConnectorStep

\* The bounds on changes, lost calls and restarts are kept.
THEOREM CountedHolds == Spec => []Counted
<1>1. Init => Counted
  BY DEF Init, Counted
<1> QED BY <1>1, CountedNext, PTL DEF Spec

\* Type correctness: no record and no manager is ever ahead of the hub's numbers, also
\* after a restart, which finds no counter on disk (state.go:61, 98-125).
THEOREM TypeCorrect == Spec => []TypeOK
<1>1. CorpusInv /\ ReproInv /\ Counted => TypeOK
  BY DEF CorpusInv, CorpusTyped, ReproInv, ReprosTyped, Counted, TypeOK
<1> QED BY <1>1, CorpusInvHolds, ReproInvHolds, CountedHolds, PTL

\* A manager is sent, or once had, every program of the hub that it can execute, up to
\* the number it has reached: whatever is minimized, lost or given up and however often
\* the hub restarts (pendingInputs, addInputs, purgeCorpus, createManager).
THEOREM NothingIsSkipped == Spec => []NothingSkipped
<1>1. CorpusInv => NothingSkipped
  BY DEF CorpusInv, SeenOrAhead, NothingSkipped, Present
<1> QED BY <1>1, CorpusInvHolds, PTL

\* While a connection stands, hc.hubCorpus is the corpus the hub has for the manager
\* (syz-manager/hub.go:72-147 and Connect and Sync of state.go).
THEOREM HubIsMirrored == Spec => []HubMirrors
<1>1. CorpusInv => HubMirrors
  BY DEF CorpusInv
<1> QED BY <1>1, CorpusInvHolds, PTL

\* The hub's corpus is what its managers have: nothing unused is kept by purgeCorpus,
\* and nothing that a connected manager has is purged.
THEOREM HubCorpusIsUsed == Spec => []CorpusIsUsed
<1>1. CorpusInv => CorpusIsUsed
  BY DEF CorpusInv
<1> QED BY <1>1, CorpusInvHolds, PTL

\* In one life of the hub, AddRepro and PendingRepro pass no repro over, whatever
\* managers add at the same time (state.go:203-264).
THEOREM NoReproSkipped == Spec => []ReprosNotSkipped
<1>1. ReproInv => ReprosNotSkipped
  BY DEF ReproInv
<1> QED BY <1>1, ReproInvHolds, PTL

\* PendingRepro sends nobody a repro a second time or one that waited when it joined, and
\* one that it was the first to bring only after a restart: the numbers never go back, and
\* a manager is ahead of what it has seen unless AddRepro took that for its own.
THEOREM ReproSentOnce == Spec => []ReprosSentOnce
<1>1. ReproInv => ReprosSentOnce
  BY DEF ReproInv
<1> QED BY <1>1, ReproInvHolds, PTL

-----------------------------------------------------------------------------
(* The hub implements HubFeed.                                            *)

\* A reply brings, or gives up, just what the manager has still to be sent up to the
\* number it reaches.
LEMMA ReplyIsPrefix ==
    ASSUME NEW m \in Managers, NEW s \in Nat, NEW c \in [Progs -> 0 .. s],
           mgrCorpusSeq[m] \in 0 .. s, NEW rep, rep \in Replies(m, c, s)
    PROVE  /\ mgrCorpusSeq[m] <= rep.upto
           /\ rep.progs \cup rep.givenUp = {p \in Pending(m, c) : c[p] <= rep.upto}
<1>1. /\ \A p \in Progs : c[p] \in Nat /\ c[p] <= s
      /\ mgrCorpusSeq[m] \in Nat /\ mgrCorpusSeq[m] <= s
  OBVIOUS
<1>2. CASE mgrCorpusSeq[m] = s
  <2>1. rep = [progs |-> {}, upto |-> s, givenUp |-> {}]
    BY <1>2 DEF Replies
  <2>2. Pending(m, c) = {}
    BY <1>1, <1>2 DEF Pending
  <2> QED BY <1>1, <2>1, <2>2
<1>3. CASE mgrCorpusSeq[m] # s
  <2>1. PICK K \in Capped(Pending(m, c), c) :
           rep = [progs |-> {k \in K : Fits(K) \/ c[k] <= Reached(K, c)},
                  upto |-> Upto(K, c, s), givenUp |-> Pending(m, c) \ K]
    BY <1>3 DEF Replies
  <2>2. K \subseteq Pending(m, c) /\ Pending(m, c) \subseteq Progs
    BY <2>1 DEF Capped, Pending
  <2>3. \A k \in K, p \in Pending(m, c) \ K : c[p] <= c[k]
    BY <2>1 DEF Capped
  <2>4. /\ rep.progs = {k \in K : Fits(K) \/ c[k] <= Reached(K, c)}
        /\ rep.upto = Upto(K, c, s) /\ rep.givenUp = Pending(m, c) \ K
    BY <2>1
  <2>5. CASE Fits(K)
    <3>1. rep.upto = s
      BY <2>4, <2>5 DEF Upto
    <3>2. rep.progs \cup rep.givenUp = Pending(m, c)
      BY <2>2, <2>4, <2>5
    <3>3. \A p \in Pending(m, c) : c[p] <= rep.upto
      BY <1>1, <2>2, <3>1
    <3> QED BY <1>1, <3>1, <3>2, <3>3
  <2>6. CASE ~Fits(K)
    <3>1. PICK k \in K : Reached(K, c) = c[k]
      BY <2>2, <2>6, ReachedExists
    <3>2. rep.upto = c[k]
      BY <2>4, <2>6, <3>1 DEF Upto
    <3>3. c[k] > mgrCorpusSeq[m] /\ c[k] \in Nat
      BY <1>1, <2>2 DEF Pending
    <3>4. \A p \in Pending(m, c) : p \in rep.progs \cup rep.givenUp <=> c[p] <= rep.upto
      BY <2>2, <2>3, <2>4, <2>6, <3>1, <3>2
    <3>5. rep.progs \cup rep.givenUp \subseteq Pending(m, c)
      BY <2>2, <2>4
    <3>6. mgrCorpusSeq[m] <= rep.upto
      BY <1>1, <3>2, <3>3
    <3> QED BY <3>4, <3>5, <3>6
  <2> QED BY <2>5, <2>6
<1> QED BY <1>2, <1>3

\* What the feed says of a step that brings H: the numbers tell old programs from new.
LEMMA FeedStep ==
    ASSUME CorpusTyped, NEW H \in SUBSET Progs, NEW c, corpus' = c, c \in [Progs -> Nat],
           \A p \in Progs :
              /\ c[p] > 0 <=> (corpus[p] > 0 \/ p \in H) /\ \E n \in Managers : p \in mgrCorpus'[n]
              /\ c[p] > 0 /\ corpus[p] > 0 => c[p] = corpus[p]
              /\ c[p] > 0 /\ corpus[p] = 0 => c[p] > corpusSeq
    PROVE  /\ Present' = Feed!Used(H)
           /\ \A n \in Managers : /\ Feed!Owed(n) = {p \in Progs : c[p] > mgrCorpusSeq[n]}
                                  /\ Feed!Owed(n) \subseteq Present'
<1>1. \A p \in Progs : c[p] \in Nat /\ corpus[p] \in Nat
  BY DEF CorpusTyped
<1>2. Present' = {p \in Progs : c[p] > 0} /\ Present = {p \in Progs : corpus[p] > 0}
  BY DEF Present
<1>3. Present' = Feed!Used(H)
  BY <1>2 DEF Feed!Used
<1>4. ASSUME NEW n \in Managers
      PROVE  Feed!Owed(n) = {p \in Progs : c[p] > mgrCorpusSeq[n]} /\ Feed!Owed(n) \subseteq Present'
  <2>1. mgrCorpusSeq[n] \in Nat /\ mgrCorpusSeq[n] <= corpusSeq /\ corpusSeq \in Nat
    BY DEF CorpusTyped
  <2>2. Feed!Owed(n) = {p \in Present' : p \in {q \in Present : corpus[q] > mgrCorpusSeq[n]} \/ p \notin Present}
    BY DEF Feed!Owed
  <2>3. ASSUME NEW p \in Progs
        PROVE  p \in Feed!Owed(n) <=> c[p] > mgrCorpusSeq[n]
    <3>1. p \in Feed!Owed(n) <=> c[p] > 0 /\ (corpus[p] > mgrCorpusSeq[n] \/ corpus[p] = 0)
      BY <1>1, <1>2, <2>1, <2>2
    <3>2. CASE c[p] = 0
      BY <2>1, <3>1, <3>2
    <3>3. CASE c[p] > 0 /\ corpus[p] = 0
      BY <1>1, <2>1, <3>1, <3>3
    <3>4. CASE c[p] > 0 /\ corpus[p] > 0
      BY <1>1, <2>1, <3>1, <3>4
    <3> QED BY <1>1, <3>2, <3>3, <3>4
  <2>4. Feed!Owed(n) \subseteq Present' /\ Present' \subseteq Progs
    BY <1>2, <2>2
  <2> QED BY <2>3, <2>4
<1> QED BY <1>3, <1>4

\* Connect tells the hub the manager's corpus.
LEMMA ConnectFeeds ==
    ASSUME CorpusInv, NEW m \in Managers, NEW lost \in 0 .. 1, Connect(m, lost)
    PROVE  Feed!Connect(m, local[m], m \in fresh)
<1> DEFINE a == Added(corpus, local[m])
           s == SeqAfter(local[m])
<1>1. /\ CorpusTyped /\ local[m] \in SUBSET Progs
      /\ corpusSeq \in Nat /\ corpus \in [Progs -> 0 .. corpusSeq]
  BY DEF CorpusInv, CorpusTyped
<1>2. /\ s \in Nat /\ corpusSeq <= s /\ a \in [Progs -> 0 .. s]
      /\ \A p \in Progs :
            /\ corpus[p] > 0 => a[p] = corpus[p]
            /\ p \notin local[m] => a[p] = corpus[p]
            /\ p \in local[m] => a[p] > 0
            /\ p \in local[m] /\ corpus[p] = 0 => a[p] > corpusSeq
  BY <1>1, AddedFacts
<1>3. /\ mgrCorpusSeq' = [mgrCorpusSeq EXCEPT ![m] = IF m \in fresh THEN 0 ELSE @]
      /\ mgrCorpus' = [mgrCorpus EXCEPT ![m] = local[m]]
      /\ corpus' = Purged(a, mgrCorpus')
      /\ seen' = [seen EXCEPT ![m] = local[m] \cup (IF m \in fresh THEN {} ELSE @)]
  BY DEF Connect, HubConnect, Replaced
<1> HIDE DEF a, s
<1>4. PICK c : corpus' = c
  OBVIOUS
<1>5. /\ c \in [Progs -> 0 .. s]
      /\ \A p \in Progs :
            /\ c[p] > 0 => c[p] = a[p] /\ \E x \in Managers : p \in mgrCorpus'[x]
            /\ \A x \in Managers : p \in mgrCorpus'[x] => c[p] = a[p]
  <2>1. ASSUME NEW has
        PROVE  /\ Purged(a, has) \in [Progs -> 0 .. s]
               /\ \A p \in Progs :
                     /\ Purged(a, has)[p] > 0 => /\ Purged(a, has)[p] = a[p]
                                                 /\ \E x \in Managers : p \in has[x]
                     /\ \A x \in Managers : p \in has[x] => Purged(a, has)[p] = a[p]
    BY <1>2, PurgedFacts
  <2>2. PICK has : has = mgrCorpus'
    OBVIOUS
  <2>3. c = Purged(a, has)
    BY <1>3, <1>4, <2>2
  <2> QED BY <2>1, <2>2, <2>3
<1>6. c \in [Progs -> Nat]
  BY <1>2, <1>5
<1>7. ASSUME NEW p \in Progs
      PROVE  /\ c[p] > 0 <=> (corpus[p] > 0 \/ p \in local[m]) /\ \E n \in Managers : p \in mgrCorpus'[n]
             /\ c[p] > 0 /\ corpus[p] > 0 => c[p] = corpus[p]
             /\ c[p] > 0 /\ corpus[p] = 0 => c[p] > corpusSeq
  <2>1. c[p] \in Nat /\ a[p] \in Nat /\ corpus[p] \in Nat
    BY <1>1, <1>2, <1>6
  <2>2. a[p] > 0 <=> corpus[p] > 0 \/ p \in local[m]
    BY <1>2, <2>1
  <2> QED BY <1>2, <1>5, <2>1, <2>2
<1>8. /\ Present' = Feed!Used(local[m])
      /\ \A n \in Managers : /\ Feed!Owed(n) = {p \in Progs : c[p] > mgrCorpusSeq[n]}
                             /\ Feed!Owed(n) \subseteq Present'
  BY <1>1, <1>4, <1>6, <1>7, FeedStep
<1>9. \A n \in Managers :
         {p \in Present' : corpus'[p] > mgrCorpusSeq'[n]}
            = IF m \in fresh /\ n = m THEN Present' ELSE Feed!Owed(n)
  <2> TAKE n \in Managers
  <2>1. mgrCorpusSeq'[n] = IF n = m /\ m \in fresh THEN 0 ELSE mgrCorpusSeq[n]
    BY <1>1, <1>3 DEF CorpusTyped
  <2>2. Present' = {p \in Progs : c[p] > 0}
    BY <1>4 DEF Present
  <2>3. CASE m \in fresh /\ n = m
    BY <1>4, <2>1, <2>2, <2>3
  <2>4. CASE ~(m \in fresh /\ n = m)
    BY <1>4, <1>8, <2>1, <2>2, <2>4
  <2> QED BY <2>3, <2>4
<1> QED BY <1>3, <1>8, <1>9 DEF Feed!Connect

\* A sync call tells the hub the differences, and its reply passes what the manager
\* has still to come by up to the number it reaches.
LEMMA SyncFeeds ==
    ASSUME CorpusInv, NEW m \in connected, NEW add \in SUBSET Progs, NEW del \in SUBSET Progs,
           add \cap del = {},
           mgrCorpus' = [mgrCorpus EXCEPT ![m] = (@ \ del) \cup add],
           corpusSeq' = SeqAfter(add),
           corpus' = Added(IF del = {} THEN corpus
                           ELSE Purged(corpus, [mgrCorpus EXCEPT ![m] = @ \ del]), add),
           NEW rep, rep \in Replies(m, corpus', corpusSeq'), Replied(m, rep, add)
    PROVE  \E H \in SUBSET Progs, passed \in SUBSET Progs : Feed!Sync(m, H, passed)
<1> DEFINE has == [mgrCorpus EXCEPT ![m] = @ \ del]
           kept == IF del = {} THEN corpus ELSE Purged(corpus, has)
           s == SeqAfter(add)
           H == (mgrCorpus[m] \ del) \cup add
<1>1. CorpusTyped /\ m \in Managers /\ corpusSeq \in Nat /\ corpus \in [Progs -> 0 .. corpusSeq]
  BY DEF CorpusInv, CorpusTyped
<1>2. \A x \in Managers :
         /\ has[x] = IF x = m THEN mgrCorpus[m] \ del ELSE mgrCorpus[x]
         /\ mgrCorpus'[x] = IF x = m THEN H ELSE mgrCorpus[x]
  BY <1>1 DEF CorpusTyped
<1>3. H \in SUBSET Progs
  BY <1>1 DEF CorpusTyped
<1>4. /\ kept \in [Progs -> 0 .. corpusSeq]
      /\ \A p \in Progs :
            /\ kept[p] > 0 => /\ kept[p] = corpus[p]
                              /\ del # {} => \E x \in Managers : p \in has[x]
            /\ \A x \in Managers : p \in has[x] => kept[p] = corpus[p]
  <2> HIDE DEF has
  <2>1. CASE del = {}
    BY <1>1, <2>1
  <2>2. CASE del # {}
    BY <1>1, <2>2, PurgedFacts
  <2> QED BY <2>1, <2>2
<1>5. corpus' = Added(kept, add) /\ corpusSeq' = s
  OBVIOUS
<1>6. PICK c : corpus' = c
  OBVIOUS
<1> HIDE DEF kept, has, H
<1>7. /\ s \in Nat /\ corpusSeq <= s /\ c \in [Progs -> 0 .. s]
      /\ \A p \in Progs :
            /\ kept[p] > 0 => c[p] = kept[p]
            /\ p \notin add => c[p] = kept[p]
            /\ p \in add => c[p] > 0
            /\ p \in add /\ kept[p] = 0 => c[p] > corpusSeq
  <2> HIDE DEF s
  <2>1. /\ SeqAfter(add) \in Nat /\ corpusSeq <= SeqAfter(add)
        /\ Added(kept, add) \in [Progs -> 0 .. SeqAfter(add)]
        /\ \A p \in Progs :
              /\ kept[p] > 0 => Added(kept, add)[p] = kept[p]
              /\ p \notin add => Added(kept, add)[p] = kept[p]
              /\ p \in add => Added(kept, add)[p] > 0
              /\ p \in add /\ kept[p] = 0 => Added(kept, add)[p] > corpusSeq
    BY <1>1, <1>4, AddedFacts
  <2> QED BY <1>5, <1>6, <2>1 DEF s
<1> HIDE DEF s
<1>8. c \in [Progs -> Nat]
  BY <1>7
<1>9. ASSUME NEW p \in Progs
      PROVE  /\ c[p] > 0 <=> (corpus[p] > 0 \/ p \in H) /\ \E n \in Managers : p \in mgrCorpus'[n]
             /\ c[p] > 0 /\ corpus[p] > 0 => c[p] = corpus[p]
             /\ c[p] > 0 /\ corpus[p] = 0 => c[p] > corpusSeq
  <2>1. c[p] \in Nat /\ kept[p] \in Nat /\ corpus[p] \in Nat
    BY <1>1, <1>4, <1>8
  <2>2. corpus[p] > 0 => \E x \in Managers : p \in mgrCorpus[x]
    BY <1>1 DEF CorpusInv, CorpusIsUsed, Present, CorpusTyped
  <2>3. p \in mgrCorpus[m] => corpus[p] > 0
    BY DEF CorpusInv, CorpusIsUsed, Present
  <2>4. CASE p \in add
    <3>1. p \in H /\ p \in mgrCorpus'[m] /\ p \notin del
      BY <1>1, <1>2, <2>4 DEF H
    <3>2. c[p] > 0
      BY <1>7, <2>4
    <3>3. corpus[p] > 0 => kept[p] = corpus[p]
      BY <1>2, <1>4, <2>2, <3>1
    <3>4. corpus[p] = 0 => kept[p] = 0
      BY <1>4, <2>1
    <3>5. kept[p] = 0 => c[p] > corpusSeq
      BY <1>7, <2>4
    <3>6. kept[p] > 0 => c[p] = kept[p]
      BY <1>7
    <3> QED BY <1>1, <2>1, <3>1, <3>2, <3>3, <3>4, <3>5, <3>6
  <2>5. CASE p \notin add
    <3>1. c[p] = kept[p]
      BY <1>7, <2>5
    <3>2. \A n \in Managers : p \in mgrCorpus'[n] => p \in has[n]
      BY <1>2, <2>5 DEF H
    <3>3. p \in H => corpus[p] > 0
      BY <2>3, <2>5 DEF H
    <3>4. ASSUME c[p] > 0 PROVE corpus[p] > 0 /\ \E n \in Managers : p \in mgrCorpus'[n]
      <4>1. kept[p] = corpus[p] /\ corpus[p] > 0
        BY <1>4, <3>1, <3>4
      <4>2. PICK x \in Managers : p \in has[x]
        BY <1>2, <1>4, <2>2, <3>1, <3>4, <4>1
      <4>3. p \in mgrCorpus'[x]
        BY <1>2, <4>2 DEF H
      <4> QED BY <4>1, <4>3
    <3>5. ASSUME corpus[p] > 0, \E n \in Managers : p \in mgrCorpus'[n] PROVE c[p] > 0
      BY <1>4, <3>1, <3>2, <3>5
    <3>6. c[p] > 0 => c[p] = corpus[p]
      BY <1>4, <3>1
    <3> QED BY <2>1, <3>3, <3>4, <3>5, <3>6
  <2> QED BY <2>4, <2>5
<1>10. /\ Present' = Feed!Used(H)
       /\ \A n \in Managers : /\ Feed!Owed(n) = {p \in Progs : c[p] > mgrCorpusSeq[n]}
                              /\ Feed!Owed(n) \subseteq Present'
  BY <1>1, <1>3, <1>6, <1>8, <1>9, FeedStep
<1>11. mgrCorpusSeq[m] \in 0 .. s
  <2>1. mgrCorpusSeq[m] \in 0 .. corpusSeq
    BY <1>1 DEF CorpusTyped
  <2> QED BY <1>1, <1>7, <2>1
<1>12. rep \in Replies(m, c, s)
  BY <1>5, <1>6
<1>13. /\ rep.upto \in 0 .. s /\ mgrCorpusSeq[m] <= rep.upto
       /\ rep.progs \cup rep.givenUp = {p \in Pending(m, c) : c[p] <= rep.upto}
  BY <1>1, <1>7, <1>11, <1>12, ReplyFacts, ReplyIsPrefix
<1>14. /\ mgrCorpusSeq' = [mgrCorpusSeq EXCEPT ![m] = rep.upto]
       /\ seen' = [seen EXCEPT ![m] = @ \cup add \cup rep.progs \cup rep.givenUp]
  BY DEF Replied
<1> DEFINE passed == {p \in Feed!Owed(m) : c[p] <= rep.upto}
<1>15. /\ passed \subseteq Feed!Owed(m) /\ passed \in SUBSET Progs
       /\ passed = {p \in Progs : c[p] > mgrCorpusSeq[m] /\ c[p] <= rep.upto}
  BY <1>1, <1>10
<1>16. \A p \in Progs : c[p] \in Nat
  BY <1>8
<1>17. ASSUME NEW n \in Managers
       PROVE  {p \in Present' : corpus'[p] > mgrCorpusSeq'[n]}
                 = IF n = m THEN Feed!Owed(n) \ passed ELSE Feed!Owed(n)
  <2>1. mgrCorpusSeq'[n] = IF n = m THEN rep.upto ELSE mgrCorpusSeq[n]
    BY <1>1, <1>14 DEF CorpusTyped
  <2>2. mgrCorpusSeq[n] \in Nat
    BY <1>1 DEF CorpusTyped
  <2>3. Present' = {p \in Progs : c[p] > 0}
    BY <1>6 DEF Present
  <2>4. CASE n # m
    BY <1>6, <1>10, <2>1, <2>3, <2>4
  <2>5. CASE n = m
    <3>1. rep.upto \in Nat
      BY <1>7, <1>13
    <3>2. {p \in Present' : corpus'[p] > mgrCorpusSeq'[n]} = {p \in Progs : c[p] > rep.upto}
      BY <1>6, <1>16, <2>1, <2>3, <2>5, <3>1
    <3>3. ASSUME NEW p \in Progs PROVE c[p] > rep.upto <=> p \in Feed!Owed(m) \ passed
      <4>1. p \in Feed!Owed(m) <=> c[p] > mgrCorpusSeq[m]
        BY <1>1, <1>10
      <4>2. p \in passed <=> c[p] > mgrCorpusSeq[m] /\ c[p] <= rep.upto
        BY <1>15
      <4> QED BY <1>13, <1>16, <2>2, <2>5, <3>1, <4>1, <4>2
    <3>4. Feed!Owed(m) \subseteq Progs
      BY <1>1, <1>10
    <3> QED BY <2>5, <3>2, <3>3, <3>4
  <2> QED BY <2>4, <2>5
<1>18. seen' = [seen EXCEPT ![m] = @ \cup H \cup (passed \cap Supports[m])]
  <2>1. mgrCorpus[m] \subseteq seen[m]
    BY DEF CorpusInv, ReportedIsSeen
  <2>2. Pending(m, c) = {p \in Progs : c[p] > mgrCorpusSeq[m] /\ p \notin H /\ p \in Supports[m]}
    BY <1>1, <1>2 DEF Pending
  <2>3. seen[m] \cup add \cup rep.progs \cup rep.givenUp
           = seen[m] \cup H \cup (passed \cap Supports[m])
    <3>1. ASSUME NEW p
          PROVE  p \in rep.progs \cup rep.givenUp
                    <=> p \in passed /\ p \notin H /\ p \in Supports[m]
      BY <1>13, <1>15, <2>2
    <3> HIDE DEF passed
    <3> QED BY <2>1, <3>1 DEF H
  <2> QED BY <1>14, <2>3
<1>19. mgrCorpus' = [mgrCorpus EXCEPT ![m] = H]
  BY DEF H
<1> HIDE DEF passed
<1>20. Feed!Sync(m, H, passed)
  BY <1>10, <1>15, <1>17, <1>18, <1>19 DEF Feed!Sync
<1> QED BY <1>3, <1>15, <1>20 DEF Feed!Sync, Feed!Used, Feed!Owed

\* A restart of the hub reads the numbers back: nothing is owed that was not.
LEMMA RestartFeeds == CorpusInv /\ Restart => Feed!Restart
<1> SUFFICES ASSUME CorpusInv, Restart PROVE Feed!Restart
  OBVIOUS
<1>1. CorpusTyped /\ corpusSeq \in Nat /\ corpus \in [Progs -> 0 .. corpusSeq]
  BY DEF CorpusInv, CorpusTyped
<1>2. corpus' = Purged(corpus, mgrCorpus') /\ UNCHANGED <<mgrCorpusSeq, seen>>
  BY DEF Restart, historyVars
<1>3. PICK c : corpus' = c
  OBVIOUS
<1>4. /\ c \in [Progs -> 0 .. corpusSeq]
      /\ \A p \in Progs :
            /\ c[p] > 0 => c[p] = corpus[p] /\ \E x \in Managers : p \in mgrCorpus'[x]
            /\ \A x \in Managers : p \in mgrCorpus'[x] => c[p] = corpus[p]
  <2>1. ASSUME NEW has
        PROVE  /\ Purged(corpus, has) \in [Progs -> 0 .. corpusSeq]
               /\ \A p \in Progs :
                     /\ Purged(corpus, has)[p] > 0 => /\ Purged(corpus, has)[p] = corpus[p]
                                                      /\ \E x \in Managers : p \in has[x]
                     /\ \A x \in Managers : p \in has[x] => Purged(corpus, has)[p] = corpus[p]
    BY <1>1, PurgedFacts
  <2>2. PICK has : has = mgrCorpus'
    OBVIOUS
  <2>3. c = Purged(corpus, has)
    BY <1>2, <1>3, <2>2
  <2> QED BY <2>1, <2>2, <2>3
<1>5. c \in [Progs -> Nat]
  BY <1>1, <1>4
<1>6. ASSUME NEW p \in Progs
      PROVE  /\ c[p] > 0 <=> (corpus[p] > 0 \/ p \in {}) /\ \E n \in Managers : p \in mgrCorpus'[n]
             /\ c[p] > 0 /\ corpus[p] > 0 => c[p] = corpus[p]
             /\ c[p] > 0 /\ corpus[p] = 0 => c[p] > corpusSeq
  BY <1>4, <1>5
<1>7. {} \in SUBSET Progs
  OBVIOUS
<1>8. /\ Present' = Feed!Used({})
      /\ \A n \in Managers : /\ Feed!Owed(n) = {p \in Progs : c[p] > mgrCorpusSeq[n]}
                             /\ Feed!Owed(n) \subseteq Present'
  BY <1>1, <1>3, <1>5, <1>6, <1>7, FeedStep
<1>9. ASSUME NEW n \in Managers
      PROVE  {p \in Present' : corpus'[p] > mgrCorpusSeq'[n]} = Feed!Owed(n)
  <2>1. Present' = {p \in Progs : c[p] > 0} /\ mgrCorpusSeq'[n] = mgrCorpusSeq[n]
    BY <1>2, <1>3 DEF Present
  <2> QED BY <1>3, <1>8, <2>1
<1>10. UNCHANGED mgrCorpus \/ \E m \in Managers, S \in SUBSET Progs : mgrCorpus' = [mgrCorpus EXCEPT ![m] = S]
  <2>1. \A m \in known : m \in Managers /\ Halfway(m) \subseteq SUBSET Progs
    BY <1>1 DEF CorpusTyped, Halfway
  <2> QED BY <2>1 DEF Restart
<1> QED BY <1>2, <1>8, <1>9, <1>10 DEF Feed!Restart

\* Each step is one of the feed, or one that the feed does not see.
LEMMA StepFeeds == CorpusInv /\ [Next]_vars => [Feed!Next]_(Feed!vars)
<1> SUFFICES ASSUME CorpusInv, [Next]_vars PROVE [Feed!Next]_(Feed!vars)
  OBVIOUS
<1>1. CorpusTyped
  BY DEF CorpusInv
<1>2. ASSUME UNCHANGED <<corpus, mgrCorpus, mgrCorpusSeq, seen>> PROVE UNCHANGED Feed!vars
  BY <1>2 DEF Feed!vars, Present
<1>3. CASE UNCHANGED vars
  BY <1>2, <1>3 DEF vars, hubVars, historyVars
<1>4. ASSUME NEW m \in Managers, NEW lost \in 0 .. 1, Connect(m, lost) PROVE Feed!Next
  <2>1. Feed!Connect(m, local[m], m \in fresh)
    BY <1>4, ConnectFeeds
  <2>2. local[m] \in SUBSET Progs /\ (m \in fresh) \in BOOLEAN
    BY <1>1 DEF CorpusTyped
  <2> QED BY <2>1, <2>2 DEF Feed!Next, Feed!Connect, Feed!Used, Feed!Owed
<1>5. ASSUME NEW m \in Managers, NEW lost \in 0 .. 1, NEW need \in BOOLEAN, Sync(m, need, lost)
      PROVE  Feed!Next
  <2>1. m \in connected /\ Adds(m) \in SUBSET Progs /\ Dels(m) \in SUBSET Progs /\ Adds(m) \cap Dels(m) = {}
    BY <1>1, <1>5 DEF Sync, CorpusTyped, Adds, Dels
  <2>2. PICK rep \in Replies(m, corpus', corpusSeq') : Replied(m, rep, Adds(m))
    BY <1>5 DEF Sync
  <2>3. /\ mgrCorpus' = [mgrCorpus EXCEPT ![m] = (@ \ Dels(m)) \cup Adds(m)]
        /\ corpusSeq' = SeqAfter(Adds(m))
        /\ corpus' = Added(IF Dels(m) = {} THEN corpus
                           ELSE Purged(corpus, [mgrCorpus EXCEPT ![m] = @ \ Dels(m)]), Adds(m))
    BY <1>5 DEF Sync, HubSync
  <2>4. \E H \in SUBSET Progs, passed \in SUBSET Progs : Feed!Sync(m, H, passed)
    BY <2>1, <2>2, <2>3, SyncFeeds
  <2> QED BY <2>4 DEF Feed!Next
<1>6. ASSUME NEW m \in Managers, NEW lost \in 0 .. 1, SyncAgain(m, lost) PROVE Feed!Next
  <2>1. m \in connected /\ {} \in SUBSET Progs /\ {} \cap {} = {}
    BY <1>6 DEF SyncAgain
  <2>2. PICK rep \in Replies(m, corpus', corpusSeq') : Replied(m, rep, {})
    BY <1>6 DEF SyncAgain
  <2>3. /\ mgrCorpus' = [mgrCorpus EXCEPT ![m] = (@ \ {}) \cup {}]
        /\ corpusSeq' = SeqAfter({})
        /\ corpus' = Added(IF {} = {} THEN corpus
                           ELSE Purged(corpus, [mgrCorpus EXCEPT ![m] = @ \ {}]), {})
    BY <1>6 DEF SyncAgain, HubSync
  <2>4. \E H \in SUBSET Progs, passed \in SUBSET Progs : Feed!Sync(m, H, passed)
    BY <2>1, <2>2, <2>3, SyncFeeds
  <2> QED BY <2>4 DEF Feed!Next
<1>7. ASSUME NEW m \in Managers, Refused(m) \/ RequestLost(m) PROVE UNCHANGED Feed!vars
  BY <1>2, <1>7 DEF Refused, RequestLost, Disconnect, hubVars, historyVars
<1>8. ASSUME NEW m \in Managers, NEW p \in Progs, Find(m, p) \/ Minimize(m, p) PROVE UNCHANGED Feed!vars
  BY <1>2, <1>8 DEF Find, Minimize, hubVars, historyVars
<1>9. ASSUME NEW m \in Managers, NEW r \in Repros, FindRepro(m, r) PROVE UNCHANGED Feed!vars
  BY <1>2, <1>9 DEF FindRepro, hubVars, historyVars
<1>10. CASE Restart
  BY <1>10, RestartFeeds DEF Feed!Next
<1> QED BY <1>3, <1>4, <1>5, <1>6, <1>7, <1>8, <1>9, <1>10 DEF Next, ConnectorStep

\* The hub implements the feed: whatever the numbers, the cuts of replies, lost calls and
\* restarts do, a program stays owed to each manager until the manager comes by it, and
\* what a reply passes the manager has or was sent, or was given up (Connect, Sync,
\* pendingInputs, addInputs, purgeCorpus and Make of state.go).
THEOREM HubIsFeed == Spec => ImplementsFeed
<1>1. Init => Feed!Init
  BY DEF Init, Feed!Init, Present, ForEach
<1> QED BY <1>1, StepFeeds, CorpusInvHolds, PTL DEF Spec, ImplementsFeed, Feed!Spec
=============================================================================
