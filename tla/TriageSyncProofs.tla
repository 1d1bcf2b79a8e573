-------------------------- MODULE TriageSyncProofs --------------------------
(***************************************************************************)
(* Proofs about TriageSync, for any numbers of fuzzers, programs, calls    *)
(* and crashes and any size of the batches: the manager never forgets a    *)
(* pending triage of a program that no running fuzzer has begun.           *)
(***************************************************************************)
EXTENDS TriageSync, TLAPS

\* A program that a fuzzer reports as started has been begun by that fuzzer:
\* completeTriage is the only place that sets its record to 1 (fuzzer.go:719-735).
DoneIsBegun ==
    \A f \in Fuzzers, s \in Sigs : triages[f][s] = "done" => s \in begun[f]

IInv == TypeOK /\ DoneIsBegun

-----------------------------------------------------------------------------
\* A work is a record of a program and one of its calls.
LEMMA WorkFacts ==
    /\ \A w \in Work : w.sig \in Sigs /\ w.call \in Calls
    /\ \A s \in Sigs, c \in Calls : [sig |-> s, call |-> c] \in Work
BY DEF Work

\* The programs of a batch have works in the buffer.
LEMMA BatchFacts ==
    ASSUME NEW f \in Fuzzers, NEW b \in Batches(f)
    PROVE  b.whole \subseteq Sigs /\ b.part \subseteq Sigs
<1> DEFINE pending == {s \in Sigs : unsent[f][s] # <<>>}
<1>1. b \in [whole : SUBSET pending, part : SUBSET pending]
  BY DEF Batches
<1>2. pending \subseteq Sigs
  OBVIOUS
<1> HIDE DEF pending
<1> QED  BY <1>1, <1>2

\* What the manager stores of a program are works of that program.
LEMMA StoredFacts ==
    ASSUME TypeOK, NEW f \in Fuzzers, NEW b, NEW s \in Sigs
    PROVE  Stored(f, b, s) \subseteq Work
<1>1. unsent[f][s] \in Seq(Calls)
  BY DEF TypeOK
<1>2. ASSUME NEW i \in Sent(f, b, s)
      PROVE  [sig |-> s, call |-> unsent[f][s][i]] \in Work
  <2>1. i \in DOMAIN unsent[f][s]
    BY DEF Sent
  <2>2. unsent[f][s][i] \in Calls
    BY <1>1, <2>1
  <2> QED  BY <2>2, WorkFacts
<1> QED  BY <1>2 DEF Stored

\* What is stored of several programs are works.
LEMMA AllStoredFacts ==
    ASSUME TypeOK, NEW f \in Fuzzers, NEW b, NEW S \in SUBSET Sigs
    PROVE  works \cup UNION {Stored(f, b, s) : s \in S} \subseteq Work
<1>1. \A s \in S : Stored(f, b, s) \subseteq Work
  BY StoredFacts
<1>2. works \subseteq Work
  BY DEF TypeOK
<1> QED  BY <1>1, <1>2

\* What is handed out of some works is among them.
LEMMA HandOutFacts ==
    ASSUME NEW f, NEW ws, NEW r \in HandOuts(f, ws)
    PROVE  r \subseteq ws
<1>1. r \in SUBSET {w \in ws : triages[f][w.sig] = "none"}
  BY DEF HandOuts, Parts
<1> QED  BY <1>1

-----------------------------------------------------------------------------
\* Every fuzzer starts without records.
LEMMA InitIInv == Init => IInv
<1> SUFFICES ASSUME Init PROVE IInv
  OBVIOUS
<1>1. <<>> \in Seq(Calls)
  OBVIOUS
<1>2. TypeOK
  BY <1>1, TriageAssumption DEF Init, TypeOK
<1>3. DoneIsBegun
  BY DEF Init, DoneIsBegun
<1> QED  BY <1>2, <1>3 DEF IInv

\* enqueueCallTriage queues a triage.
LEMMA FindStep ==
    ASSUME IInv, NEW f \in Fuzzers, NEW w \in Findable, Find(f, w)
    PROVE  IInv'
<1> USE DEF IInv
<1>1. w \in Work
  BY TriageAssumption DEF Work
<1>2. queue' \in [Fuzzers -> [Work -> Nat]]
  BY <1>1 DEF Find, TypeOK
<1>3. arriving' \in [Fuzzers -> SUBSET Work]
  BY <1>1 DEF Find, TypeOK
<1>4. finds' \in 0 .. MaxFinds
  BY TriageAssumption DEF Find, TypeOK
<1>5. TypeOK'
  BY <1>2, <1>3, <1>4 DEF Find, TypeOK
<1>6. DoneIsBegun'
  BY DEF Find, DoneIsBegun
<1> QED  BY <1>5, <1>6

\* newTriage opens a record and puts the work into the buffer.
LEMMA NewTriageStep ==
    ASSUME IInv, NEW f \in Fuzzers, NEW w \in Work, NewTriage(f, w)
    PROVE  IInv'
<1> USE DEF IInv
<1>1. w.sig \in Sigs /\ w.call \in Calls
  BY WorkFacts
<1>2. Append(unsent[f][w.sig], w.call) \in Seq(Calls)
  BY <1>1 DEF TypeOK
<1>3. unsent' \in [Fuzzers -> [Sigs -> Seq(Calls)]]
  BY <1>1, <1>2 DEF NewTriage, TypeOK
<1>4. triages' \in [Fuzzers -> [Sigs -> {"none", "open", "done"}]]
  BY <1>1 DEF NewTriage, TypeOK
<1>5. arriving' \in [Fuzzers -> SUBSET Work]
  BY DEF NewTriage, TypeOK
<1>6. TypeOK'
  BY <1>3, <1>4, <1>5 DEF NewTriage, TypeOK
<1>7. DoneIsBegun'
  BY <1>1 DEF NewTriage, DoneIsBegun, TypeOK
<1> QED  BY <1>6, <1>7

\* completeTriage marks the record of a program as it is begun.
LEMMA CompleteTriageStep ==
    ASSUME IInv, NEW f \in Fuzzers, NEW w \in Work, CompleteTriage(f, w)
    PROVE  IInv'
<1> USE DEF IInv
<1>1. w.sig \in Sigs
  BY WorkFacts
<1>2. queue' \in [Fuzzers -> [Work -> Nat]]
  <2>1. queue[f][w] \in Nat /\ queue[f][w] > 0
    BY DEF CompleteTriage, TypeOK
  <2>2. queue[f][w] - 1 \in Nat
    BY <2>1
  <2> QED  BY <2>2 DEF CompleteTriage, TypeOK
<1>3. triages' \in [Fuzzers -> [Sigs -> {"none", "open", "done"}]]
  BY <1>1 DEF CompleteTriage, Marked, TypeOK
<1>4. unsent' \in [Fuzzers -> [Sigs -> Seq(Calls)]]
  <2>1. <<>> \in Seq(Calls)
    OBVIOUS
  <2> QED  BY <1>1, <2>1 DEF CompleteTriage, TypeOK
<1>5. begun' \in [Fuzzers -> SUBSET Sigs]
  BY <1>1 DEF CompleteTriage, TypeOK
<1>6. TypeOK'
  BY <1>2, <1>3, <1>4, <1>5 DEF CompleteTriage, TypeOK
<1>7. DoneIsBegun'
  BY <1>1 DEF CompleteTriage, DoneIsBegun, TypeOK
<1> QED  BY <1>6, <1>7

\* The manager's part of a poll keeps its works and what it hands out typed.
LEMMA PollTyped ==
    ASSUME IInv, NEW f \in Fuzzers, NEW b \in Batches(f), NEW need \in BOOLEAN,
           Returns(f, b) \/ Answers(f, b, need)
    PROVE  works' \subseteq Work /\ reply' \in [Fuzzers -> SUBSET Work]
<1> USE DEF IInv
<1>1. b.whole \subseteq Sigs /\ b.part \subseteq Sigs
  BY BatchFacts
<1>2. reply \in [Fuzzers -> SUBSET Work]
  BY DEF TypeOK
<1>3. CASE Returns(f, b)
  <2>1. PICK s \in b.whole \cup b.part :
          \E before \in SUBSET (b.whole \cap Clean(f, b)) :
            works' = works \cup UNION {Stored(f, b, t) : t \in before \cup {s}}
    BY <1>3 DEF Returns
  <2>2. PICK before \in SUBSET (b.whole \cap Clean(f, b)) :
          works' = works \cup UNION {Stored(f, b, t) : t \in before \cup {s}}
    BY <2>1
  <2>3. before \cup {s} \in SUBSET Sigs
    BY <1>1
  <2>4. works' \subseteq Work
    BY <2>2, <2>3, AllStoredFacts
  <2> QED  BY <1>2, <1>3, <2>4 DEF Returns
<1>4. CASE Answers(f, b, need)
  <2> DEFINE stored == works \cup UNION {Stored(f, b, s) : s \in Clean(f, b)}
  <2>1. works' = stored \ Dropped(f, stored)
    BY <1>4 DEF Answers
  <2>2. Clean(f, b) \in SUBSET Sigs
    BY <1>1 DEF Clean
  <2>3. stored \subseteq Work
    BY <2>2, AllStoredFacts
  <2> HIDE DEF stored
  <2>4. works' \subseteq Work
    BY <2>1, <2>3
  <2>5. PICK r \in IF need THEN HandOuts(f, works') ELSE {{}} :
          reply' = [reply EXCEPT ![f] = r]
    BY <1>4 DEF Answers
  <2>6. r \subseteq Work
    <3>1. CASE need
      BY <2>4, <2>5, <3>1, HandOutFacts
    <3>2. CASE ~need
      BY <2>5, <3>2
    <3> QED  BY <3>1, <3>2
  <2> QED  BY <1>2, <2>4, <2>5, <2>6
<1> QED  BY <1>3, <1>4

\* A poll sends a batch of the buffer and the records.
LEMMA PollStep ==
    ASSUME IInv, NEW f \in Fuzzers, Poll(f)
    PROVE  IInv'
<1> USE DEF IInv
<1>1. PICK b \in Batches(f), need \in BOOLEAN :
          /\ unsent' = [unsent EXCEPT ![f] =
                [s \in Sigs |-> IF s \in b.whole THEN <<>> ELSE @[s]]]
          /\ polling' = [polling EXCEPT ![f] = IF need THEN "need" ELSE "plain"]
          /\ Returns(f, b) \/ Answers(f, b, need)
  BY DEF Poll
<1>2. works' \subseteq Work /\ reply' \in [Fuzzers -> SUBSET Work]
  BY <1>1, PollTyped
<1>3. unsent' \in [Fuzzers -> [Sigs -> Seq(Calls)]]
  <2>1. <<>> \in Seq(Calls)
    OBVIOUS
  <2> QED  BY <1>1, <2>1 DEF TypeOK
<1>4. polling' \in [Fuzzers -> {"no", "need", "plain"}]
  BY <1>1 DEF TypeOK
<1>5. TypeOK'
  BY <1>2, <1>3, <1>4 DEF Poll, TypeOK
<1>6. DoneIsBegun'
  BY DEF Poll, DoneIsBegun
<1> QED  BY <1>5, <1>6

\* The reply removes the records of programs begun and opens new ones.
LEMMA PollReplyStep ==
    ASSUME IInv, NEW f \in Fuzzers, PollReply(f)
    PROVE  IInv'
<1> USE DEF IInv
<1> PICK got \in IF polling[f] = "need" THEN Readable(reply[f]) ELSE {{}} :
          /\ triages' = [triages EXCEPT ![f] = [s \in Sigs |->
                IF \E w \in got : w.sig = s THEN "open"
                ELSE IF @[s] = "done" THEN "none" ELSE @[s]]]
          /\ queue' = [queue EXCEPT ![f] = [w \in Work |-> @[w] + (IF w \in got THEN 1 ELSE 0)]]
  BY DEF PollReply
<1>1. triages' \in [Fuzzers -> [Sigs -> {"none", "open", "done"}]]
  BY DEF TypeOK
<1>2. queue' \in [Fuzzers -> [Work -> Nat]]
  <2>1. ASSUME NEW w \in Work
        PROVE  queue[f][w] + (IF w \in got THEN 1 ELSE 0) \in Nat
    BY DEF TypeOK
  <2> QED  BY <2>1 DEF TypeOK
<1>3. reply' \in [Fuzzers -> SUBSET Work] /\ polling' \in [Fuzzers -> {"no", "need", "plain"}]
  BY DEF PollReply, TypeOK
<1>4. TypeOK'
  BY <1>1, <1>2, <1>3 DEF PollReply, TypeOK
<1>5. DoneIsBegun'
  BY DEF PollReply, DoneIsBegun, TypeOK
<1> QED  BY <1>4, <1>5

\* A crash takes the fuzzer's records with the programs it had begun.
LEMMA CrashStep ==
    ASSUME IInv, NEW f \in Fuzzers, Crash(f)
    PROVE  IInv'
<1> USE DEF IInv
<1>1. crashes' \in 0 .. MaxCrashes
  BY TriageAssumption DEF Crash, TypeOK
<1>2. unsent' \in [Fuzzers -> [Sigs -> Seq(Calls)]]
  <2>1. <<>> \in Seq(Calls)
    OBVIOUS
  <2> QED  BY <2>1 DEF Crash, TypeOK
<1>3. /\ queue' \in [Fuzzers -> [Work -> Nat]]
      /\ arriving' \in [Fuzzers -> SUBSET Work]
      /\ reply' \in [Fuzzers -> SUBSET Work]
  BY DEF Crash, TypeOK
<1>4. /\ triages' \in [Fuzzers -> [Sigs -> {"none", "open", "done"}]]
      /\ polling' \in [Fuzzers -> {"no", "need", "plain"}]
      /\ begun' \in [Fuzzers -> SUBSET Sigs]
  BY DEF Crash, TypeOK
<1>5. lost' \subseteq Sigs /\ up' \subseteq Fuzzers
  BY DEF Crash, TypeOK
<1>6. TypeOK'
  BY <1>1, <1>2, <1>3, <1>4, <1>5 DEF Crash, TypeOK
<1>7. DoneIsBegun'
  BY DEF Crash, DoneIsBegun, TypeOK
<1> QED  BY <1>6, <1>7

\* Every step keeps the invariant.
LEMMA NextIInv == IInv /\ [Next]_vars => IInv'
<1> SUFFICES ASSUME IInv, [Next]_vars PROVE IInv'
  OBVIOUS
<1>1. ASSUME NEW f \in Fuzzers, FuzzerStep(f) PROVE IInv'
  <2>1. ASSUME NEW w \in Work, NewTriage(f, w) PROVE IInv'
    BY <2>1, NewTriageStep
  <2>2. ASSUME NEW w \in Work, CompleteTriage(f, w) PROVE IInv'
    BY <2>2, CompleteTriageStep
  <2>3. CASE Poll(f)
    BY <2>3, PollStep
  <2>4. CASE PollReply(f)
    BY <2>4, PollReplyStep
  <2>5. CASE Reconnect(f)
    BY <2>5 DEF IInv, Reconnect, TypeOK, DoneIsBegun
  <2> QED  BY <1>1, <2>1, <2>2, <2>3, <2>4, <2>5 DEF FuzzerStep
<1>2. ASSUME NEW f \in Fuzzers, Crash(f) PROVE IInv'
  BY <1>2, CrashStep
<1>3. ASSUME NEW f \in Fuzzers, NEW w \in Findable, Find(f, w) PROVE IInv'
  BY <1>3, FindStep
<1>4. CASE UNCHANGED vars
  BY <1>4 DEF IInv, vars, fuzzerVars, TypeOK, DoneIsBegun
<1> QED  BY <1>1, <1>2, <1>3, <1>4 DEF Next

-----------------------------------------------------------------------------
\* The invariant holds of every state of the specification (newTriage,
\* completeTriage, poll, RPCServer.Poll and the crashes in between).
THEOREM IInvHolds == Spec => []IInv
<1> QED  BY InitIInv, NextIInv, PTL DEF Spec

\* The variables of the fuzzers and the manager keep their types.
THEOREM TypeCorrect == Spec => []TypeOK
<1>1. IInv => TypeOK
  BY DEF IInv
<1> QED  BY <1>1, IInvHolds, PTL

\* Only an answered poll removes works, and only those of programs that the
\* polling fuzzer has on record as begun (rpc.go:411-416).
LEMMA StepDrops ==
    ASSUME IInv, Next, NEW w \in works \ works'
    PROVE  \E f \in up : w.sig \in begun[f]
<1>1. PICK f \in Fuzzers : Poll(f) /\ f \in up
  BY DEF Next, Poll, FuzzerStep, NewTriage, CompleteTriage, PollReply, Reconnect, Crash, Find
<1>2. PICK b \in Batches(f), need \in BOOLEAN : Returns(f, b) \/ Answers(f, b, need)
  BY <1>1 DEF Poll
<1>3. ~Returns(f, b)
  BY DEF Returns
<1> DEFINE stored == works \cup UNION {Stored(f, b, s) : s \in Clean(f, b)}
<1>4. works' = stored \ Dropped(f, stored)
  BY <1>2, <1>3 DEF Answers
<1>5. w \in Dropped(f, stored)
  BY <1>4
<1>6. triages[f][w.sig] = "done"
  BY <1>5 DEF Dropped
<1>7. w.sig \in Sigs
  BY WorkFacts DEF IInv, TypeOK
<1> QED  BY <1>1, <1>6, <1>7 DEF IInv, DoneIsBegun

\* The manager forgets a pending triage only while a fuzzer runs that has begun
\* its program, whatever has crashed and been reported twice (rpc.go:397-416).
THEOREM OnlyBegunIsDropped == Spec => DroppedOnlyBegun
<1>1. IInv /\ [Next]_vars => [\A w \in works \ works' : \E f \in up : w.sig \in begun[f]]_vars
  BY StepDrops
<1> QED  BY <1>1, IInvHolds, PTL DEF Spec, DroppedOnlyBegun
=============================================================================
