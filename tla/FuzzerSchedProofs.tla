------------------------- MODULE FuzzerSchedProofs -------------------------
(***************************************************************************)
(* Proofs about the fuzzer's scheduling, for any number of procs, any      *)
(* supply of candidates, bounds, and settings.                             *)
(***************************************************************************)
EXTENDS FuzzerSched, FiniteSetTheorems, TLAPS

USE SchedAssumption DEF SchedAssumption

\* The mutex is locked by a poll that needs it, and it alone keeps what is learnt from
\* falling between the two uses of the status.
StatusLocked ==
    /\ SyncsMAB /\ polling \in {"call", "reply"} => MABMu = "poll"
    /\ MABMu = "poll" \/ polling \in {"idle", "poll"} => ~learnt

SchedInv == TypeOK /\ StatusLocked

States == {"top", "count", "choose", "candidates", "mab", "arm", "update",
           "expire", "reset", "reset others", "dequeue"}

-----------------------------------------------------------------------------
(* Lemmas about the operators.                                             *)

LEMMA ConfigType == Configs \subseteq AllConfigs
OBVIOUS

LEMMA AtMostType ==
    ASSUME NEW n \in Nat, NEW max \in Nat
    PROVE  AtMost(n, max) \in Nat /\ AtMost(n, max) \in 0..max /\ AtMost(n, max) <= n
BY DEF AtMost

LEMMA Bounds ==
    /\ MaxQueue \in Nat /\ MaxRound \in Nat \ {0}
    /\ 0 \in 0..MaxRound
    /\ \A r \in 0..MaxRound : r < MaxRound => r + 1 \in 0..MaxRound
OBVIOUS

LEMMA QueuedType ==
    ASSUME NEW q \in [Kinds -> Nat], NEW k \in Kinds PROVE Queued(q, k) \in [Kinds -> Nat]
<1>1. q[k] + 1 \in Nat
  OBVIOUS
<1>2. AtMost(q[k] + 1, MaxQueue) \in Nat
  BY <1>1, Bounds, AtMostType
<1> QED BY <1>2 DEF Queued

LEMMA TakenType ==
    ASSUME NEW q \in [Kinds -> Nat], NEW k \in Kinds, q[k] > 0
    PROVE  Taken(q, k) \in [Kinds -> Nat]
<1>1. q[k] - 1 \in Nat
  OBVIOUS
<1> QED BY <1>1 DEF Taken

LEMMA AfterTypes ==
    ASSUME NEW q \in [Kinds -> Nat]
    PROVE  /\ AfterCandidate(q) \subseteq [Kinds -> Nat]
           /\ AfterExecution(q) \subseteq [Kinds -> Nat]
           /\ AfterTriage(q) \subseteq [Kinds -> Nat]
<1>1. AfterCandidate(q) \subseteq [Kinds -> Nat]
  BY QueuedType DEF AfterCandidate, Kinds
<1>2. \A r \in [Kinds -> Nat] : AfterExecution(r) \subseteq [Kinds -> Nat]
  BY QueuedType DEF AfterExecution, Kinds
<1>3. Queued(q, "smash") \in [Kinds -> Nat]
  BY QueuedType DEF Kinds
<1> QED BY <1>1, <1>2, <1>3 DEF AfterTriage

\* Candidates that the manager hands out.
LEMMA HandOutTypes ==
    ASSUME NEW q \in [Kinds -> Nat], NEW s \in 0..Supply, NEW n \in Nat, n <= s
    PROVE  s - n \in 0..Supply /\ [q EXCEPT !["candidate"] = @ + n] \in [Kinds -> Nat]
<1>1. s - n \in 0..Supply
  OBVIOUS
<1>2. q["candidate"] + n \in Nat
  BY DEF Kinds
<1> QED BY <1>1, <1>2

\* What triage takes is there.
LEMMA TriageType ==
    ASSUME TypeOK, NEW k \in TriageKinds, Triage(k) PROVE queue' \in [Kinds -> Nat]
<1>1. k \in Kinds /\ queue[k] > 0
  BY DEF TriageKinds, Kinds, TypeOK
<1>2. Taken(queue, k) \in [Kinds -> Nat]
  BY <1>1, TakenType DEF TypeOK
<1> QED BY <1>2, AfterTypes DEF Triage

LEMMA NextKindsThere ==
    ASSUME TypeOK, NEW k \in NextKinds PROVE k \in Kinds /\ queue[k] > 0
BY DEF NextKinds, TriageKinds, Kinds, TypeOK

LEMMA GotoType ==
    ASSUME TypeOK, NEW p \in Procs, NEW l \in States, Goto(p, l)
    PROVE  pc' \in [Procs -> States]
BY DEF Goto, TypeOK, States

-----------------------------------------------------------------------------
(* The steps of the procs.                                                 *)

\* The settings change towards their end only: a poll that does without the status when
\* it starts does not need it when it ends.
LEMMA ResetTurnsOff ==
    ASSUME TypeOK, NEW p \in Procs, ResetAlgorithm(p) \/ ResetOthers(p)
    PROVE  config' \in AllConfigs /\ (SyncsMAB' => SyncsMAB)
<1>1. CASE ResetAlgorithm(p)
  <2>1. config \in AllConfigs /\ config' = [config EXCEPT !.algorithm = FALSE]
    BY <1>1 DEF ResetAlgorithm, TypeOK
  <2>2. config' \in AllConfigs
    BY <2>1 DEF AllConfigs
  <2>3. config'.algorithm = FALSE /\ config'.seedSelection = config.seedSelection
    BY <2>1 DEF AllConfigs
  <2> QED BY <2>2, <2>3 DEF SyncsMAB
<1>2. CASE ResetOthers(p)
  <2>1. 0 \in 0..MaxRound /\ 0 \in 0..MaxRound - 1
    BY Bounds
  <2>2. config' \in AllConfigs
    BY <1>2, <2>1 DEF ResetOthers, AllConfigs
  <2>3. ~config'.algorithm /\ ~config'.seedSelection
    BY <1>2 DEF ResetOthers
  <2> QED BY <2>2, <2>3 DEF SyncsMAB
<1> QED BY <1>1, <1>2

\* A step of a proc that leaves the mutex, the settings and what is learnt as they are.
LEMMA ProcTypes ==
    ASSUME SchedInv, NEW p \in Procs, Proc(p), ~MABUpdateWeight(p)
    PROVE  /\ queue' \in [Kinds -> Nat] /\ pc' \in [Procs -> States]
           /\ held' \in [Procs -> 0..MaxRound] /\ MABRound' \in 0..MaxRound
           /\ needPoll' \in BOOLEAN
           /\ config' \in AllConfigs /\ (SyncsMAB' => SyncsMAB)
           /\ UNCHANGED <<MABMu, learnt, pollVars, serverVars, started>>
<1> USE DEF SchedInv, SyncsMAB
<1>0. /\ queue \in [Kinds -> Nat] /\ held \in [Procs -> 0..MaxRound]
      /\ MABRound \in 0..MaxRound /\ needPoll \in BOOLEAN /\ config \in AllConfigs
  BY DEF TypeOK
<1>1. CASE ReadRound(p)
  <2>1. pc' \in [Procs -> States]
    BY <1>1, GotoType DEF ReadRound, States
  <2> QED BY <1>0, <1>1, <2>1 DEF ReadRound
<1>2. CASE WriteRound(p)
  <2>1. pc' \in [Procs -> States]
    BY <1>2, GotoType DEF WriteRound, States
  <2>2. held[p] + 1 \in Nat
    BY <1>0
  <2>3. MABRound' \in 0..MaxRound
    BY <1>2, <2>2, Bounds, AtMostType DEF WriteRound
  <2>4. 0 \in 0..MaxRound
    BY Bounds
  <2>5. held' \in [Procs -> 0..MaxRound]
    BY <1>0, <1>2, <2>4 DEF WriteRound
  <2> QED BY <1>0, <1>2, <2>1, <2>3, <2>5 DEF WriteRound
<1>3. CASE Choose(p)
  <2>1. pc' \in [Procs -> States]
    BY <1>3, GotoType DEF Choose, States
  <2>2. queue' \in [Kinds -> Nat]
    BY <1>0, <1>3, AfterTypes DEF Choose
  <2> QED BY <1>0, <1>3, <2>1, <2>2 DEF Choose
<1>4. CASE DoCandidate(p)
  <2>1. Taken(queue, "candidate") \in [Kinds -> Nat]
    BY <1>0, <1>4, TakenType DEF DoCandidate, Kinds
  <2>2. queue' \in [Kinds -> Nat]
    BY <1>4, <2>1, AfterTypes DEF DoCandidate
  <2> QED BY <1>0, <1>4, <2>2 DEF DoCandidate, procVars, TypeOK, States
<1>5. CASE CandidatesDone(p)
  <2>1. pc' \in [Procs -> States]
    BY <1>5, GotoType DEF CandidatesDone, States
  <2> QED BY <1>0, <1>5, <2>1 DEF CandidatesDone
<1>6. CASE Expire(p)
  <2>1. pc' \in [Procs -> States]
    BY <1>6, GotoType DEF Expire, States
  <2> QED BY <1>0, <1>6, <2>1 DEF Expire
<1>7. CASE ResetAlgorithm(p)
  <2>1. pc' \in [Procs -> States]
    BY <1>7, GotoType DEF ResetAlgorithm, States
  <2> QED BY <1>0, <1>7, <2>1, ResetTurnsOff DEF ResetAlgorithm
<1>8. CASE ResetOthers(p)
  <2>1. pc' \in [Procs -> States]
    BY <1>8, GotoType DEF ResetOthers, States
  <2> QED BY <1>0, <1>8, <2>1, ResetTurnsOff DEF ResetOthers
<1>9. CASE TriageFirst(p)
  <2>1. pc' \in [Procs -> States]
    BY <1>9, GotoType DEF TriageFirst, States
  <2>2. queue' \in [Kinds -> Nat]
    BY <1>9, TriageType DEF TriageFirst
  <2> QED BY <1>0, <1>9, <2>1, <2>2 DEF TriageFirst
<1>10. CASE MABGetWeight(p)
  <2>1. pc' \in [Procs -> States]
    BY <1>10, GotoType DEF MABGetWeight, States
  <2> QED BY <1>0, <1>10, <2>1 DEF MABGetWeight
<1>11. CASE PullArm(p)
  <2>1. pc' \in [Procs -> States]
    BY <1>11, GotoType DEF PullArm, States
  <2>2. ASSUME DoGenerate PROVE queue' \in [Kinds -> Nat]
    BY <1>0, <2>2, AfterTypes DEF DoGenerate
  <2>3. ASSUME DoMutate PROVE queue' \in [Kinds -> Nat]
    <3>1. (IF queue["smash"] > 0 THEN Taken(queue, "smash") ELSE queue) \in [Kinds -> Nat]
      BY <1>0, TakenType DEF Kinds
    <3> QED BY <2>3, <3>1, AfterTypes DEF DoMutate
  <2>4. ASSUME DoTriage PROVE queue' \in [Kinds -> Nat]
    BY <2>4, TriageType DEF DoTriage
  <2>5. queue' \in [Kinds -> Nat]
    BY <1>11, <2>2, <2>3, <2>4 DEF PullArm
  <2> QED BY <1>0, <1>11, <2>1, <2>5 DEF PullArm
<1>12. ASSUME NEW k \in Kinds, Dequeue(p, k)
       PROVE  /\ queue' \in [Kinds -> Nat] /\ pc' \in [Procs -> States]
              /\ needPoll' \in BOOLEAN
              /\ UNCHANGED <<config, MABRound, MABMu, learnt, held, pollVars, serverVars, started>>
  <2>1. pc' \in [Procs -> States]
    BY <1>12, GotoType DEF Dequeue, States
  <2>2. k \in NextKinds /\ queue[k] > 0
    BY <1>12, NextKindsThere DEF Dequeue
  <2>3. Taken(queue, k) \in [Kinds -> Nat]
    BY <1>0, <2>2, TakenType
  <2>4. queue' \in AfterTriage(Taken(queue, k)) \cup AfterCandidate(Taken(queue, k))
                      \cup AfterExecution(Taken(queue, k))
    BY <1>12 DEF Dequeue, Triage
  <2>5. queue' \in [Kinds -> Nat]
    BY <2>3, <2>4, AfterTypes
  <2>6. needPoll' \in BOOLEAN
    BY <1>12 DEF Dequeue
  <2> QED BY <1>12, <2>1, <2>5, <2>6 DEF Dequeue
<1>13. CASE Fuzz(p)
  <2>1. pc' \in [Procs -> States]
    BY <1>13, GotoType DEF Fuzz, States
  <2>2. queue' \in [Kinds -> Nat]
    BY <1>0, <1>13, AfterTypes DEF Fuzz
  <2> QED BY <1>0, <1>13, <2>1, <2>2 DEF Fuzz
<1> QED BY <1>0, <1>1, <1>2, <1>3, <1>4, <1>5, <1>6, <1>7, <1>8, <1>9, <1>10, <1>11, <1>12,
        <1>13 DEF Proc

\* An update while the poll thread waits for the manager is not in the status it sent;
\* but the mutex is then locked.
LEMMA UpdateStep ==
    ASSUME SchedInv, NEW p \in Procs, MABUpdateWeight(p) PROVE SchedInv'
<1>1. pc' \in [Procs -> States]
  BY GotoType DEF MABUpdateWeight, States, SchedInv
<1>2. MABMu = "free" /\ learnt' = (polling \in {"call", "reply"})
  BY DEF MABUpdateWeight
<1>3. UNCHANGED <<config, queue, needPoll, MABRound, MABMu, held, pollVars, serverVars, started>>
  BY DEF MABUpdateWeight
<1>4. TypeOK'
  <2>1. learnt' \in BOOLEAN
    BY <1>2
  <2> QED BY <1>1, <1>3, <2>1 DEF SchedInv, TypeOK, States, pollVars, serverVars
<1>5. (SyncsMAB /\ polling \in {"call", "reply"} => MABMu = "poll")'
  BY <1>3 DEF SchedInv, StatusLocked, SyncsMAB, pollVars
<1>6. (MABMu = "poll" \/ polling \in {"idle", "poll"} => ~learnt)'
  BY <1>2, <1>3 DEF pollVars
<1> QED BY <1>4, <1>5, <1>6 DEF SchedInv, StatusLocked

LEMMA ProcStep ==
    ASSUME SchedInv, NEW p \in Procs, Proc(p) PROVE SchedInv'
<1>1. CASE MABUpdateWeight(p)
  BY <1>1, UpdateStep
<1>2. CASE ~MABUpdateWeight(p)
  <2>1. TypeOK'
    BY <1>2, ProcTypes DEF SchedInv, TypeOK, States, pollVars, serverVars
  <2>2. StatusLocked'
    BY <1>2, ProcTypes DEF SchedInv, StatusLocked, pollVars
  <2> QED BY <2>1, <2>2 DEF SchedInv
<1> QED BY <1>1, <1>2

-----------------------------------------------------------------------------
(* The steps of the poll thread and of the manager.                        *)

LEMMA PollTypes ==
    ASSUME SchedInv, Poll \/ OtherFuzzer
    PROVE  TypeOK'
<1>1. 0 \in 0..MaxRound /\ wantCandidates \in BOOLEAN
  BY Bounds DEF wantCandidates
<1>2. /\ queue \in [Kinds -> Nat] /\ supply \in 0..Supply /\ serverRound \in 0..MaxRound
      /\ sentRound \in 0..MaxRound
  BY DEF SchedInv, TypeOK
<1>3. CASE ServerPoll
  <2> DEFINE n == IF needCandidates THEN AtMost(supply, BatchSize) ELSE 0
  <2>1. n \in Nat /\ n <= supply
    <3>1. supply \in Nat /\ BatchSize \in Nat
      BY <1>2
    <3> QED BY <3>1, AtMostType
  <2>2. supply' = supply - n /\ queue' = [queue EXCEPT !["candidate"] = @ + n]
    BY <1>3 DEF ServerPoll
  <2> HIDE DEF n
  <2>3. supply' \in 0..Supply /\ queue' \in [Kinds -> Nat]
    BY <1>2, <2>1, <2>2, HandOutTypes
  <2>4. /\ serverRound' \in 0..MaxRound /\ replyRound' \in 0..MaxRound
        /\ sentRound' \in 0..MaxRound /\ polling' = "reply"
    BY <1>1, <1>3, <1>2 DEF ServerPoll
  <2>5. UNCHANGED <<config, needPoll, MABRound, MABMu, learnt, procVars, needCandidates, started>>
    BY <1>3 DEF ServerPoll
  <2> QED BY <2>3, <2>4, <2>5 DEF SchedInv, TypeOK, procVars
<1>4. CASE OtherFuzzer
  <2>1. serverRound' \in 0..MaxRound
    BY <1>4, <1>2, Bounds DEF OtherFuzzer
  <2> QED BY <1>4, <2>1 DEF OtherFuzzer, SchedInv, TypeOK, procVars, pollVars
<1> USE DEF SchedInv, TypeOK, procVars, pollVars, serverVars
<1>5. CASE Tick
  BY <1>1, <1>5 DEF Tick
<1>6. CASE Signalled
  BY <1>6 DEF Signalled
<1>7. CASE SendStatus
  BY <1>7 DEF SendStatus
<1>8. CASE SendNoStatus
  BY <1>1, <1>8 DEF SendNoStatus
<1>9. CASE ReceiveStatus
  BY <1>1, <1>9 DEF ReceiveStatus, PollEnds
<1>10. CASE ReceiveNoStatus
  BY <1>1, <1>10 DEF ReceiveNoStatus, PollEnds
<1> QED BY <1>3, <1>4, <1>5, <1>6, <1>7, <1>8, <1>9, <1>10 DEF Poll

LEMMA PollLocks ==
    ASSUME SchedInv, Poll \/ OtherFuzzer
    PROVE  StatusLocked'
<1> USE DEF SchedInv, StatusLocked, SyncsMAB, TypeOK, procVars, pollVars, serverVars
<1>1. CASE Tick
  BY <1>1 DEF Tick
<1>2. CASE Signalled
  BY <1>2 DEF Signalled
<1>3. CASE SendStatus
  BY <1>3 DEF SendStatus
<1>4. CASE SendNoStatus
  BY <1>4 DEF SendNoStatus
<1>5. CASE ServerPoll
  BY <1>5 DEF ServerPoll
<1>6. CASE ReceiveStatus
  BY <1>6 DEF ReceiveStatus, PollEnds
<1>7. CASE ReceiveNoStatus
  BY <1>7 DEF ReceiveNoStatus, PollEnds
<1>8. CASE OtherFuzzer
  BY <1>8 DEF OtherFuzzer
<1> QED BY <1>1, <1>2, <1>3, <1>4, <1>5, <1>6, <1>7, <1>8 DEF Poll

-----------------------------------------------------------------------------
(* The theorems.                                                           *)

LEMMA SchedInvInit == ASSUME Init PROVE SchedInv
<1>1. 0 \in 0..MaxRound /\ 1 \in 0..MaxRound /\ Supply \in 0..Supply
  BY Bounds
<1>2. TypeOK
  BY <1>1, ConfigType DEF Init, TypeOK
<1>3. StatusLocked
  BY DEF Init, StatusLocked
<1> QED BY <1>2, <1>3 DEF SchedInv

LEMMA SchedInvNext == ASSUME SchedInv, [Next]_vars PROVE SchedInv'
<1>1. CASE UNCHANGED vars
  BY <1>1 DEF SchedInv, TypeOK, StatusLocked, SyncsMAB, vars, procVars, pollVars, serverVars
<1>2. CASE Poll \/ OtherFuzzer
  BY <1>2, PollTypes, PollLocks DEF SchedInv
<1> QED BY <1>1, <1>2, ProcStep DEF Next

LEMMA SchedInvHolds == Spec => []SchedInv
BY SchedInvInit, SchedInvNext, PTL DEF Spec

\* The type invariant: no item is taken from a queue that has none, and the manager never
\* hands out more candidates than it has, whoever polls.
THEOREM SchedTypes == Spec => []TypeOK
<1>1. SchedInv => TypeOK
  BY DEF SchedInv
<1> QED BY <1>1, SchedInvHolds, PTL

\* While a call of the poll thread is worked off that may replace the status, MABMu is held
\* and nothing has been learnt since getMABStatus: the manager compared rounds with the very
\* status that goes, whatever the settings became during the call (fuzzer.go:571-684).  What
\* that status had of its own goes with it; SyncMABStatus takes none of it (rpc.go:272-284).
THEOREM SchedReplaces == Spec => []ReplacedWasSent
<1>1. SchedInv => ReplacedWasSent
  BY DEF SchedInv, StatusLocked, ReplacedWasSent, TypeOK
<1> QED BY <1>1, SchedInvHolds, PTL
=============================================================================
